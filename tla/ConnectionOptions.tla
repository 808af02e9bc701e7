------------------------- MODULE ConnectionOptions -------------------------
(***************************************************************************)
(* What a [connection] table means: the defaults and the normalisation of  *)
(* src/config.rs and src/protocol.rs, the options and the TLS              *)
(* configuration that src/client.rs makes of it, and the brokers a         *)
(* connection with these options is established with.  The path of a URL   *)
(* is a sequence of "/" and names; an optional field is a set of at most   *)
(* one value.                                                              *)
(***************************************************************************)
EXTENDS Building

CONSTANTS
    NativeRoots,   \* subjects of the platform's root certificates
    Brokers        \* what may answer at host:port

UrlPathType == Seq({"/", "ws", "mqtt"})

ConnectionType == [
    tls : BOOLEAN,
    protocol : {"absent", "mqtt", "ws"},
    path : SUBSET UrlPathType,
    auth : AuthType,
    selfSigned : BOOLEAN]      \* allow_self_signed_certs

\* A broker expects TLS or not, and shows a certificate of some issuer.
BrokerType == [tls : BOOLEAN, issuer : STRING]

ASSUME ConnectionAssumption == Brokers \subseteq BrokerType /\ Brokers # {}

DefaultPath == <<"/", "ws">>

\* WebsocketConfig::normalize.
Normalize(path) ==
    IF path # << >> /\ Head(path) # "/" THEN <<"/">> \o path ELSE path

PathOf(c) == Or(c.path, DefaultPath)

\* The path of the file as it stands (a mutant of Loaded).
LoadedVerbatim(c) == [c EXCEPT !.protocol = IF @ = "absent" THEN "mqtt" ELSE @,
                               !.path = {PathOf(c)}]

\* The connection as Config::load returns it.
Loaded(c) == [c EXCEPT !.protocol = IF @ = "absent" THEN "mqtt" ELSE @,
                       !.path = {Normalize(PathOf(c))}]

----------------------------------------------------------------------------
(* build_options *)

IsMtls(c) == c.auth.method = "mtls"

\* mTLS needs TLS whatever the file says.
UsesTls(c) == c.tls \/ IsMtls(c)

Scheme(c) == IF UsesTls(c) THEN "wss" ELSE "ws"

\* The host argument of MqttOptions::new: a bare host, or a URL.
Target(c) ==
    IF c.protocol = "ws" THEN [scheme |-> Scheme(c), path |-> PathOf(c)]
    ELSE [scheme |-> "none", path |-> << >>]

Transport(c) ==
    IF UsesTls(c) THEN (IF c.protocol = "ws" THEN "Wss" ELSE "Tls")
    ELSE (IF c.protocol = "ws" THEN "Ws" ELSE "Tcp")

----------------------------------------------------------------------------
(* build_tls_config *)

\* The platform's roots for mTLS too (a mutant of Trust).
TrustNative(c) ==
    IF ~UsesTls(c) THEN "unused" ELSE IF c.selfSigned THEN "any" ELSE "native"

\* Which certificates of a broker are accepted.
Trust(c) ==
    IF ~UsesTls(c) THEN "unused"
    ELSE IF c.selfSigned THEN "any"
    ELSE IF IsMtls(c) THEN "ca_file" ELSE "native"

ClientInitErrors == {"NativeCerts", "PemParse", "MissingPrivateKey", "InvalidClientCert"}

\* Building the root store; the platform's roots may fail to load.
RootResults(c) ==
    CASE Trust(c) = "ca_file" -> {IF Pem(c.auth.ca).valid THEN "Ok" ELSE "PemParse"}
      [] Trust(c) = "native" -> {"Ok", "NativeCerts"}
      [] OTHER -> {"Ok"}

\* The subjects of the root store; a CA file may well be without any.
Roots(c) ==
    CASE Trust(c) = "ca_file" ->
            LET certs == Pem(c.auth.ca).certs IN {certs[i].subject : i \in DOMAIN certs}
      [] Trust(c) = "native" -> NativeRoots
      [] OTHER -> {}

\* The client's own certificate: its chain, the first key of the key file, and
\* rustls' comparison of the two.
IdentityResult(c) ==
    IF ~IsMtls(c) THEN "Ok"
    ELSE LET certs == Pem(c.auth.cert).certs
             keys == Pem(c.auth.key).keys
         IN  IF ~Pem(c.auth.cert).valid \/ ~Pem(c.auth.key).valid THEN "PemParse"
             ELSE IF keys = << >> THEN "MissingPrivateKey"
             ELSE IF certs = << >> \/ certs[1].key # keys[1] THEN "InvalidClientCert"
             ELSE "Ok"

\* The results build_options may have; the first error is returned.
OptionsResults(c) ==
    IF "Ok" \in RootResults(c)
    THEN (RootResults(c) \ {"Ok"}) \cup {IdentityResult(c)}
    ELSE RootResults(c)

\* How the client identifies itself.
Identity(c) ==
    CASE c.auth.method = "mtls" -> "certificate"
      [] c.auth.method = "userpass" -> "password"
      [] c.auth.method = "none" -> "anonymous"

Options(c) == [target |-> Target(c), transport |-> Transport(c), trust |-> Trust(c),
               roots |-> Roots(c), identity |-> Identity(c)]

----------------------------------------------------------------------------
\* The first poll of the event loop establishes the connection: with "any" the
\* certificate is not verified, otherwise its issuer must be a root.
Accepts(o, b) ==
    IF o.transport \in {"Tls", "Wss"}
    THEN b.tls /\ (o.trust = "any" \/ b.issuer \in o.roots)
    ELSE ~b.tls
============================================================================
