----------------------------- MODULE MCStartup -----------------------------
(* Startup from every configuration of at most two [[topic]] blocks, from   *)
(* some of three, with every kind of decoder and every connection table.    *)
EXTENDS Startup, TLC

MCLiterals == {"a", "b"}
MCMixed == {"a+"}
MCTexts == {<<"a">>, <<"b">>, <<"a", "#">>, <<"a+">>}
MCTopics == {<<"a">>}

----------------------------------------------------------------------------
(* The disk: schemas with imports that are found beside them, by an include *)
(* path, in both places or not at all, and PEM files for mTLS.              *)

MCBaseDir == <<"/", "etc">>
Schema(imports, messages) ==
    [kind |-> "schema", valid |-> TRUE, imports |-> imports, messages |-> messages]
PemFile(certs, keys) == [kind |-> "pem", valid |-> TRUE, certs |-> certs, keys |-> keys]
Cert(subject, issuer, key) == [subject |-> subject, issuer |-> issuer, key |-> key]

MCDisk ==
    <<"/", "etc", "device.proto">> :> Schema({<<"status.proto">>}, {"Device"})
    @@ <<"/", "lib", "status.proto">> :> Schema({}, {"Status"})
    @@ <<"/", "etc", "unit.proto">> :> Schema({<<"base.proto">>}, {"Unit"})
    @@ <<"/", "etc", "base.proto">> :> Schema({}, {"Base"})
    @@ <<"/", "old", "base.proto">> :> [Schema({}, {"Base"}) EXCEPT !.valid = FALSE]
    @@ <<"/", "etc", "loop.proto">> :> Schema({<<"loop.proto">>}, {"Loop"})
    @@ <<"/", "etc", "bad.proto">> :> [Schema({}, {"Bad"}) EXCEPT !.valid = FALSE]
    @@ <<"/", "etc", "ca.pem">> :> PemFile(<<Cert("ca", "ca", "k0")>>, << >>)
    @@ <<"/", "etc", "cert.pem">> :> PemFile(<<Cert("client", "ca", "k1")>>, << >>)
    @@ <<"/", "etc", "key.pem">> :> PemFile(<< >>, <<"k1">>)
    @@ <<"/", "etc", "other.pem">> :> PemFile(<< >>, <<"k2">>)
    @@ <<"/", "etc", "torn.pem">> :> [PemFile(<< >>, << >>) EXCEPT !.valid = FALSE]

Proto(file, message, includes) ==
    [kind |-> "protobuf", protoFile |-> <<file>>, messageType |-> message,
     includePaths |-> includes]
Lib == << <<"/", "lib">> >>
Jinja(parses) == [kind |-> "template", parses |-> parses, literal |-> TRUE,
                  uses |-> {}, undefined |-> "strict"]

MCDecoderConfigs ==
    "utf8" :> Utf8
    @@ "hexdump" :> Hexdump
    @@ "template" :> Jinja(TRUE)
    @@ "unclosed" :> Jinja(FALSE)
    @@ "device" :> Proto("device.proto", "Device", Lib)
    @@ "unit" :> Proto("unit.proto", "Unit", << >>)
    @@ "status" :> Proto("device.proto", "Status", Lib)
    @@ "no_include" :> Proto("device.proto", "Device", << >>)
    @@ "no_file" :> Proto("gone.proto", "Device", Lib)
    @@ "no_message" :> Proto("device.proto", "Bad", Lib)
    @@ "loop" :> Proto("loop.proto", "Loop", << >>)
    @@ "bad" :> Proto("bad.proto", "Bad", << >>)
MCDecoders == DOMAIN MCDecoderConfigs

----------------------------------------------------------------------------
(* The configurations *)

Connection(tls, protocol, path, auth, selfSigned) ==
    [tls |-> tls, protocol |-> protocol, path |-> path, auth |-> auth,
     selfSigned |-> selfSigned]

Mtls(ca, cert, key) ==
    [method |-> "mtls", ca |-> <<ca>>, cert |-> <<cert>>, key |-> <<key>>]
UserPass(env) == [method |-> "userpass", env |-> env]
MCAuth ==
    {NoAuth, UserPass({}), UserPass({"PASSWORD"}), UserPass({"UNSET"}),
     Mtls("ca.pem", "cert.pem", "key.pem"),
     Mtls("key.pem", "cert.pem", "key.pem"),      \* a CA file without a certificate
     Mtls("torn.pem", "cert.pem", "key.pem"),
     Mtls("ca.pem", "cert.pem", "gone.pem"),
     Mtls("ca.pem", "cert.pem", "ca.pem"),        \* a key file without a key
     Mtls("ca.pem", "cert.pem", "other.pem"),     \* the key of another certificate
     Mtls("ca.pem", "key.pem", "key.pem")}

MCBrokers == [tls : {TRUE}, issuer : {"ca", "public", "self"}] \cup {[tls |-> FALSE, issuer |-> "none"]}

Plain == Connection(FALSE, "absent", {}, NoAuth, FALSE)
AllConnections ==
    {Connection(tls, protocol, path, auth, selfSigned) :
        tls \in BOOLEAN, protocol \in {"absent", "mqtt", "ws"},
        path \in {{}, {<< >>}, {<<"mqtt">>}, {<<"/", "mqtt">>}},
        auth \in MCAuth, selfSigned \in BOOLEAN}

Config(topics, decoders, max, connection) ==
    [topics |-> topics, decoders |-> decoders, maxConcurrent |-> max,
     connection |-> connection]

\* "dev" names a decoder, if the file has a [decoder.dev] table.
MCNames == {"dev"}
Refs == {Absent, Ref("dev"), Literal("utf8")}
Blocks == [filter : MCTexts \ {<<"b">>}, decoder : Refs]
Block3 == [filter |-> <<"b">>, decoder |-> Absent]
Tables == {"dev" :> "device", "dev" :> "no_include", << >>}

One == <<[filter |-> <<"a">>, decoder |-> Ref("dev")]>>
Two == Append(One, [filter |-> <<"a", "#">>, decoder |-> Absent])
Three == Append(Two, Block3)

TopicLists ==
    {<< >>} \cup {<<b>> : b \in Blocks} \cup (Blocks \X Blocks)
    \cup {<<b, c, Block3>> : b \in Blocks, c \in Blocks}

MCConfigs ==
    {Config(topics, table, max, Plain) :
        topics \in TopicLists, table \in Tables, max \in {0, 1}}
    \cup {Config(One, "dev" :> d, 1, Plain) : d \in MCDecoders}
    \cup {Config(One, "dev" :> "utf8", 1, c) : c \in AllConnections}

\* Three topics that can all be subscribed to, and nothing that fails on the
\* way but the network.
ThreeConfigs == {Config(Three, "dev" :> "utf8", 1, Plain)}

\* Every connection table that does not ask for TLS.
ClearConfigs ==
    {Config(One, "dev" :> "utf8", 1, c) : c \in {d \in AllConnections : ~d.tls}}

----------------------------------------------------------------------------
(* The unit tests of the repository on these files: what the model makes of *)
(* a connection table, a decoder or credentials is what the code was tested *)
(* to make of them.                                                         *)

Client == Mtls("ca.pem", "cert.pem", "key.pem")

\* What a test asserts of the options: transport, credentials, scheme, path.
OptionsOf(c) ==
    LET o == Options(c)
    IN  <<o.transport, o.identity, o.target.scheme, o.target.path>>

OptionsTest(tls, protocol, auth, selfSigned, transport, identity) ==
    LET path == IF protocol = "ws" THEN <<"/", "mqtt">> ELSE << >>
        scheme == CASE transport = "Ws" -> "ws" [] transport = "Wss" -> "wss"
                    [] OTHER -> "none"
    IN  [connection |-> Connection(tls, protocol, {path}, auth, selfSigned),
         expected |-> <<transport, identity, scheme, path>>]

OptionsTests ==
    {OptionsTest(FALSE, "mqtt", NoAuth, FALSE, "Tcp", "anonymous"),
     OptionsTest(FALSE, "mqtt", UserPass({}), FALSE, "Tcp", "password"),
     OptionsTest(TRUE, "mqtt", Client, FALSE, "Tls", "certificate"),
     OptionsTest(TRUE, "mqtt", NoAuth, FALSE, "Tls", "anonymous"),
     OptionsTest(TRUE, "mqtt", UserPass({}), FALSE, "Tls", "password"),
     OptionsTest(FALSE, "mqtt", Client, FALSE, "Tls", "certificate"),
     OptionsTest(TRUE, "mqtt", Mtls("torn.pem", "cert.pem", "key.pem"), TRUE,
                 "Tls", "certificate"),
     OptionsTest(TRUE, "mqtt", UserPass({}), TRUE, "Tls", "password"),
     OptionsTest(FALSE, "ws", NoAuth, FALSE, "Ws", "anonymous"),
     OptionsTest(FALSE, "ws", UserPass({}), FALSE, "Ws", "password"),
     OptionsTest(TRUE, "ws", Client, FALSE, "Wss", "certificate"),
     OptionsTest(TRUE, "ws", UserPass({}), FALSE, "Wss", "password"),
     OptionsTest(FALSE, "ws", Client, FALSE, "Wss", "certificate")}

\* device.proto imports a schema of another directory.
ProtobufBuildTests ==
    {<<Proto("device.proto", "Device", Lib), "Ok">>,
     <<Proto("device.proto", "Device", << >>), "Compile">>,
     <<Proto("gone.proto", "Device", << >>), "Compile">>,
     <<Proto("device.proto", "Nonexistent", Lib), "UnknownMessageType">>}

AuthTests ==
    {<<Client, "Ok">>, <<Mtls("gone.pem", "cert.pem", "key.pem"), "Io">>,
     <<UserPass({}), "Ok">>, <<UserPass({"PASSWORD"}), "Ok">>, <<UserPass({"UNSET"}), "EnvVar">>}

NormalizeTests ==
    {<<<< >>, << >>>>, <<<<"/", "mqtt">>, <<"/", "mqtt">>>>, <<<<"mqtt">>, <<"/", "mqtt">>>>}

ASSUME StartupAsTested ==
    /\ \A test \in OptionsTests :
          /\ "Ok" \in OptionsResults(test.connection)
          /\ OptionsOf(test.connection) = test.expected
    /\ \A test \in ProtobufBuildTests : BuildResult(test[1]) = test[2]
    /\ \A test \in AuthTests : AuthResult(test[1]) = test[2]
    /\ \A test \in NormalizeTests : Normalize(test[1]) = test[2]
============================================================================
