-------------------------- MODULE ConnectionProofs --------------------------
(***************************************************************************)
(* For every configuration, disk, environment and set of brokers: the      *)
(* options main connects with are consistent, and the session they lead to *)
(* is with a trusted broker, under credentials that were read and checked. *)
(***************************************************************************)
EXTENDS StartupProofs

----------------------------------------------------------------------------
(* The inductive invariant *)

\* What Config::load left in the connection: a protocol, and one path that is
\* empty or starts with "/".
NormalConnection ==
    LET c == config.connection
    IN  /\ c.protocol \in {"mqtt", "ws"}
        /\ \E p \in UrlPathType : c.path = {p} /\ (p # << >> => Head(p) = "/")

\* The options are those of the connection, after every check on the way.
Prepared ==
    LET c == config.connection
    IN  /\ NormalConnection
        /\ AuthResult(c.auth) = "Ok"
        /\ "Ok" \in OptionsResults(c)
        /\ options = Options(c)

\* Each check precedes what relies on it.
ConnectionInv ==
    /\ step \in {"loading", "registering", "authenticating", "connecting"} => driver = "none"
    /\ step \notin {"loading", "failed"} => NormalConnection
    /\ step = "connecting" => AuthResult(config.connection.auth) = "Ok"
    /\ driver # "none" => Prepared
    /\ peer # NoPeer => Accepts(options, peer)

SessionInv == StartupTypeOK /\ ConnectionInv

----------------------------------------------------------------------------
(* The operators *)

LEMMA BuildResults ==
    ASSUME NEW d \in DecoderConfigType
    PROVE  BuildResult(d) \in BuildErrors \cup {"Ok"}
<1>1. d.kind \in {"hexdump", "utf8", "protobuf", "template"}
    BY DEF DecoderConfigType, Hexdump, Utf8, ProtobufType, TemplateType
<1>2. ProtobufResult(d) \in BuildErrors \cup {"Ok"}
    BY DEF ProtobufResult, BuildErrors
<1> QED
    BY <1>1, <1>2 DEF BuildResult, TemplateResult, BuildErrors

LEMMA AuthResults ==
    ASSUME NEW a \in AuthType
    PROVE  /\ a.method \in {"none", "mtls", "userpass"}
           /\ AuthResult(a) \in AuthErrors \cup {"Ok"}
<1>1. a.method \in {"none", "mtls", "userpass"}
    BY DEF AuthType, NoAuth, MtlsType, UserPassType
<1> QED
    BY <1>1 DEF AuthResult, MtlsResult, UserPassResult, AuthErrors

\* Options and brokers are told from their absence.
LEMMA SomeOptions == \A c : Options(c) # NoOptions
<1> SUFFICES ASSUME NEW c PROVE Options(c) # NoOptions
    OBVIOUS
<1>1. "transport" \in DOMAIN Options(c)
    BY DEF Options
<1>2. "transport" \notin DOMAIN NoOptions
    BY DEF NoOptions
<1> QED
    BY <1>1, <1>2

LEMMA SomePeer == NoPeer \notin Brokers
<1>1. \A b \in Brokers : "tls" \in DOMAIN b
    BY ConnectionAssumption DEF BrokerType
<1>2. "tls" \notin DOMAIN NoPeer
    BY DEF NoPeer
<1> QED
    BY <1>1, <1>2

\* Normalising a path leaves it empty or absolute.
LEMMA NormalPath ==
    ASSUME NEW p \in UrlPathType
    PROVE  /\ Normalize(p) \in UrlPathType
           /\ Normalize(p) # << >> => Head(Normalize(p)) = "/"
<1>1. CASE p # << >> /\ Head(p) # "/"
    <2>1. <<"/">> \in UrlPathType
        BY DEF UrlPathType
    <2>2. <<"/">> \o p \in UrlPathType /\ (<<"/">> \o p)[1] = "/"
        BY <2>1, ConcatProperties DEF UrlPathType
    <2>3. Head(<<"/">> \o p) = "/"
        BY <2>2
    <2> QED
        BY <1>1, <2>2, <2>3 DEF Normalize
<1>2. CASE ~(p # << >> /\ Head(p) # "/")
    BY <1>2 DEF Normalize
<1> QED
    BY <1>1, <1>2

LEMMA LoadedNormal ==
    ASSUME NEW c \in ConnectionType
    PROVE  /\ Loaded(c).protocol \in {"mqtt", "ws"}
           /\ \E p \in UrlPathType : Loaded(c).path = {p} /\ (p # << >> => Head(p) = "/")
<1>1. PathOf(c) \in UrlPathType
    <2>1. CASE c.path = {}
        BY <2>1 DEF PathOf, Or, DefaultPath, UrlPathType
    <2>2. CASE c.path # {}
        BY <2>2 DEF PathOf, Or, ConnectionType
    <2> QED
        BY <2>1, <2>2
<1>2. Loaded(c).path = {Normalize(PathOf(c))} /\ Loaded(c).protocol \in {"mqtt", "ws"}
    BY DEF Loaded, ConnectionType
<1> QED
    BY <1>1, <1>2, NormalPath

----------------------------------------------------------------------------
(* The steps of main *)

LEMMA SessionInvInit == StartupInit => SessionInv
<1> SUFFICES ASSUME StartupInit PROVE SessionInv
    OBVIOUS
<1>1. /\ step = "loading" /\ error = "none" /\ cursor = 1 /\ options = NoOptions
      /\ driver = "none" /\ peer = NoPeer /\ requests = << >> /\ asked = {}
      /\ retained = 0 /\ waiting = 0 /\ config \in ConfigType
    BY StartupAssumption DEF StartupInit
<1>2. Len(config.topics) \in Nat
    BY <1>1 DEF ConfigType
<1>3. cursor \in 1..(Len(config.topics) + 1) /\ waiting \in 0..InCap /\ Len(requests) <= ReqCap
    BY <1>1, <1>2, StartupAssumption
<1>4. StartupTypeOK
    BY <1>1, <1>3 DEF StartupTypeOK, Steps
<1>5. ConnectionInv
    BY <1>1 DEF ConnectionInv
<1> QED
    BY <1>4, <1>5 DEF SessionInv

Errors == {"LateTopicFilter", "DuplicateFilter", "Subscribe"}
            \cup ConfigErrors \cup BuildErrors \cup AuthErrors \cup ClientInitErrors

LEMMA SessionFail ==
    ASSUME SessionInv, NEW e \in Errors, Fail(e)
    PROVE  SessionInv'
<1>1. /\ UNCHANGED <<config, cursor, options, driver, peer, requests, asked, retained, waiting>>
      /\ step' = "failed" /\ error' = e /\ e # "none"
    BY DEF Fail, network, Errors, ConfigErrors, BuildErrors, AuthErrors, ClientInitErrors
<1>2. StartupTypeOK'
    BY <1>1 DEF SessionInv, StartupTypeOK, Steps, Errors
<1>3. ConnectionInv'
    BY <1>1 DEF SessionInv, ConnectionInv, Prepared, NormalConnection
<1> QED
    BY <1>2, <1>3 DEF SessionInv

LEMMA SessionLoad ==
    ASSUME StartupInv, StartupInv', SessionInv, Load
    PROVE  SessionInv'
<1>1. CASE LoadUnreadable
    BY <1>1, SessionFail DEF LoadUnreadable, Errors, ConfigErrors
<1>2. ASSUME NEW i \in DOMAIN config.topics, InvalidTopic(i) PROVE SessionInv'
    <2>1. TopicError(config, i) \in Errors
        BY <1>2 DEF InvalidTopic, TopicError, Errors, ConfigErrors
    <2> QED
        BY <1>2, <2>1, SessionFail DEF InvalidTopic
<1>3. CASE InvalidEngine
    BY <1>3, SessionFail DEF InvalidEngine, Errors, ConfigErrors
<1>4. CASE LoadOk
    <2>1. /\ UNCHANGED <<error, cursor, options, driver, peer, requests, asked, retained, waiting>>
          /\ step = "loading" /\ step' = "registering"
          /\ config' = [config EXCEPT !.connection = Loaded(config.connection)]
        BY <1>4 DEF LoadOk, network
    <2>2. config \in ConfigType /\ config' \in ConfigType
        BY DEF StartupInv, ConfigInv
    <2>3. config'.topics = config.topics /\ config'.connection = Loaded(config.connection)
        BY <2>1, <2>2 DEF ConfigType
    <2>4. NormalConnection'
        BY <2>2, <2>3, LoadedNormal DEF NormalConnection, ConfigType
    <2>5. StartupTypeOK'
        BY <2>1, <2>2, <2>3 DEF SessionInv, StartupTypeOK, Steps
    <2>6. driver' = "none" /\ peer' = NoPeer
        BY <2>1 DEF SessionInv, ConnectionInv, StartupTypeOK
    <2>7. ConnectionInv'
        BY <2>1, <2>4, <2>6 DEF ConnectionInv
    <2> QED
        BY <2>5, <2>7 DEF SessionInv
<1> QED
    BY <1>1, <1>2, <1>3, <1>4 DEF Load

\* Up to the connection, main only moves on.
LEMMA SessionMoves ==
    ASSUME SessionInv, UNCHANGED <<config, error, options, network>>,
           cursor' \in 1..(Len(config.topics) + 1),
           step \in {"registering", "authenticating"},
           step' \in {"registering", "authenticating", "connecting"},
           step' = "connecting" => AuthResult(config.connection.auth) = "Ok"
    PROVE  SessionInv'
<1>1. UNCHANGED <<driver, peer, requests, asked, retained, waiting>>
    BY DEF network
<1>2. StartupTypeOK'
    BY <1>1 DEF SessionInv, StartupTypeOK, Steps
<1>3. ConnectionInv'
    BY <1>1 DEF SessionInv, ConnectionInv, Prepared, NormalConnection
<1> QED
    BY <1>2, <1>3 DEF SessionInv

LEMMA SessionFillRegistry ==
    ASSUME StartupInv, SessionInv, FillRegistry
    PROVE  SessionInv'
<1>1. /\ config \in ConfigType /\ Len(config.topics) \in Nat
      /\ cursor \in 1..(Len(config.topics) + 1)
    BY DEF StartupInv, ConfigInv, ConfigType, SessionInv, StartupTypeOK
<1>2. CASE SkipBlock \/ RegisterBlock
    <2>1. /\ UNCHANGED <<config, step, error, options, network>> /\ step = "registering"
          /\ cursor' = cursor + 1 /\ cursor <= Len(config.topics)
        BY <1>2 DEF SkipBlock, RegisterBlock, AtBlock
    <2> QED
        BY <1>1, <2>1, SessionMoves
<1>3. CASE DecoderFails
    <2>1. BlockDecoder \in DecoderConfigType /\ Resolvable(config, Block.decoder)
        BY <1>3, BlockValid, StartupAssumption DEF DecoderFails, BlockDecoder
    <2>2. BuildResult(BlockDecoder) \in BuildErrors
        BY <1>3, <2>1, BuildResults DEF DecoderFails, DecoderBuilds
    <2> QED
        BY <1>3, <2>1, <2>2, SessionFail DEF DecoderFails, Errors
<1>4. CASE RejectBlock
    BY <1>4, SessionFail DEF RejectBlock, Errors
<1>5. CASE BuildRegistry
    <2>1. UNCHANGED <<config, error, options, network>> /\ cursor' = 1
          /\ step = "registering" /\ step' = "authenticating"
        BY <1>5 DEF BuildRegistry
    <2> QED
        BY <1>1, <2>1, SessionMoves
<1> QED
    BY <1>2, <1>3, <1>4, <1>5 DEF FillRegistry

LEMMA SessionConnect ==
    ASSUME StartupInv, SessionInv, Connect
    PROVE  SessionInv'
<1>1. CASE AuthFails
    <2>1. config.connection.auth \in AuthType
        BY DEF StartupInv, ConfigInv, ConfigType, ConnectionType
    <2>2. AuthResult(config.connection.auth) \in AuthErrors
        BY <1>1, <2>1, AuthResults DEF AuthFails
    <2> QED
        BY <1>1, <2>2, SessionFail DEF AuthFails, Errors
<1>2. ASSUME NEW result \in ClientInitErrors, ConnectFails(result) PROVE SessionInv'
    BY <1>2, SessionFail DEF ConnectFails, Errors
<1>3. CASE AuthOk
    <2>1. cursor \in 1..(Len(config.topics) + 1)
        BY DEF SessionInv, StartupTypeOK
    <2> QED
        BY <1>3, <2>1, SessionMoves DEF AuthOk
<1>4. CASE ConnectOk
    <2>1. /\ UNCHANGED <<config, error, cursor, peer, requests, asked, retained, waiting>>
          /\ step = "connecting" /\ step' = "subscribing"
          /\ driver' = "connecting" /\ options' = Options(config.connection)
          /\ "Ok" \in OptionsResults(config.connection)
        BY <1>4 DEF ConnectOk
    <2>2. driver = "none" /\ peer = NoPeer
        BY <2>1 DEF SessionInv, ConnectionInv, StartupTypeOK
    <2>3. Prepared' /\ NormalConnection'
        BY <2>1 DEF SessionInv, ConnectionInv, Prepared, NormalConnection
    <2>4. options' # NoOptions
        BY <2>1, SomeOptions
    <2>5. StartupTypeOK'
        BY <2>1, <2>2, <2>4 DEF SessionInv, StartupTypeOK, Steps
    <2>6. ConnectionInv'
        BY <2>1, <2>2, <2>3 DEF ConnectionInv
    <2> QED
        BY <2>5, <2>6 DEF SessionInv
<1> QED
    BY <1>1, <1>2, <1>3, <1>4 DEF Connect

LEMMA SessionSubscribe ==
    ASSUME StartupInv, StartupInv', SessionInv, SubscribeAll
    PROVE  SessionInv'
<1>1. /\ config \in ConfigType /\ Len(config.topics) \in Nat
      /\ cursor \in 1..(Len(config.topics) + 1)
    BY DEF StartupInv, ConfigInv, ConfigType, SessionInv, StartupTypeOK
<1>2. CASE Subscribe
    <2>1. /\ UNCHANGED <<config, step, error, options, driver, peer, asked, retained, waiting>>
          /\ step = "subscribing"
          /\ requests' = Append(requests, Block.filter) /\ Len(requests) < ReqCap
          /\ cursor' = cursor + 1 /\ cursor <= Len(config.topics)
        BY <1>2 DEF Subscribe, HasRoom
    <2>2. requests \in Seq(Texts) /\ requests' \in Seq(Texts)
        BY DEF StartupInv, SubscribeInv
    <2>3. Len(requests') = Len(requests) + 1
        BY <2>1, <2>2
    <2>4. Len(requests') <= ReqCap
        BY <2>1, <2>2, <2>3, StartupAssumption
    <2>5. cursor' \in 1..(Len(config.topics) + 1)
        BY <1>1, <2>1
    <2>6. StartupTypeOK'
        BY <2>1, <2>2, <2>4, <2>5 DEF SessionInv, StartupTypeOK
    <2>7. ConnectionInv'
        BY <2>1 DEF SessionInv, ConnectionInv, Prepared, NormalConnection
    <2> QED
        BY <2>6, <2>7 DEF SessionInv
<1>3. CASE SubscribeFails
    BY <1>3, SessionFail DEF SubscribeFails, Errors
<1>4. CASE SpawnEngine
    <2>1. /\ UNCHANGED <<config, error, cursor, options, driver, peer, requests, asked,
                         retained, waiting>>
          /\ step = "subscribing" /\ step' = "running"
        BY <1>4 DEF SpawnEngine, network
    <2>2. StartupTypeOK'
        BY <2>1 DEF SessionInv, StartupTypeOK, Steps
    <2>3. ConnectionInv'
        BY <2>1 DEF SessionInv, ConnectionInv, Prepared, NormalConnection
    <2> QED
        BY <2>2, <2>3 DEF SessionInv
<1> QED
    BY <1>2, <1>3, <1>4 DEF SubscribeAll

----------------------------------------------------------------------------
(* The steps of the driver *)

\* The driver changes the network only; what the options promised stays.
LEMMA SessionNetwork ==
    ASSUME SessionInv, UNCHANGED <<config, step, error, cursor, options>>,
           step = "subscribing", driver # "none",
           driver' \in {"polling", "forwarding", "stopped"},
           peer' \in Brokers \cup {NoPeer},
           peer' # NoPeer <=> driver' \in {"polling", "forwarding"},
           peer' # NoPeer => Accepts(options, peer'),
           requests' \in Seq(Texts), Len(requests') <= ReqCap,
           asked' \subseteq Texts, retained' \in Nat, waiting' \in 0..InCap
    PROVE  SessionInv'
<1>1. StartupTypeOK'
    BY DEF SessionInv, StartupTypeOK
<1>2. Prepared'
    BY DEF SessionInv, ConnectionInv, Prepared, NormalConnection
<1>3. ConnectionInv'
    BY <1>2 DEF ConnectionInv, Prepared
<1> QED
    BY <1>1, <1>3 DEF SessionInv

LEMMA SessionPoll ==
    ASSUME StartupInv, StartupInv', SessionInv, Poll \/ PollFails
    PROVE  SessionInv'
<1>1. /\ UNCHANGED <<config, step, error, cursor, options>>
      /\ step = "subscribing" /\ driver # "none"
    BY DEF Poll, PollFails, Handshake, HandshakeFails, DriverStops, PollSubscribe,
           PollRetained, ForwardRetained
<1>2. /\ peer \in Brokers \cup {NoPeer}
      /\ peer # NoPeer <=> driver \in {"polling", "forwarding"}
      /\ requests \in Seq(Texts) /\ Len(requests) <= ReqCap
      /\ asked \subseteq Texts /\ retained \in Nat /\ waiting \in 0..InCap
      /\ peer # NoPeer => Accepts(options, peer)
    BY DEF SessionInv, StartupTypeOK, ConnectionInv
<1>3. CASE HandshakeFails \/ PollFails
    <2>1. /\ driver' = "stopped" /\ peer' = NoPeer /\ requests' = << >>
          /\ UNCHANGED <<asked, retained, waiting>>
        BY <1>3 DEF HandshakeFails, PollFails, DriverStops
    <2>2. requests' \in Seq(Texts) /\ Len(requests') <= ReqCap
        BY <2>1, StartupAssumption
    <2> QED
        BY <1>1, <1>2, <2>1, <2>2, SessionNetwork
<1>4. ASSUME NEW b \in Brokers, Handshake(b) PROVE SessionInv'
    <2>1. /\ driver' = "polling" /\ peer' = b /\ Accepts(options, b)
          /\ UNCHANGED <<requests, asked, retained, waiting>>
        BY <1>4 DEF Handshake
    <2> QED
        BY <1>1, <1>2, <2>1, SomePeer, SessionNetwork
<1>5. ASSUME NEW n \in 0..MaxRetained, PollSubscribe(n) PROVE SessionInv'
    <2>1. /\ driver = "polling" /\ requests # << >> /\ requests' = Tail(requests)
          /\ asked' = asked \cup {Head(requests)} /\ retained' = retained + n
          /\ UNCHANGED <<driver, peer, waiting>>
        BY <1>5 DEF PollSubscribe
    <2>2. /\ requests' \in Seq(Texts) /\ Head(requests) \in Texts
          /\ Len(requests') = Len(requests) - 1 /\ Len(requests) \in Nat
        BY <1>2, <2>1
    <2>3. Len(requests') <= ReqCap /\ retained' \in Nat
        BY <1>2, <2>1, <2>2, StartupAssumption
    <2> QED
        BY <1>1, <1>2, <2>1, <2>2, <2>3, SessionNetwork
<1>6. CASE PollRetained
    <2>1. /\ driver = "polling" /\ driver' = "forwarding" /\ retained' \in Nat
          /\ UNCHANGED <<peer, requests, asked, waiting>>
        BY <1>2, <1>6 DEF PollRetained
    <2> QED
        BY <1>1, <1>2, <2>1, SessionNetwork
<1>7. CASE ForwardRetained
    <2>1. /\ driver = "forwarding" /\ driver' = "polling" /\ waiting' \in 0..InCap
          /\ UNCHANGED <<peer, requests, asked, retained>>
        BY <1>2, <1>7, StartupAssumption DEF ForwardRetained
    <2> QED
        BY <1>1, <1>2, <2>1, SessionNetwork
<1> QED
    BY <1>3, <1>4, <1>5, <1>6, <1>7 DEF Poll

----------------------------------------------------------------------------
(* The theorems *)

\* Whatever the files hold and the broker does, each check precedes what
\* relies on it.
THEOREM SessionInductive == StartupSpec => []SessionInv
<1>1. StartupInv /\ StartupInv' /\ SessionInv /\ [StartupNext]_startupVars => SessionInv'
    <2> SUFFICES ASSUME StartupInv, StartupInv', SessionInv, [StartupNext]_startupVars
                 PROVE  SessionInv'
        OBVIOUS
    <2>1. CASE UNCHANGED startupVars
        BY <2>1 DEF startupVars, network, SessionInv, StartupTypeOK, ConnectionInv,
                    Prepared, NormalConnection
    <2> QED
        BY <2>1, SessionLoad, SessionFillRegistry, SessionConnect, SessionSubscribe,
           SessionPoll DEF StartupNext
<1> QED
    BY <1>1, SessionInvInit, StartupInductive, PTL DEF StartupSpec

\* The state of main and of its driver task has its type, an error and a
\* failed start come together, and no channel exceeds its capacity
\* (src/main.rs, src/client.rs:79-135).
THEOREM StartupTypes == StartupSpec => []StartupTypeOK
<1>1. SessionInv => StartupTypeOK
    BY DEF SessionInv
<1> QED
    BY <1>1, SessionInductive, PTL

\* Scheme, transport and path of the options fit together, whatever mixture of
\* tls, protocol, path and auth the file has (src/client.rs:161,
\* src/protocol.rs:29).
THEOREM StartupConsistentConnection == StartupSpec => []ConsistentConnection
<1>1. SessionInv => ConsistentConnection
    <2> SUFFICES ASSUME SessionInv, driver # "none" PROVE ConsistentConnection
        BY DEF ConsistentConnection
    <2> DEFINE c == config.connection
    <2>1. Prepared
        BY DEF SessionInv, ConnectionInv
    <2>2. PICK p \in UrlPathType : c.path = {p} /\ (p # << >> => Head(p) = "/")
        BY <2>1 DEF Prepared, NormalConnection
    <2>3. PathOf(c) = p
        BY <2>2 DEF PathOf, Or
    <2>4. options.target = Target(c) /\ options.transport = Transport(c)
        BY <2>1 DEF Prepared, Options
    <2>5. options.target.path # << >> => Head(options.target.path) = "/"
        BY <2>2, <2>3, <2>4 DEF Target
    <2>6. /\ options.target.scheme = "wss" <=> options.transport = "Wss"
          /\ options.target.scheme = "ws" <=> options.transport = "Ws"
          /\ c.tls => options.transport \in {"Tls", "Wss"}
        BY <2>4 DEF Target, Transport, Scheme, UsesTls
    <2> QED
        BY <2>5, <2>6 DEF ConsistentConnection
<1> QED
    BY <1>1, SessionInductive, PTL

\* Subscriptions only ever go to a broker somebody vouches for, unless the
\* configuration waives that, with tls or with mTLS alone; and with mTLS the
\* client holds the key of the certificate it shows (src/client.rs:164,
\* src/client.rs:273, src/auth.rs:107).
THEOREM StartupSoundSession == StartupSpec => []SoundSession
<1>1. SessionInv => SoundSession
    <2> SUFFICES ASSUME SessionInv, peer # NoPeer PROVE SoundSession
        BY DEF SoundSession
    <2> DEFINE c == config.connection
    <2>1. Prepared /\ Accepts(options, peer)
        BY DEF SessionInv, ConnectionInv, StartupTypeOK
    <2>2. /\ options.transport = Transport(c) /\ options.trust = Trust(c)
          /\ options.roots = Roots(c)
        BY <2>1 DEF Prepared, Options
    <2>3. options.transport \in {"Tls", "Wss"} <=> UsesTls(c)
        BY <2>2 DEF Transport
    <2>4. UsesTls(c) => peer.tls
        BY <2>1, <2>3 DEF Accepts
    <2>5. ASSUME peer.tls, ~c.selfSigned PROVE Vouched(c, peer)
        <3>1. UsesTls(c)
            BY <2>1, <2>3, <2>5 DEF Accepts
        <3>2. peer.issuer \in Roots(c)
            BY <2>1, <2>2, <2>3, <2>5, <3>1 DEF Accepts, Trust
        <3>3. CASE IsMtls(c)
            BY <2>5, <3>1, <3>2, <3>3 DEF Roots, Trust, Vouched
        <3>4. CASE ~IsMtls(c)
            BY <2>5, <3>1, <3>2, <3>4 DEF Roots, Trust, Vouched
        <3> QED
            BY <3>3, <3>4
    <2>6. AuthResult(c.auth) = "Ok"
        BY <2>1 DEF Prepared
    <2>7. ASSUME IsMtls(c) PROVE Pem(c.auth.cert).certs[1].key = Pem(c.auth.key).keys[1]
        <3>1. "Ok" \in OptionsResults(c)
            BY <2>1 DEF Prepared
        <3>2. "Ok" = IdentityResult(c)
            BY <3>1 DEF OptionsResults
        <3> QED
            BY <2>7, <3>2 DEF IdentityResult
    <2>8. c.tls \/ IsMtls(c) => peer.tls
        BY <2>4 DEF UsesTls
    <2>9. ASSUME peer.tls PROVE Vouched(c, peer) \/ Waived(c) \/ WaivedByMtls(c)
        <3>1. UsesTls(c)
            BY <2>1, <2>3, <2>9 DEF Accepts
        <3> QED
            BY <2>5, <2>9, <3>1 DEF UsesTls, Waived, WaivedByMtls
    <2> QED
        BY <2>6, <2>7, <2>8, <2>9 DEF SoundSession
<1> QED
    BY <1>1, SessionInductive, PTL
============================================================================
