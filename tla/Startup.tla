------------------------------ MODULE Startup ------------------------------
(***************************************************************************)
(* main up to the spawn of the engine: load and validate the configuration *)
(* (src/config.rs), build decoders and registry, resolve auth, connect,    *)
(* subscribe.  From Client::connect on the driver task runs beside main;   *)
(* it receives the retained messages of the first subscriptions while main *)
(* still makes the others.                                                 *)
(***************************************************************************)
EXTENDS Registry, ConnectionOptions

CONSTANTS
    Names,            \* names of [decoder.NAME] tables
    DecoderConfigs,   \* decoder -> its configuration
    Configs,          \* the configuration files
    ReqCap,           \* capacity of the client's request channel
    InCap,            \* capacity of the incoming channel
    MaxRetained       \* bound on the retained messages of one filter

Absent == [kind |-> "absent"]
Ref(n) == [kind |-> "ref", name |-> n]
Literal(d) == [kind |-> "literal", decoder |-> d]

RefType == {Absent} \cup {Ref(n) : n \in Names} \cup {Literal(d) : d \in Decoders}

ConfigType == [
    topics : Seq([filter : Texts, decoder : RefType]),
    decoders : UNION {[S -> Decoders] : S \in SUBSET Names},
    maxConcurrent : Nat,
    connection : ConnectionType]

ASSUME StartupAssumption ==
    /\ DecoderConfigs \in [Decoders -> DecoderConfigType]
    /\ Configs \subseteq ConfigType
    /\ \A c \in Configs : Len(c.topics) <= MaxEntries
    /\ ReqCap \in Nat \ {0}
    /\ InCap \in Nat \ {0}
    /\ MaxRetained \in Nat

VARIABLES
    config,     \* the configuration file, then the loaded configuration
    step,       \* where main is
    error,      \* the error main returned
    cursor,     \* the [[topic]] block the current loop is at
    options,    \* the MqttOptions, once connect made them
    driver,     \* where the driver task is
    peer,       \* the broker of the session, once there is one
    requests,   \* filters of the queued subscribe requests
    asked,      \* filters the broker was asked for
    retained,   \* retained messages the broker has yet to send
    waiting     \* messages in the incoming channel

network == <<driver, peer, requests, asked, retained, waiting>>
startupVars == <<vars, config, step, error, cursor, options, network>>

NoOptions == [target |-> "none"]
NoPeer == [none |-> TRUE]

StartupInit ==
    /\ Init
    /\ config \in Configs
    /\ step = "loading"
    /\ error = "none"
    /\ cursor = 1
    /\ options = NoOptions
    /\ driver = "none"
    /\ peer = NoPeer
    /\ requests = << >>
    /\ asked = {}
    /\ retained = 0
    /\ waiting = 0

\* main returns an error; the process ends.
Fail(e) ==
    /\ step' = "failed"
    /\ error' = e
    /\ UNCHANGED <<config, cursor, options, network>>

----------------------------------------------------------------------------
(* Config::load *)

\* Reading and parsing the file are one step, with one error.
ConfigErrors == {"Io", "InvalidTopicFilter", "UnknownDecoderRef", "InvalidEngineConfig"}

\* RefOr::resolve finds something.
Resolvable(c, ref) == ref.kind = "ref" => ref.name \in DOMAIN c.decoders

\* References not validated (a mutant of TopicError).
TopicErrorOfFilter(c, i) ==
    IF Parse(c.topics[i].filter) # "Ok" THEN "InvalidTopicFilter" ELSE "none"

\* What validate finds wrong with a [[topic]] block.
TopicError(c, i) ==
    IF Parse(c.topics[i].filter) # "Ok" THEN "InvalidTopicFilter"
    ELSE IF ~Resolvable(c, c.topics[i].decoder) THEN "UnknownDecoderRef"
    ELSE "none"

\* The file cannot be read, or is not TOML of the right shape.
LoadUnreadable ==
    /\ step = "loading"
    /\ Fail("Io")
    /\ UNCHANGED vars

\* validate returns the first error it finds.
InvalidTopic(i) ==
    /\ step = "loading"
    /\ TopicError(config, i) # "none"
    /\ \A j \in 1..(i - 1) : TopicError(config, j) = "none"
    /\ Fail(TopicError(config, i))
    /\ UNCHANGED vars

ValidTopics == \A i \in DOMAIN config.topics : TopicError(config, i) = "none"

InvalidEngine ==
    /\ step = "loading"
    /\ ValidTopics
    /\ config.maxConcurrent = 0
    /\ Fail("InvalidEngineConfig")
    /\ UNCHANGED vars

LoadOk ==
    /\ step = "loading"
    /\ ValidTopics
    /\ config.maxConcurrent # 0
    /\ config' = [config EXCEPT !.connection = Loaded(@)]
    /\ step' = "registering"
    /\ UNCHANGED <<vars, error, cursor, options, network>>

----------------------------------------------------------------------------
(* Building the registry *)

Block == config.topics[cursor]
AtBlock == step = "registering" /\ cursor <= Len(config.topics)

\* RefOr::resolve, of a reference that is there and resolvable.
DecoderOf(c, ref) == IF ref.kind = "ref" THEN c.decoders[ref.name] ELSE ref.decoder

BlockDecoder == DecoderConfigs[DecoderOf(config, Block.decoder)]

\* DecoderConfig::build succeeds.
DecoderBuilds == BuildResult(BlockDecoder) = "Ok"

\* A subscribe-only topic.
SkipBlock ==
    /\ AtBlock
    /\ Block.decoder = Absent
    /\ cursor' = cursor + 1
    /\ UNCHANGED <<vars, config, step, error, options, network>>

\* expect("decoder reference validated at config load").
PanicOnRef ==
    /\ step' = "panicked"
    /\ UNCHANGED <<config, error, cursor, options, network>>

\* There is no such decoder, or it cannot be constructed.
DecoderFails ==
    /\ AtBlock
    /\ Block.decoder # Absent
    /\ Resolvable(config, Block.decoder)
        => ~DecoderBuilds
    /\ IF Resolvable(config, Block.decoder) THEN Fail(BuildResult(BlockDecoder)) ELSE PanicOnRef
    /\ UNCHANGED vars

RegisterBlock ==
    /\ AtBlock
    /\ Block.decoder # Absent
    /\ Resolvable(config, Block.decoder)
    /\ DecoderBuilds
    /\ Register(Block.filter, DecoderOf(config, Block.decoder))
    /\ cursor' = cursor + 1
    /\ UNCHANGED <<config, step, error, options, network>>

\* The filter does not parse, or is a duplicate.
RejectBlock ==
    /\ AtBlock
    /\ Block.decoder # Absent
    /\ Resolvable(config, Block.decoder)
    /\ DecoderBuilds
    /\ Reject(Block.filter)
    /\ Fail(IF Parse(Block.filter) = "Ok" THEN "DuplicateFilter" ELSE "LateTopicFilter")

BuildRegistry ==
    /\ step = "registering"
    /\ cursor > Len(config.topics)
    /\ Build
    /\ cursor' = 1
    /\ step' = "authenticating"
    /\ UNCHANGED <<config, error, options, network>>

----------------------------------------------------------------------------
(* Auth, connect, subscribe *)

AuthFails ==
    /\ step = "authenticating"
    /\ AuthResult(config.connection.auth) # "Ok"
    /\ Fail(AuthResult(config.connection.auth))
    /\ UNCHANGED vars

AuthOk ==
    /\ step = "authenticating"
    /\ AuthResult(config.connection.auth) = "Ok"
    /\ step' = "connecting"
    /\ UNCHANGED <<vars, config, error, cursor, options, network>>

ConnectFails(result) ==
    /\ step = "connecting"
    /\ result \in OptionsResults(config.connection)
    /\ Fail(result)
    /\ UNCHANGED vars

\* Nothing is sent yet: the driver is spawned.
ConnectOk ==
    /\ step = "connecting"
    /\ "Ok" \in OptionsResults(config.connection)
    /\ options' = Options(config.connection)
    /\ driver' = "connecting"
    /\ step' = "subscribing"
    /\ UNCHANGED <<vars, config, error, cursor, peer, requests, asked, retained, waiting>>

\* An unbounded request channel (a mutant of HasRoom).
HasRoomAlways == TRUE

HasRoom == Len(requests) < ReqCap

\* Only the topics that are decoded (a mutant of Subscribe).
SubscribeDecoded ==
    /\ step = "subscribing"
    /\ cursor <= Len(config.topics)
    /\ driver # "stopped"
    /\ HasRoom
    /\ requests' = IF Block.decoder = Absent THEN requests ELSE Append(requests, Block.filter)
    /\ cursor' = cursor + 1
    /\ UNCHANGED <<vars, config, step, error, options, driver, peer, asked, retained, waiting>>

\* client.subscribe waits for room in the request channel.
Subscribe ==
    /\ step = "subscribing"
    /\ cursor <= Len(config.topics)
    /\ driver # "stopped"
    /\ HasRoom
    /\ requests' = Append(requests, Block.filter)
    /\ cursor' = cursor + 1
    /\ UNCHANGED <<vars, config, step, error, options, driver, peer, asked, retained, waiting>>

\* subscribe does not notice that the event loop is gone (a mutant of
\* SubscribeFails).
SubscribeFailsNever == FALSE /\ UNCHANGED startupVars

SubscribeFails ==
    /\ step = "subscribing"
    /\ cursor <= Len(config.topics)
    /\ driver = "stopped"
    /\ Fail("Subscribe")
    /\ UNCHANGED vars

\* The engine is spawned; the module RosettaMq goes on from here.
SpawnEngine ==
    /\ step = "subscribing"
    /\ cursor > Len(config.topics)
    /\ step' = "running"
    /\ UNCHANGED <<vars, config, error, cursor, options, network>>

----------------------------------------------------------------------------
(* The driver task, while main subscribes *)

\* The driver returns the error of poll; requests go with the event loop.
DriverStops ==
    /\ driver' = "stopped"
    /\ peer' = NoPeer
    /\ requests' = << >>
    /\ UNCHANGED <<vars, config, step, error, cursor, options, asked, retained, waiting>>

\* The first poll connects to what answers at host:port.
Handshake(b) ==
    /\ step = "subscribing"
    /\ driver = "connecting"
    /\ Accepts(options, b)
    /\ driver' = "polling"
    /\ peer' = b
    /\ UNCHANGED <<vars, config, step, error, cursor, options, requests, asked, retained, waiting>>

\* The two do not agree on TLS, the certificate is not accepted, or the broker
\* refuses the client.
HandshakeFails ==
    /\ step = "subscribing"
    /\ driver = "connecting"
    /\ DriverStops

\* The event loop sends a subscribe request; the broker answers with the
\* retained messages of the filter.
PollSubscribe(n) ==
    /\ step = "subscribing"
    /\ driver = "polling"
    /\ requests # << >>
    /\ requests' = Tail(requests)
    /\ asked' = asked \cup {Head(requests)}
    /\ retained' = retained + n
    /\ UNCHANGED <<vars, config, step, error, cursor, options, driver, peer, waiting>>

PollRetained ==
    /\ step = "subscribing"
    /\ driver = "polling"
    /\ retained > 0
    /\ retained' = retained - 1
    /\ driver' = "forwarding"
    /\ UNCHANGED <<vars, config, step, error, cursor, options, peer, requests, asked, waiting>>

\* tx.send waits for room, and there is no engine to make any.
ForwardRetained ==
    /\ step = "subscribing"
    /\ driver = "forwarding"
    /\ waiting < InCap
    /\ waiting' = waiting + 1
    /\ driver' = "polling"
    /\ UNCHANGED <<vars, config, step, error, cursor, options, peer, requests, asked, retained>>

PollFails ==
    /\ step = "subscribing"
    /\ driver = "polling"
    /\ DriverStops

----------------------------------------------------------------------------
Load ==
    \/ LoadUnreadable
    \/ \E i \in DOMAIN config.topics : InvalidTopic(i)
    \/ InvalidEngine
    \/ LoadOk

FillRegistry ==
    \/ SkipBlock
    \/ DecoderFails
    \/ RegisterBlock
    \/ RejectBlock
    \/ BuildRegistry

Connect ==
    \/ AuthFails
    \/ AuthOk
    \/ \E result \in ClientInitErrors : ConnectFails(result)
    \/ ConnectOk

SubscribeAll == Subscribe \/ SubscribeFails \/ SpawnEngine

Poll ==
    \/ \E b \in Brokers : Handshake(b)
    \/ HandshakeFails
    \/ \E n \in 0..MaxRetained : PollSubscribe(n)
    \/ PollRetained
    \/ ForwardRetained

StartupNext == Load \/ FillRegistry \/ Connect \/ SubscribeAll \/ Poll \/ PollFails

StartupSpec == StartupInit /\ [][StartupNext]_startupVars

\* main runs on, and so does the driver; the connection need not fail.
StartupFairness ==
    /\ WF_startupVars(Load)
    /\ WF_startupVars(FillRegistry)
    /\ WF_startupVars(Connect)
    /\ WF_startupVars(SubscribeAll)
    /\ WF_startupVars(Poll)

FairStartup == StartupSpec /\ StartupFairness

----------------------------------------------------------------------------
(* Properties *)

Steps == {"loading", "registering", "authenticating", "connecting",
          "subscribing", "running", "failed", "panicked"}

\* The state has its type, channels keep to their capacities, and there is a
\* driver only once there are options.
StartupTypeOK ==
    /\ config \in ConfigType
    /\ step \in Steps
    /\ cursor \in 1..(Len(config.topics) + 1)
    /\ error \in {"none", "LateTopicFilter", "DuplicateFilter", "Subscribe"}
                    \cup ConfigErrors \cup BuildErrors \cup AuthErrors \cup ClientInitErrors
    /\ error # "none" <=> step = "failed"
    /\ options = NoOptions <=> driver = "none"
    /\ driver \in {"none", "connecting", "polling", "forwarding", "stopped"}
    /\ peer \in Brokers \cup {NoPeer}
    /\ peer # NoPeer <=> driver \in {"polling", "forwarding"}
    /\ requests \in Seq(Texts) /\ Len(requests) <= ReqCap
    /\ asked \subseteq Texts
    /\ retained \in Nat
    /\ waiting \in 0..InCap

\* config.rs:89: filters and references are validated at load time.  The
\* lookups main makes later, each with an error path or a panic of its own,
\* never find what validate let through.
EagerlyValidated ==
    /\ step # "panicked"
    /\ error # "LateTopicFilter"

\* The filters whose subscription was requested, as long as the event loop
\* lives to send them.
Requested == asked \cup {requests[i] : i \in DOMAIN requests}

\* main.rs:38-82: when the engine is spawned, it gets a decoder for exactly
\* the blocks that have one, no filter twice, with room for a task; and every
\* block, decoded or not, is subscribed to.
EngineReady ==
    step = "running" =>
        /\ built
        /\ config.maxConcurrent > 0
        /\ \A i \in DOMAIN config.topics : config.topics[i].decoder # Absent =>
              \E j \in DOMAIN entries :
                 entries[j] = [filter |-> config.topics[i].filter,
                               decoder |-> DecoderOf(config, config.topics[i].decoder)]
        /\ \A j \in DOMAIN entries : \E i \in DOMAIN config.topics :
              /\ config.topics[i].decoder # Absent
              /\ config.topics[i].filter = entries[j].filter
        /\ \A j \in DOMAIN entries : BuildResult(DecoderConfigs[entries[j].decoder]) = "Ok"
        /\ \A i, j \in DOMAIN entries : entries[i].filter = entries[j].filter => i = j
        /\ driver # "stopped" =>
              \A i \in DOMAIN config.topics : config.topics[i].filter \in Requested

\* protobuf.rs:63: include paths are searched behind the schema's own directory,
\* "not a replacement for it": one more of them, whatever stands in it, never
\* breaks a decoder that could be built.
IncludesOnlyAdd ==
    step = "authenticating" =>
        \A j \in DOMAIN entries, file \in Schemas :
            LET d == DecoderConfigs[entries[j].decoder]
            IN  d.kind = "protobuf" =>
                    BuildResult([d EXCEPT !.includePaths = Append(@, Parent(file))]) = "Ok"

\* client.rs:161, protocol.rs:29: the URL's scheme and the transport say the
\* same about TLS, whatever combination of tls, protocol and auth the file
\* has; and the path cannot run into the port.
ConsistentConnection ==
    driver # "none" =>
        /\ options.target.scheme = "wss" <=> options.transport = "Wss"
        /\ options.target.scheme = "ws" <=> options.transport = "Ws"
        /\ config.connection.tls => options.transport \in {"Tls", "Wss"}
        /\ options.target.path # << >> => Head(options.target.path) = "/"

\* The CA file, with mTLS, or the platform vouches for the broker's certificate.
Vouched(c, b) ==
    IF IsMtls(c) THEN \E i \in DOMAIN Pem(c.auth.ca).certs :
                          b.issuer = Pem(c.auth.ca).certs[i].subject
    ELSE b.issuer \in NativeRoots

\* The file waives the check, as client.rs:36 and README.md:89 describe it.
Waived(c) == c.tls /\ c.selfSigned

\* It asks for no TLS beside the mTLS that brings it: the flag then waives the
\* check all the same, against what is described (see SelfSignedNeedsTls).
WaivedByMtls(c) == ~c.tls /\ IsMtls(c) /\ c.selfSigned

\* client.rs:164, auth.rs:107: subscriptions are only sent in clear if neither
\* tls nor mTLS was asked for, and never to a broker whose certificate nobody
\* vouches for, unless the file waives the check; the credentials the file asks
\* for were read and checked beforehand; with mTLS the client holds the key of
\* the certificate it shows.
SoundSession ==
    peer # NoPeer =>
        LET c == config.connection
        IN  /\ c.tls \/ IsMtls(c) => peer.tls
            /\ peer.tls => Vouched(c, peer) \/ Waived(c) \/ WaivedByMtls(c)
            /\ AuthResult(c.auth) = "Ok"
            /\ IsMtls(c) => Pem(c.auth.cert).certs[1].key = Pem(c.auth.key).keys[1]

\* client.rs:38, README.md:89: with tls = false allow_self_signed_certs has no
\* effect: a broker reached over TLS, which mTLS turns on, is vouched for.
SelfSignedNeedsTls ==
    peer # NoPeer /\ peer.tls /\ ~config.connection.tls
        => Vouched(config.connection, peer)

\* client.rs:124: main gets through its subscriptions and starts the engine, or
\* returns an error.
StartupEnds == <>(step \in {"running", "failed", "panicked"})
============================================================================
