--------------------------- MODULE StartupProofs ---------------------------
(***************************************************************************)
(* For every configuration, every set of decoders and every capacity: main *)
(* never panics on a reference and never meets a filter that validate let  *)
(* through, and the engine it spawns gets the registry and the             *)
(* subscriptions the configuration asks for.                               *)
(***************************************************************************)
EXTENDS Startup, SequenceTheorems, WellFoundedInduction, TLAPS

----------------------------------------------------------------------------
(* The inductive invariant *)

BlockType == [filter : Texts, decoder : RefType]

\* Main's loops are within the configuration; validate's verdict stays true.
ConfigInv ==
    /\ config \in ConfigType
    /\ cursor \in Nat \ {0}
    /\ step = "loading" => entries = << >> /\ cursor = 1 /\ ~built /\ error = "none"
    /\ step \notin {"loading", "failed"} =>
          ValidTopics /\ config.maxConcurrent # 0

\* The registering loop has dealt with block i.
Passed(i) == step = "registering" => i < cursor

\* Block i has its entry.
Entered(i) ==
    \E j \in DOMAIN entries :
        entries[j] = [filter |-> config.topics[i].filter,
                      decoder |-> DecoderOf(config, config.topics[i].decoder)]

\* Entry j comes from a block.
Justified(j) ==
    \E i \in DOMAIN config.topics :
        /\ config.topics[i].decoder # Absent
        /\ config.topics[i].filter = entries[j].filter

\* Entry j's decoder was made.
Built(j) == BuildResult(DecoderConfigs[entries[j].decoder]) = "Ok"

RegistryInv ==
    /\ entries \in Seq([filter : Texts, decoder : Decoders])
    /\ step \in {"authenticating", "connecting", "subscribing", "running"} => built
    /\ step \notin {"loading", "failed"} =>
          \A i \in DOMAIN config.topics :
              Passed(i) /\ config.topics[i].decoder # Absent => Entered(i)
    /\ \A j \in DOMAIN entries : Justified(j) /\ Built(j)
    /\ \A i, j \in DOMAIN entries : entries[i].filter = entries[j].filter => i = j

\* The subscribing loop has dealt with block i.
Subscribed(i) == step = "running" \/ (step = "subscribing" /\ i < cursor)

\* Every subscription made is queued or sent, unless the connection failed.
SubscribeInv ==
    /\ requests \in Seq(Texts)
    /\ step \in {"authenticating", "connecting"} => cursor = 1
    /\ driver # "stopped" =>
          \A i \in DOMAIN config.topics :
              Subscribed(i) => config.topics[i].filter \in Requested

StartupInv == ConfigInv /\ EagerlyValidated /\ RegistryInv /\ SubscribeInv

----------------------------------------------------------------------------
(* What holds initially *)

LEMMA StartupInitInv == StartupInit => StartupInv
<1> SUFFICES ASSUME StartupInit PROVE StartupInv
    OBVIOUS
<1> USE DEF StartupInit, Init
<1>a. step = "loading" /\ entries = << >> /\ cursor = 1 /\ ~built /\ error = "none"
    BY Zenon
<1>b. config \in ConfigType
    BY StartupAssumption
<1>1. ConfigInv
    BY <1>a, <1>b DEF ConfigInv
<1>2. EagerlyValidated
    BY DEF EagerlyValidated
<1>3. DOMAIN entries = {} /\ entries \in Seq([filter : Texts, decoder : Decoders])
    OBVIOUS
<1>4. RegistryInv
    BY <1>3 DEF RegistryInv
<1>5. SubscribeInv
    BY DEF SubscribeInv, Subscribed
<1> QED
    BY <1>1, <1>2, <1>4, <1>5 DEF StartupInv

----------------------------------------------------------------------------
(* Steps that only move main on *)

\* main fails: of the invariant only what holds of any state remains.
LEMMA FailInv ==
    ASSUME StartupInv, NEW e, e # "LateTopicFilter", Fail(e), UNCHANGED vars
    PROVE  StartupInv'
<1> USE DEF Fail, vars, network
<1>1. UNCHANGED <<config, cursor, entries, built, requests, asked, driver>> /\ step' = "failed"
    OBVIOUS
<1>2. ConfigInv'
    BY <1>1 DEF StartupInv, ConfigInv
<1>3. EagerlyValidated'
    BY DEF EagerlyValidated
<1>4. RegistryInv'
    BY <1>1 DEF StartupInv, RegistryInv, Justified, Built
<1>5. SubscribeInv'
    BY <1>1 DEF StartupInv, SubscribeInv, Subscribed
<1> QED
    BY <1>2, <1>3, <1>4, <1>5 DEF StartupInv

\* The errors of the steps that read files are none of validate's.
LEMMA BuildError ==
    ASSUME NEW d \in DecoderConfigType
    PROVE  BuildResult(d) # "LateTopicFilter"
<1>1. d.kind \in {"hexdump", "utf8", "protobuf", "template"}
    BY DEF DecoderConfigType, Hexdump, Utf8, ProtobufType, TemplateType
<1>2. ProtobufResult(d) # "LateTopicFilter"
    BY DEF ProtobufResult
<1> QED
    BY <1>1, <1>2 DEF BuildResult, TemplateResult

LEMMA AuthError ==
    ASSUME NEW a \in AuthType
    PROVE  AuthResult(a) # "LateTopicFilter"
<1>1. a.method \in {"none", "mtls", "userpass"}
    BY DEF AuthType, NoAuth, MtlsType, UserPassType
<1> QED
    BY <1>1 DEF AuthResult, MtlsResult, UserPassResult

LEMMA LoadedType ==
    ASSUME NEW c \in ConnectionType
    PROVE  Loaded(c) \in ConnectionType
<1>1. PathOf(c) \in UrlPathType
    <2>1. CASE c.path = {}
        BY <2>1 DEF PathOf, Or, DefaultPath, UrlPathType
    <2>2. CASE c.path # {}
        BY <2>2 DEF PathOf, Or, ConnectionType
    <2> QED
        BY <2>1, <2>2
<1>2. <<"/">> \in UrlPathType
    BY DEF UrlPathType
<1>3. Normalize(PathOf(c)) \in UrlPathType
    BY <1>1, <1>2, ConcatProperties DEF Normalize, UrlPathType
<1> QED
    BY <1>3 DEF Loaded, ConnectionType

\* Loading changes the connection only.
LEMMA LoadOkInv ==
    ASSUME StartupInv, LoadOk
    PROVE  StartupInv'
<1> DEFINE c == config
<1>1. c \in ConfigType /\ config' = [c EXCEPT !.connection = Loaded(c.connection)]
    BY DEF StartupInv, ConfigInv, LoadOk
<1>2. Loaded(c.connection) \in ConnectionType
    BY <1>1, LoadedType DEF ConfigType
<1>3. /\ config' \in ConfigType
      /\ config'.topics = c.topics /\ config'.decoders = c.decoders
      /\ config'.maxConcurrent = c.maxConcurrent
    BY <1>1, <1>2 DEF ConfigType
<1>4. /\ UNCHANGED <<entries, built, error, cursor, requests, asked, driver>>
      /\ step = "loading" /\ step' = "registering"
      /\ entries = << >> /\ cursor = 1 /\ error = "none"
      /\ cursor \in Nat \ {0}
    BY DEF StartupInv, ConfigInv, LoadOk, vars, network
<1>5. ValidTopics'
    BY <1>3 DEF LoadOk, ValidTopics, TopicError, Resolvable
<1>6. ConfigInv'
    BY <1>3, <1>4, <1>5 DEF ConfigInv, LoadOk
<1>7. EagerlyValidated'
    BY <1>4 DEF EagerlyValidated
<1>8. RegistryInv'
    <2>1. DOMAIN entries = {} /\ entries' = entries
        BY <1>4
    <2>2. \A i \in DOMAIN c.topics : i \in Nat \ {0}
        BY <1>1 DEF ConfigType
    <2>3. \A i \in DOMAIN config'.topics : ~Passed(i)'
        BY <1>3, <1>4, <2>2 DEF Passed
    <2> QED
        BY <1>3, <1>4, <2>1, <2>3 DEF StartupInv, RegistryInv
<1>9. SubscribeInv'
    BY <1>3, <1>4 DEF StartupInv, SubscribeInv, Subscribed
<1> QED
    BY <1>6, <1>7, <1>8, <1>9 DEF StartupInv

LEMMA LoadInv ==
    ASSUME StartupInv, Load
    PROVE  StartupInv'
<1>1. CASE LoadUnreadable
    BY <1>1, FailInv DEF LoadUnreadable
<1>2. ASSUME NEW i \in DOMAIN config.topics, InvalidTopic(i) PROVE StartupInv'
    <2>1. TopicError(config, i) # "LateTopicFilter"
        BY DEF TopicError
    <2> QED
        BY <1>2, <2>1, FailInv DEF InvalidTopic
<1>3. CASE InvalidEngine
    BY <1>3, FailInv DEF InvalidEngine
<1>4. CASE LoadOk
    BY <1>4, LoadOkInv
<1> QED
    BY <1>1, <1>2, <1>3, <1>4 DEF Load

----------------------------------------------------------------------------
(* The registry *)

\* At a block, validate has vouched for it.
LEMMA BlockValid ==
    ASSUME StartupInv, AtBlock
    PROVE  /\ cursor \in DOMAIN config.topics
           /\ Block \in BlockType
           /\ Parse(Block.filter) = "Ok"
           /\ Resolvable(config, Block.decoder)
           /\ Block.decoder # Absent => DecoderOf(config, Block.decoder) \in Decoders
<1>1. config \in ConfigType /\ cursor \in Nat \ {0} /\ ValidTopics
    BY DEF StartupInv, ConfigInv, AtBlock
<1>2. config.topics \in Seq(BlockType)
    BY <1>1 DEF ConfigType, BlockType
<1>3. cursor \in DOMAIN config.topics /\ Block \in BlockType
    BY <1>1, <1>2 DEF AtBlock, Block
<1>4. Parse(Block.filter) = "Ok" /\ Resolvable(config, Block.decoder)
    BY <1>1, <1>3 DEF ValidTopics, TopicError, Block
<1>5. ASSUME Block.decoder # Absent
      PROVE  DecoderOf(config, Block.decoder) \in Decoders
    <2>1. Block.decoder \in {Ref(n) : n \in Names} \cup {Literal(d) : d \in Decoders}
        BY <1>3, <1>5 DEF BlockType, RefType
    <2>2. ASSUME NEW n \in Names, Block.decoder = Ref(n)
          PROVE  DecoderOf(config, Block.decoder) \in Decoders
        <3>1. Block.decoder.kind = "ref" /\ Block.decoder.name = n
            BY <2>2 DEF Ref
        <3>2. n \in DOMAIN config.decoders
            BY <1>4, <3>1 DEF Resolvable
        <3>3. PICK S \in SUBSET Names : config.decoders \in [S -> Decoders]
            BY <1>1 DEF ConfigType
        <3> QED
            BY <3>1, <3>2, <3>3 DEF DecoderOf
    <2>3. ASSUME NEW d \in Decoders, Block.decoder = Literal(d)
          PROVE  DecoderOf(config, Block.decoder) \in Decoders
        BY <2>3 DEF DecoderOf, Literal
    <2> QED
        BY <2>1, <2>2, <2>3
<1> QED
    BY <1>3, <1>4, <1>5

\* A step that only moves the cursor over a subscribe-only block.
LEMMA SkipInv ==
    ASSUME StartupInv, SkipBlock
    PROVE  StartupInv'
<1>1. /\ UNCHANGED <<config, entries, built, step, error, requests, asked, driver>>
      /\ cursor' = cursor + 1 /\ step = "registering" /\ Block.decoder = Absent
    BY DEF SkipBlock, AtBlock, vars, network
<1>2. cursor \in Nat \ {0} /\ config \in ConfigType
    BY DEF StartupInv, ConfigInv
<1>3. ConfigInv'
    BY <1>1, <1>2 DEF StartupInv, ConfigInv, ValidTopics
<1>4. EagerlyValidated'
    BY <1>1 DEF StartupInv, EagerlyValidated
<1>5. RegistryInv'
    <2>1. \A i \in DOMAIN config.topics :
              Passed(i)' /\ config.topics[i].decoder # Absent => Entered(i)
        <3>1. \A i \in DOMAIN config.topics : i \in Nat
            BY <1>2 DEF ConfigType
        <3>2. \A i \in DOMAIN config.topics : Passed(i)' => Passed(i) \/ i = cursor
            BY <1>1, <1>2, <3>1 DEF Passed
        <3> QED
            BY <1>1, <3>2 DEF StartupInv, RegistryInv, Block
    <2>2. \A i \in DOMAIN config.topics : Entered(i) => Entered(i)'
        BY <1>1 DEF Entered
    <2> QED
        BY <1>1, <2>1, <2>2 DEF StartupInv, RegistryInv, Justified, Built
<1>6. SubscribeInv'
    BY <1>1 DEF StartupInv, SubscribeInv, Subscribed
<1> QED
    BY <1>3, <1>4, <1>5, <1>6 DEF StartupInv

LEMMA RegisterInv ==
    ASSUME StartupInv, RegisterBlock
    PROVE  StartupInv'
<1> DEFINE f == Block.filter
           d == DecoderOf(config, Block.decoder)
<1>1. /\ UNCHANGED <<config, built, step, error, requests, asked, driver>>
      /\ cursor' = cursor + 1 /\ step = "registering" /\ Block.decoder # Absent
      /\ AtBlock /\ ~Duplicate(f)
    BY DEF RegisterBlock, Register, AtBlock, network
<1>2. cursor \in Nat \ {0} /\ config \in ConfigType
    BY DEF StartupInv, ConfigInv
<1>3. /\ cursor \in DOMAIN config.topics /\ f \in Texts /\ d \in Decoders
    BY <1>1, BlockValid DEF BlockType
<1>4. PICK e : e = [filter |-> f, decoder |-> d]
    OBVIOUS
<1>5. PICK n \in Nat : n = Len(entries) + 1
    BY LenProperties DEF StartupInv, RegistryInv
<1>6. /\ entries \in Seq([filter : Texts, decoder : Decoders])
      /\ entries' = Append(entries, e)
      /\ e \in [filter : Texts, decoder : Decoders]
    BY <1>3, <1>4 DEF StartupInv, RegistryInv, RegisterBlock, Register
<1>7. /\ entries' \in Seq([filter : Texts, decoder : Decoders])
      /\ DOMAIN entries' = DOMAIN entries \cup {n}
      /\ n \notin DOMAIN entries
      /\ \A j \in DOMAIN entries : entries'[j] = entries[j]
      /\ entries'[n] = e
    BY <1>5, <1>6
<1>8. ConfigInv'
    BY <1>1, <1>2 DEF StartupInv, ConfigInv, ValidTopics
<1>9. EagerlyValidated'
    BY <1>1 DEF StartupInv, EagerlyValidated
<1>10. RegistryInv'
    <2>1. \A i \in DOMAIN config.topics : Entered(i) => Entered(i)'
        BY <1>1, <1>7 DEF Entered
    <2>2. \A i \in DOMAIN config.topics : i = cursor => Entered(i)'
        BY <1>1, <1>4, <1>7 DEF Entered, Block
    <2>3. \A i \in DOMAIN config.topics : i \in Nat
        BY <1>2 DEF ConfigType
    <2>4. \A i \in DOMAIN config.topics : Passed(i)' => Passed(i) \/ i = cursor
        BY <1>1, <1>2, <2>3 DEF Passed
    <2>5. \A i \in DOMAIN config.topics :
              Passed(i)' /\ config.topics[i].decoder # Absent => Entered(i)'
        BY <1>1, <2>1, <2>2, <2>4 DEF StartupInv, RegistryInv
    <2>6. \A j \in DOMAIN entries : Justified(j)' /\ Built(j)'
        BY <1>1, <1>7 DEF StartupInv, RegistryInv, Justified, Built
    <2>7. Justified(n)' /\ Built(n)'
        <3>1. Justified(n)'
            BY <1>1, <1>3, <1>4, <1>7 DEF Justified, Block
        <3>2. BuildResult(DecoderConfigs[d]) = "Ok"
            BY DEF RegisterBlock, DecoderBuilds, BlockDecoder
        <3> QED
            BY <1>4, <1>7, <3>1, <3>2 DEF Built
    <2>8. \A j \in DOMAIN entries : entries[j].filter # e.filter
        BY <1>1, <1>4 DEF Duplicate
    <2>9. \A i, j \in DOMAIN entries' : entries'[i].filter = entries'[j].filter => i = j
        BY <1>7, <2>8 DEF StartupInv, RegistryInv
    <2> QED
        BY <1>1, <1>7, <2>5, <2>6, <2>7, <2>9 DEF RegistryInv
<1>11. SubscribeInv'
    BY <1>1 DEF StartupInv, SubscribeInv, Subscribed
<1> QED
    BY <1>8, <1>9, <1>10, <1>11 DEF StartupInv

LEMMA BuildInv ==
    ASSUME StartupInv, BuildRegistry
    PROVE  StartupInv'
<1>1. /\ UNCHANGED <<config, entries, error, requests, asked, driver>>
      /\ step = "registering" /\ step' = "authenticating" /\ cursor' = 1
      /\ built' /\ cursor > Len(config.topics)
    BY Zenon DEF BuildRegistry, Build, network
<1>2. config \in ConfigType /\ cursor \in Nat \ {0} /\ cursor' \in Nat \ {0}
    BY <1>1 DEF StartupInv, ConfigInv
<1>3. ConfigInv'
    BY <1>1, <1>2 DEF StartupInv, ConfigInv, ValidTopics
<1>4. EagerlyValidated'
    BY <1>1 DEF StartupInv, EagerlyValidated
<1>5. RegistryInv'
    <2>1. \A i \in DOMAIN config.topics : i < cursor
        BY <1>1, <1>2 DEF ConfigType
    <2>2. \A i \in DOMAIN config.topics : config.topics[i].decoder # Absent => Entered(i)
        BY <1>1, <2>1 DEF StartupInv, RegistryInv, Passed
    <2>3. \A i \in DOMAIN config.topics : Entered(i) => Entered(i)'
        BY <1>1 DEF Entered
    <2> QED
        BY <1>1, <2>2, <2>3 DEF StartupInv, RegistryInv, Justified, Built
<1>6. SubscribeInv'
    BY <1>1 DEF StartupInv, SubscribeInv, Subscribed
<1> QED
    BY <1>3, <1>4, <1>5, <1>6 DEF StartupInv

LEMMA FillRegistryInv ==
    ASSUME StartupInv, FillRegistry
    PROVE  StartupInv'
<1>1. CASE SkipBlock
    BY <1>1, SkipInv
<1>2. CASE DecoderFails
    <2>1. Resolvable(config, Block.decoder)
        BY <1>2, BlockValid DEF DecoderFails
    <2>2. BlockDecoder \in DecoderConfigType
        BY <1>2, BlockValid, StartupAssumption DEF DecoderFails, BlockDecoder
    <2>3. BuildResult(BlockDecoder) # "LateTopicFilter"
        BY <2>2, BuildError
    <2> QED
        BY <1>2, <2>1, <2>3, FailInv DEF DecoderFails
<1>3. CASE RegisterBlock
    BY <1>3, RegisterInv
<1>4. CASE RejectBlock
    <2>1. Parse(Block.filter) = "Ok"
        BY <1>4, BlockValid DEF RejectBlock
    <2>2. Fail("DuplicateFilter") /\ UNCHANGED vars
        BY <1>4, <2>1 DEF RejectBlock, Reject
    <2> QED
        BY <2>2, FailInv
<1>5. CASE BuildRegistry
    BY <1>5, BuildInv
<1> QED
    BY <1>1, <1>2, <1>3, <1>4, <1>5 DEF FillRegistry

----------------------------------------------------------------------------
(* Connection and subscriptions *)

\* After the registry is built nothing touches it any more.
LEMMA RegistryStays ==
    ASSUME StartupInv, UNCHANGED <<vars, config, error>>, cursor' \in Nat \ {0},
           step \in {"authenticating", "connecting", "subscribing"},
           step' \in {"connecting", "subscribing", "running"}
    PROVE  ConfigInv' /\ EagerlyValidated' /\ RegistryInv'
<1>1. UNCHANGED <<entries, built>>
    BY DEF vars
<1>2. ConfigInv'
    BY <1>1 DEF StartupInv, ConfigInv, ValidTopics
<1>3. EagerlyValidated'
    BY DEF StartupInv, EagerlyValidated
<1>4. RegistryInv'
    <2>1. \A i \in DOMAIN config.topics : Passed(i) /\ (Entered(i) => Entered(i)')
        BY <1>1 DEF Passed, Entered
    <2> QED
        BY <1>1, <2>1 DEF StartupInv, RegistryInv, Justified, Built
<1> QED
    BY <1>2, <1>3, <1>4

LEMMA ConnectInv ==
    ASSUME StartupInv, Connect
    PROVE  StartupInv'
<1>1. CASE AuthFails
    <2>1. config.connection.auth \in AuthType
        BY DEF StartupInv, ConfigInv, ConfigType, ConnectionType
    <2> QED
        BY <1>1, <2>1, AuthError, FailInv DEF AuthFails
<1>2. ASSUME NEW result \in ClientInitErrors, ConnectFails(result)
      PROVE  StartupInv'
    BY <1>2, FailInv DEF ConnectFails, ClientInitErrors
<1>3. CASE AuthOk \/ ConnectOk
    <2>1. /\ UNCHANGED <<vars, config, error, cursor, requests, asked>>
          /\ step \in {"authenticating", "connecting"}
          /\ step' \in {"connecting", "subscribing"}
          /\ cursor \in Nat \ {0}
          /\ driver' = driver \/ step' = "subscribing"
        BY <1>3 DEF AuthOk, ConnectOk, network, StartupInv, ConfigInv
    <2>2. ConfigInv' /\ EagerlyValidated' /\ RegistryInv'
        BY <2>1, RegistryStays
    <2>3. cursor = 1
        BY <2>1 DEF StartupInv, SubscribeInv
    <2>4. \A i \in DOMAIN config.topics : ~(i < cursor)
        BY <2>3 DEF StartupInv, ConfigInv, ConfigType
    <2>5. SubscribeInv'
        BY <2>1, <2>3, <2>4 DEF StartupInv, SubscribeInv, Subscribed
    <2> QED
        BY <2>2, <2>5 DEF StartupInv
<1> QED
    BY <1>1, <1>2, <1>3 DEF Connect

LEMMA SubscribeBlockInv ==
    ASSUME StartupInv, Subscribe
    PROVE  StartupInv'
<1>1. /\ UNCHANGED <<vars, config, step, error, driver, asked>>
      /\ step = "subscribing" /\ cursor' = cursor + 1
      /\ cursor \in Nat \ {0} /\ cursor <= Len(config.topics)
      /\ requests' = Append(requests, Block.filter)
      /\ requests \in Seq(Texts) /\ config \in ConfigType
    BY DEF Subscribe, StartupInv, ConfigInv, SubscribeInv
<1>2. ConfigInv' /\ EagerlyValidated' /\ RegistryInv'
    BY <1>1, RegistryStays
<1>3. config.topics \in Seq(BlockType)
    BY <1>1 DEF ConfigType, BlockType
<1>4. cursor \in DOMAIN config.topics /\ Block.filter \in Texts
    <2>1. cursor \in 1..Len(config.topics)
        BY <1>1, <1>3
    <2>2. cursor \in DOMAIN config.topics /\ Block \in BlockType
        BY <1>3, <2>1 DEF Block
    <2> QED
        BY <2>2 DEF BlockType
<1>5. /\ requests' \in Seq(Texts)
      /\ \A j \in DOMAIN requests : j \in DOMAIN requests' /\ requests'[j] = requests[j]
      /\ \E j \in DOMAIN requests' : requests'[j] = Block.filter
    <2>1. PICK n \in Nat : n = Len(requests) + 1
        BY <1>1, LenProperties
    <2>2. n \in DOMAIN requests' /\ requests'[n] = Block.filter
        BY <1>1, <1>4, <2>1
    <2> QED
        BY <1>1, <1>4, <2>2
<1>6. Requested \subseteq Requested' /\ Block.filter \in Requested'
    BY <1>1, <1>5 DEF Requested
<1>7. \A i \in DOMAIN config.topics : Subscribed(i)' => Subscribed(i) \/ i = cursor
    BY <1>1, <1>3 DEF Subscribed
<1>8. SubscribeInv'
    BY <1>1, <1>5, <1>6, <1>7 DEF StartupInv, SubscribeInv, Block
<1> QED
    BY <1>2, <1>8 DEF StartupInv

LEMMA SubscribeAllInv ==
    ASSUME StartupInv, SubscribeAll
    PROVE  StartupInv'
<1>1. CASE Subscribe
    BY <1>1, SubscribeBlockInv
<1>2. CASE SubscribeFails
    BY <1>2, FailInv DEF SubscribeFails
<1>3. CASE SpawnEngine
    <2>1. /\ UNCHANGED <<vars, config, error, cursor, requests, asked, driver>>
          /\ step = "subscribing" /\ step' = "running"
          /\ cursor \in Nat \ {0} /\ cursor > Len(config.topics)
          /\ config \in ConfigType
        BY <1>3 DEF SpawnEngine, network, StartupInv, ConfigInv
    <2>2. ConfigInv' /\ EagerlyValidated' /\ RegistryInv'
        BY <2>1, RegistryStays
    <2>3. \A i \in DOMAIN config.topics : i < cursor
        BY <2>1 DEF ConfigType
    <2>4. SubscribeInv'
        BY <2>1, <2>3 DEF StartupInv, SubscribeInv, Subscribed, Requested
    <2> QED
        BY <2>2, <2>4 DEF StartupInv
<1> QED
    BY <1>1, <1>2, <1>3 DEF SubscribeAll

\* The driver moves subscriptions from the queue to the broker, or loses the
\* connection.
LEMMA DriverInv ==
    ASSUME StartupInv, Poll \/ PollFails
    PROVE  StartupInv'
<1>1. /\ UNCHANGED <<vars, config, step, error, cursor>>
      /\ step = "subscribing" /\ cursor \in Nat \ {0}
    BY DEF Poll, PollFails, Handshake, HandshakeFails, DriverStops, PollSubscribe,
           PollRetained, ForwardRetained, StartupInv, ConfigInv
<1>2. ConfigInv' /\ EagerlyValidated' /\ RegistryInv'
    BY <1>1, RegistryStays
<1>3. requests \in Seq(Texts)
    BY DEF StartupInv, SubscribeInv
<1>4. ASSUME NEW n \in 0..MaxRetained, PollSubscribe(n) PROVE SubscribeInv'
    <2>1. /\ requests # << >> /\ requests' = Tail(requests)
          /\ asked' = asked \cup {Head(requests)} /\ driver' = driver
        BY <1>4 DEF PollSubscribe
    <2>2. /\ requests' \in Seq(Texts)
          /\ \A j \in DOMAIN requests :
                j = 1 \/ (j - 1 \in DOMAIN requests' /\ requests'[j - 1] = requests[j])
          /\ Head(requests) = requests[1]
        BY <1>3, <2>1
    <2>3. Requested \subseteq Requested'
        BY <2>1, <2>2 DEF Requested
    <2> QED
        BY <1>1, <2>1, <2>2, <2>3 DEF StartupInv, SubscribeInv, Subscribed
<1>5. ASSUME PollRetained \/ ForwardRetained \/ \E b \in Brokers : Handshake(b)
      PROVE  SubscribeInv'
    <2>1. UNCHANGED <<requests, asked>> /\ driver # "stopped"
        BY <1>5 DEF PollRetained, ForwardRetained, Handshake
    <2> QED
        BY <1>1, <1>2, <2>1 DEF StartupInv, SubscribeInv, Subscribed, Requested
<1>6. CASE HandshakeFails \/ PollFails
    <2>1. requests' = << >> /\ driver' = "stopped"
        BY <1>6 DEF HandshakeFails, PollFails, DriverStops
    <2> QED
        BY <1>1, <1>2, <2>1 DEF StartupInv, SubscribeInv
<1> QED
    BY <1>2, <1>4, <1>5, <1>6 DEF Poll, StartupInv

----------------------------------------------------------------------------
(* Include paths *)

\* A nonempty set of directory positions has a first one, and only one.
LEMMA FirstPosition ==
    ASSUME NEW S \in SUBSET Nat, S # {}
    PROVE  \E i \in S : /\ \A j \in S : i <= j
                        /\ \A k \in S : (\A j \in S : k <= j) => k = i
<1>1. PICK i \in S : \A j \in S : ~(<<j, i>> \in OpToRel(<, Nat))
    BY WFMin, NatLessThanWellFounded
<1>2. \A j \in S : ~(j < i)
    BY <1>1 DEF OpToRel
<1>3. \A j \in S : i <= j
    BY <1>2
<1> QED
    BY <1>3

\* B is A with further directories behind it.
Extends(A, B) ==
    /\ DOMAIN A \subseteq DOMAIN B /\ DOMAIN B \subseteq Nat
    /\ \A i \in DOMAIN A : B[i] = A[i]
    /\ \A i \in DOMAIN A, j \in DOMAIN B \ DOMAIN A : i <= j

\* What A provides, B takes from the same directory.
LEMMA ProvidedFirst ==
    ASSUME NEW A, NEW B, Extends(A, B), NEW import, Providers(A, import) # {}
    PROVE  Providers(B, import) # {} /\ Provided(B, import) = Provided(A, import)
<1> DEFINE PA == Providers(A, import)
           PB == Providers(B, import)
<1>1. PA \subseteq PB /\ PA \subseteq Nat /\ PB \subseteq Nat
    BY DEF Extends, Providers
<1>2. \A i \in PA, j \in PB \ PA : i <= j
    BY DEF Extends, Providers
<1>3. PICK i \in PA : /\ \A j \in PA : i <= j
                     /\ \A k \in PA : (\A j \in PA : k <= j) => k = i
    BY <1>1, FirstPosition
<1>4. i \in PB /\ \A j \in PB : i <= j
    BY <1>1, <1>2, <1>3
<1>5. \A k \in PB : (\A j \in PB : k <= j) => k = i
    BY <1>1, <1>4
<1>6. (CHOOSE k \in PA : \A j \in PA : k <= j) = i
    BY <1>3
<1>7. (CHOOSE k \in PB : \A j \in PB : k <= j) = i
    BY <1>4, <1>5
<1>8. B[i] = A[i]
    BY DEF Extends, Providers
<1> QED
    BY <1>1, <1>3, <1>6, <1>7, <1>8 DEF Provided

\* So a file whose imports A provides has the same imports with B.
LEMMA SameImports ==
    ASSUME NEW A, NEW B, Extends(A, B), NEW file,
           \A import \in Disk[file].imports : Providers(A, import) # {}
    PROVE  ImportsOf(B, file) = ImportsOf(A, file)
    BY ProvidedFirst DEF ImportsOf

\* Imports are schemas of the disk.
LEMMA ImportsAreSchemas ==
    ASSUME NEW A, DOMAIN A \subseteq Nat, NEW g
    PROVE  ImportsOf(A, g) \subseteq Schemas
<1> SUFFICES ASSUME NEW import, Providers(A, import) # {}
             PROVE  Provided(A, import) \in Schemas
    BY DEF ImportsOf
<1>1. Providers(A, import) \subseteq Nat
    BY DEF Providers
<1>2. PICK i \in Providers(A, import) :
          /\ \A j \in Providers(A, import) : i <= j
          /\ \A k \in Providers(A, import) :
                (\A j \in Providers(A, import) : k <= j) => k = i
    BY <1>1, FirstPosition
<1>3. (CHOOSE k \in Providers(A, import) : \A j \in Providers(A, import) : k <= j) = i
    BY <1>2
<1>4. A[i] \o import \in Schemas
    BY DEF Providers
<1> QED
    BY <1>3, <1>4 DEF Provided

\* A closure holds the files it starts from, is closed, and is the least such.
LEMMA ClosureFacts ==
    ASSUME NEW A, DOMAIN A \subseteq Nat, NEW files \in SUBSET Schemas
    PROVE  /\ Closure(A, files) \subseteq Schemas
           /\ files \subseteq Closure(A, files)
           /\ \A g \in Closure(A, files) : ImportsOf(A, g) \subseteq Closure(A, files)
           /\ \A S \in SUBSET Schemas :
                 files \subseteq S /\ (\A g \in S : ImportsOf(A, g) \subseteq S)
                     => Closure(A, files) \subseteq S
    BY ImportsAreSchemas DEF Closure

\* With B, files whose imports A provides throughout lead to the same ones.
LEMMA SameClosure ==
    ASSUME NEW A, NEW B, Extends(A, B), NEW files \in SUBSET Schemas,
           \A g \in Closure(A, files) :
               \A import \in Disk[g].imports : Providers(A, import) # {}
    PROVE  Closure(B, files) = Closure(A, files)
<1>1. DOMAIN A \subseteq Nat /\ DOMAIN B \subseteq Nat
    BY DEF Extends
<1>2. \A g \in Closure(A, files) : ImportsOf(B, g) = ImportsOf(A, g)
    BY SameImports
<1>3. Closure(B, files) \subseteq Closure(A, files)
    BY <1>1, <1>2, ClosureFacts
<1>4. Closure(A, files) \subseteq Closure(B, files)
    <2>1. \A g \in Closure(B, files) : ImportsOf(A, g) \subseteq Closure(B, files)
        BY <1>1, <1>2, <1>3, ClosureFacts
    <2> QED
        BY <1>1, <2>1, ClosureFacts
<1> QED
    BY <1>3, <1>4

\* What compiles goes on to do so, from the same files.
LEMMA CompilesGrown ==
    ASSUME NEW A, NEW B, Extends(A, B), NEW root, Compiles(A, root)
    PROVE  Compiles(B, root) /\ Closure(B, {root}) = Closure(A, {root})
<1> DEFINE C == Closure(A, {root})
<1>1. /\ root \in Schemas
      /\ \A file \in C : /\ Disk[file].valid
                         /\ \A import \in Disk[file].imports : Providers(A, import) # {}
                         /\ file \notin Closure(A, ImportsOf(A, file))
    BY DEF Compiles
<1>2. DOMAIN A \subseteq Nat /\ {root} \in SUBSET Schemas
    BY <1>1 DEF Extends
<1>3. C \subseteq Schemas /\ \A g \in C : ImportsOf(A, g) \subseteq C
    BY <1>2, ClosureFacts
<1>4. Closure(B, {root}) = C
    BY <1>1, <1>2, SameClosure
<1>5. ASSUME NEW file \in C
      PROVE  /\ Disk[file].valid
             /\ \A import \in Disk[file].imports : Providers(B, import) # {}
             /\ file \notin Closure(B, ImportsOf(B, file))
    <2>1. ImportsOf(B, file) = ImportsOf(A, file)
        BY <1>1, SameImports
    <2>2. ImportsOf(A, file) \in SUBSET Schemas
        BY <1>3
    <2>3. Closure(A, ImportsOf(A, file)) \subseteq C
        BY <1>2, <1>3, <2>2, ClosureFacts
    <2>4. Closure(B, ImportsOf(A, file)) = Closure(A, ImportsOf(A, file))
        BY <1>1, <2>2, <2>3, SameClosure
    <2> QED
        BY <1>1, <2>1, <2>4, ProvidedFirst
<1> QED
    BY <1>1, <1>4, <1>5 DEF Compiles

\* One more include path stands behind all directories.
LEMMA OneMoreInclude ==
    ASSUME NEW d \in ProtobufType, NEW dir \in PathType
    PROVE  Extends(IncludeDirs(d), IncludeDirs([d EXCEPT !.includePaths = Append(@, dir)]))
<1> DEFINE own == Parent(ResolvePath(d.protoFile))
           paths == d.includePaths
           more == Append(paths, dir)
           e == [d EXCEPT !.includePaths = Append(@, dir)]
           Dirs(s) == <<own>> \o [i \in DOMAIN s |-> ResolvePath(s[i])]
<1>1. paths \in Seq(PathType) /\ e.includePaths = more /\ e.protoFile = d.protoFile
    BY DEF ProtobufType
<1>2. IncludeDirs(d) = Dirs(paths) /\ IncludeDirs(e) = Dirs(more)
    BY <1>1 DEF IncludeDirs
<1>3. PICK n \in Nat : /\ n = Len(paths) /\ DOMAIN paths = 1..n
                      /\ DOMAIN more = 1..(n + 1)
                      /\ \A i \in 1..n : more[i] = paths[i]
    <2>1. /\ Len(paths) \in Nat /\ DOMAIN paths = 1..Len(paths)
          /\ DOMAIN more = 1..(Len(paths) + 1)
          /\ \A i \in 1..Len(paths) : more[i] = paths[i]
        BY <1>1, LenProperties, AppendProperties
    <2> QED
        BY <2>1
<1> HIDE DEF more
<1>4. ASSUME NEW s, NEW k \in Nat, DOMAIN s = 1..k
      PROVE  /\ DOMAIN Dirs(s) = 1..(k + 1)
             /\ \A i \in 1..(k + 1) :
                   Dirs(s)[i] = IF i = 1 THEN own ELSE ResolvePath(s[i - 1])
    BY <1>4
<1> HIDE DEF Dirs
<1>5. /\ DOMAIN Dirs(paths) = 1..(n + 1) /\ DOMAIN Dirs(more) = 1..(n + 2)
      /\ \A i \in 1..(n + 1) : Dirs(more)[i] = Dirs(paths)[i]
    <2>1. /\ DOMAIN Dirs(paths) = 1..(n + 1)
          /\ \A i \in 1..(n + 1) :
                Dirs(paths)[i] = IF i = 1 THEN own ELSE ResolvePath(paths[i - 1])
        BY <1>3, <1>4
    <2>2. /\ DOMAIN Dirs(more) = 1..((n + 1) + 1)
          /\ \A i \in 1..((n + 1) + 1) :
                Dirs(more)[i] = IF i = 1 THEN own ELSE ResolvePath(more[i - 1])
        <3>1. n + 1 \in Nat
            OBVIOUS
        <3> QED
            BY <1>3, <1>4, <3>1
    <2>3. ASSUME NEW i \in 1..(n + 1) PROVE Dirs(more)[i] = Dirs(paths)[i]
        <3>1. CASE i = 1
            BY <2>1, <2>2, <3>1
        <3>2. CASE i # 1
            <4>1. i - 1 \in 1..n /\ i \in 1..((n + 1) + 1)
                BY <3>2
            <4> QED
                BY <1>3, <2>1, <2>2, <3>2, <4>1
        <3> QED
            BY <3>1, <3>2
    <2> QED
        BY <2>1, <2>2, <2>3
<1>6. Extends(Dirs(paths), Dirs(more))
    BY <1>5 DEF Extends
<1> QED
    BY <1>2, <1>6

----------------------------------------------------------------------------
(* The theorems *)

LEMMA StartupInductive == StartupSpec => []StartupInv
<1>1. StartupInv /\ [StartupNext]_startupVars => StartupInv'
    <2> SUFFICES ASSUME StartupInv, [StartupNext]_startupVars PROVE StartupInv'
        OBVIOUS
    <2>1. CASE UNCHANGED startupVars
        <3>1. UNCHANGED <<config, step, error, cursor, entries, built, requests, asked, driver>>
            BY <2>1 DEF startupVars, vars, network
        <3>2. ConfigInv' /\ EagerlyValidated'
            BY <3>1 DEF StartupInv, ConfigInv, ValidTopics, EagerlyValidated
        <3>3. RegistryInv'
            BY <3>1 DEF StartupInv, RegistryInv, Passed, Entered, Justified, Built
        <3>4. SubscribeInv'
            BY <3>1 DEF StartupInv, SubscribeInv, Subscribed, Requested
        <3> QED
            BY <3>2, <3>3, <3>4 DEF StartupInv
    <2> QED
        BY <2>1, LoadInv, FillRegistryInv, ConnectInv, SubscribeAllInv, DriverInv
           DEF StartupNext
<1> QED
    BY <1>1, StartupInitInv, PTL DEF StartupSpec

\* Whatever the configuration, the expect of src/main.rs:47 never panics, and
\* the second parse of a filter (:54) never fails: validate has seen it all.
THEOREM StartupEagerlyValidated == StartupSpec => []EagerlyValidated
<1>1. StartupInv => EagerlyValidated
    BY DEF StartupInv
<1> QED
    BY <1>1, StartupInductive, PTL

\* The engine is spawned with an entry for exactly the decoded blocks, no
\* filter twice, a positive budget, and every block subscribed to
\* (src/main.rs:38-82).
THEOREM StartupEngineReady == StartupSpec => []EngineReady
<1>1. StartupInv => EngineReady
    <2> SUFFICES ASSUME StartupInv, step = "running" PROVE EngineReady
        BY DEF EngineReady
    <2>1. built /\ config.maxConcurrent # 0 /\ config.maxConcurrent \in Nat
        BY DEF StartupInv, RegistryInv, ConfigInv, ConfigType
    <2>2. \A i \in DOMAIN config.topics : config.topics[i].decoder # Absent => Entered(i)
        BY DEF StartupInv, RegistryInv, Passed
    <2>3. driver # "stopped" =>
              \A i \in DOMAIN config.topics : config.topics[i].filter \in Requested
        BY DEF StartupInv, SubscribeInv, Subscribed
    <2> QED
        BY <2>1, <2>2, <2>3 DEF StartupInv, RegistryInv, EngineReady, Entered, Justified, Built
<1> QED
    BY <1>1, StartupInductive, PTL

\* A decoder that could be built can be built with one more include path, which
\* is searched last (src/decoder/protobuf.rs:63).
THEOREM StartupIncludesOnlyAdd == StartupSpec => []IncludesOnlyAdd
<1>1. ASSUME NEW d \in DecoderConfigType, d.kind = "protobuf", BuildResult(d) = "Ok",
             NEW dir \in PathType
      PROVE  BuildResult([d EXCEPT !.includePaths = Append(@, dir)]) = "Ok"
    <2> DEFINE e == [d EXCEPT !.includePaths = Append(@, dir)]
    <2>1. d \in ProtobufType
        BY <1>1 DEF DecoderConfigType, Hexdump, Utf8, TemplateType
    <2>2. e.kind = "protobuf" /\ e.protoFile = d.protoFile /\ e.messageType = d.messageType
        BY <1>1, <2>1 DEF ProtobufType
    <2>3. Extends(IncludeDirs(d), IncludeDirs(e))
        BY <2>1, OneMoreInclude
    <2>4. /\ Compiles(IncludeDirs(d), ResolvePath(d.protoFile))
          /\ ProtobufResult(d) = "Ok"
        BY <1>1 DEF BuildResult, ProtobufResult
    <2>5. /\ Compiles(IncludeDirs(e), ResolvePath(d.protoFile))
          /\ Closure(IncludeDirs(e), {ResolvePath(d.protoFile)})
                = Closure(IncludeDirs(d), {ResolvePath(d.protoFile)})
        BY <2>3, <2>4, CompilesGrown
    <2> HIDE DEF e
    <2>6. ProtobufResult(e) = "Ok"
        BY <2>2, <2>4, <2>5 DEF ProtobufResult
    <2>7. BuildResult(e) = "Ok"
        BY <2>2, <2>6 DEF BuildResult
    <2> QED
        BY <2>7 DEF e
<1>2. StartupInv => IncludesOnlyAdd
    <2> SUFFICES ASSUME StartupInv, NEW j \in DOMAIN entries, NEW file \in Schemas,
                        DecoderConfigs[entries[j].decoder].kind = "protobuf"
                 PROVE  BuildResult([DecoderConfigs[entries[j].decoder]
                                        EXCEPT !.includePaths = Append(@, Parent(file))]) = "Ok"
        BY DEF IncludesOnlyAdd
    <2>1. DecoderConfigs[entries[j].decoder] \in DecoderConfigType
        <3>1. entries \in Seq([filter : Texts, decoder : Decoders])
            BY DEF StartupInv, RegistryInv
        <3>2. j \in 1..Len(entries)
            BY <3>1, LenProperties
        <3> DEFINE Entries == [filter : Texts, decoder : Decoders]
        <3>3. entries[j].decoder \in Decoders
            <4> HIDE DEF Entries
            <4>1. entries[j] \in Entries
                BY <3>1, <3>2, ElementOfSeq DEF Entries
            <4> QED
                BY <4>1 DEF Entries
        <3>4. DecoderConfigs \in [Decoders -> DecoderConfigType]
            BY StartupAssumption
        <3> QED
            BY <3>3, <3>4, Zenon
    <2>2. BuildResult(DecoderConfigs[entries[j].decoder]) = "Ok"
        BY DEF StartupInv, RegistryInv, Built
    <2>3. Parent(file) \in PathType
        <3>1. file \in Seq(STRING)
            BY BuildingAssumption DEF Schemas, PathType
        <3>2. \A k \in 1..(Len(file) - 1) : k \in 1..Len(file)
            BY <3>1, LenProperties
        <3> QED
            BY <3>1, <3>2 DEF Parent, PathType
    <2> QED
        BY <1>1, <2>1, <2>2, <2>3
<1> QED
    BY <1>2, StartupInductive, PTL
============================================================================
