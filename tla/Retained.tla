------------------------------- MODULE Retained -------------------------------
(***************************************************************************)
(* The program and the retained messages of its broker, over several runs. *)
(* An output takes its retain flag from the message it was made of         *)
(* (DecodePublish::resolve in src/decoder/mod.rs), and a broker sets that  *)
(* flag only on what it had stored before the program subscribed.          *)
(*                                                                         *)
(* A run is the queue of requests to the broker, the messages on their way *)
(* to the engine and those being decoded; a stop of any kind loses all     *)
(* three, and the session is a clean one.  The capacities and the steps    *)
(* within a task are the subject of RosettaMq.                             *)
(***************************************************************************)
EXTENDS Lookup, Decoding, FiniteSets, SequencesExt

CONSTANTS
    Filters,          \* the filters subscribed to, in the order of the file
    Entries,          \* the registry
    DecoderConfigs,   \* the name of a decoder -> its configuration
    Sources,          \* topics other clients publish on
    Payloads,         \* what they publish
    QoSLevels,        \* how they publish it
    MaxConcurrent,    \* max_concurrent_decodes
    MaxPublishes,     \* bound on the messages of other clients
    MaxRuns           \* bound on the runs of the program

ASSUME RetainedAssumption ==
    /\ Filters \in Seq(FilterType)
    /\ Entries \in Seq([filter : Range(Filters), decoder : DOMAIN DecoderConfigs])
    /\ \A d \in DOMAIN DecoderConfigs : DecoderConfigs[d] \in DecoderConfigType
    /\ NoDecoder \notin DOMAIN DecoderConfigs
    /\ Sources \subseteq {t \in TopicType : ~IsOwnOutput(t)}
    /\ QoSLevels \subseteq 0..2
    /\ MaxConcurrent \in Nat \ {0}
    /\ MaxPublishes \in Nat
    /\ MaxRuns \in Nat

VARIABLES
    store,        \* the broker: topic -> the message retained on it
    subscribed,   \* the broker: filters of the session
    up,           \* the program runs and is connected
    requests,     \* subscribe and publish requests on their way to the broker
    incoming,     \* messages on their way to the engine
    decoding,     \* messages being decoded
    publishes,    \* how many messages other clients have published
    runs,         \* how often the program was started
    once,         \* history: the messages that were retained on a source
    changed       \* history: topics whose retained message changed after the
                  \* program subscribed to them

program == <<up, requests, incoming, decoding>>
history == <<publishes, runs, once, changed>>
retainedVars == <<store, subscribed, program, history>>

RetainedInit ==
    /\ store = << >>
    /\ subscribed = {}
    /\ up = FALSE
    /\ requests = << >> /\ incoming = << >> /\ decoding = << >>
    /\ publishes = 0 /\ runs = 0
    /\ once = {} /\ changed = {}

----------------------------------------------------------------------------
(* The broker *)

\* Client::subscribe_all asks for QoS 1 (AtLeastOnce).
SubscribeQoS == 1

\* A message as the program receives it.
AsDelivered(m, retain) ==
    [m EXCEPT !.qos = IF @ < SubscribeQoS THEN @ ELSE SubscribeQoS, !.retain = retain]

\* A retained message takes the place of the one before; an empty one leaves
\* the topic without.
Stored(m) ==
    IF ~m.retain THEN store
    ELSE [t \in (DOMAIN store \ {m.topic})
                \cup (IF m.payload.empty THEN {} ELSE {m.topic}) |->
            IF t = m.topic THEN m ELSE store[t]]

Covering(t) == {f \in subscribed : Matches(f, t)}

\* An established subscription gets a message without the retain flag;
\* overlapping ones get it once, or once each.
Copies(t) == IF Covering(t) = {} THEN {0} ELSE 1..Cardinality(Covering(t))

Forward(m) ==
    \E n \in Copies(m.topic) :
        incoming' = incoming \o [i \in 1..n |-> AsDelivered(m, FALSE)]

\* Another client publishes.
ClientPublishes(m) ==
    /\ publishes < MaxPublishes
    /\ publishes' = publishes + 1
    /\ store' = Stored(m)
    /\ Forward(m)
    /\ once' = IF m.retain THEN once \cup {m} ELSE once
    /\ changed' = IF m.retain /\ Covering(m.topic) # {}
                  THEN changed \cup {m.topic} ELSE changed
    /\ UNCHANGED <<subscribed, up, requests, decoding, runs>>

\* A subscribe request arrives; what is retained under the filter is sent, in
\* any order, with the flag set.
PollSubscribe ==
    /\ requests # << >>
    /\ Head(requests).kind = "subscribe"
    /\ LET f == Head(requests).filter
       IN  /\ subscribed' = subscribed \cup {f}
           /\ \E topics \in SetToSeqs({t \in DOMAIN store : Matches(f, t)}) :
                /\ incoming' = incoming \o
                      [i \in DOMAIN topics |-> AsDelivered(store[topics[i]], TRUE)]
    /\ requests' = Tail(requests)
    /\ UNCHANGED <<store, up, decoding, history>>

\* One of our outputs arrives.
PollPublish ==
    /\ requests # << >>
    /\ Head(requests).kind = "publish"
    /\ store' = Stored(Head(requests).message)
    /\ Forward(Head(requests).message)
    /\ requests' = Tail(requests)
    /\ UNCHANGED <<subscribed, up, decoding, history>>

----------------------------------------------------------------------------
(* The program *)

\* main subscribes to every filter before it starts the engine, so these
\* requests are the first.
Start ==
    /\ ~up
    /\ runs < MaxRuns
    /\ up' = TRUE
    /\ runs' = runs + 1
    /\ requests' = [i \in DOMAIN Filters |-> [kind |-> "subscribe", filter |-> Filters[i]]]
    /\ changed' = {}
    /\ UNCHANGED <<store, subscribed, incoming, decoding, publishes, once>>

DecoderFor(t) == DecoderConfigs[Resolve(Entries, t)]

Ignored(t) == IsOwnOutput(t) \/ Resolve(Entries, t) = NoDecoder

\* A task for every message, whatever the budget (a mutant of HandleIncoming).
HandleIncomingUnbounded ==
    /\ incoming # << >>
    /\ incoming' = Tail(incoming)
    /\ decoding' = IF Ignored(Head(incoming).topic) THEN decoding
                   ELSE Append(decoding, Head(incoming))
    /\ UNCHANGED <<store, subscribed, up, requests, history>>

\* handle_incoming.
HandleIncoming ==
    /\ incoming # << >>
    /\ Len(decoding) < MaxConcurrent
    /\ incoming' = Tail(incoming)
    /\ decoding' = IF Ignored(Head(incoming).topic) THEN decoding
                   ELSE Append(decoding, Head(incoming))
    /\ UNCHANGED <<store, subscribed, up, requests, history>>

\* decode_and_publish hands its output over; tasks end in any order.
DecodeAndPublish(i) ==
    /\ requests' = Append(requests,
            [kind |-> "publish",
             message |-> AnswerTo(DecoderFor(decoding[i].topic), decoding[i])])
    /\ decoding' = RemoveAt(decoding, i)
    /\ UNCHANGED <<store, subscribed, up, incoming, history>>

\* The program exits, crashes or loses the connection, which ends it: what was
\* under way is lost, and the broker keeps nothing of a clean session.
Stop ==
    /\ up
    /\ up' = FALSE
    /\ subscribed' = {}
    /\ requests' = << >> /\ incoming' = << >> /\ decoding' = << >>
    /\ UNCHANGED <<store, history>>

----------------------------------------------------------------------------
ClientMessages ==
    [topic : Sources, qos : QoSLevels, retain : BOOLEAN, payload : Payloads]

RetainedNext ==
    \/ \E m \in ClientMessages : ClientPublishes(m)
    \/ PollSubscribe
    \/ PollPublish
    \/ Start
    \/ HandleIncoming
    \/ \E i \in DOMAIN decoding : DecodeAndPublish(i)
    \/ Stop

RetainedSpec == RetainedInit /\ [][RetainedNext]_retainedVars

----------------------------------------------------------------------------
(* Properties *)

\* The broker keeps retained messages only, none of them empty; a program that
\* is down has no session and nothing under way; the budget is kept.
RetainedTypeOK ==
    /\ \A t \in DOMAIN store :
          /\ store[t].topic = t /\ store[t].retain /\ ~store[t].payload.empty
          /\ store[t].qos \in 0..2
    /\ subscribed \subseteq Range(Filters)
    /\ \A i \in DOMAIN decoding : ~Ignored(decoding[i].topic)
    /\ Len(decoding) <= MaxConcurrent
    /\ ~up => subscribed = {} /\ requests = << >> /\ incoming = << >> /\ decoding = << >>
    /\ once \subseteq ClientMessages
    /\ publishes \in 0..MaxPublishes /\ runs \in 0..MaxRuns

\* The answer to a message as the broker stores it, if it was retained.
Mirror(m) == AnswerTo(DecoderFor(m.topic), AsDelivered(m, TRUE))

Decodable(t) == Resolve(Entries, t) # NoDecoder

\* mod.rs:215: an output is retained only if its source was: whatever the runs,
\* stops and overlapping subscriptions, a retained output is the answer to a
\* message that was retained on a source, with at most QoS 1.  Live traffic
\* leaves no trace at the broker.
RetainedFromRetained ==
    \A t \in DOMAIN store \ Sources :
        \E m \in once : Decodable(m.topic) /\ store[t] = Mirror(m)

\* Nothing of this run is under way.
Quiet == up /\ requests = << >> /\ incoming = << >> /\ decoding = << >>

\* mod.rs:204: a run that has come to rest has a retained answer to every
\* retained message it found when it subscribed, whatever an earlier run lost
\* or left behind; only changes since then may be missing.
MirrorsRetained ==
    Quiet =>
        \A t \in DOMAIN store \cap Sources :
            Decodable(t) /\ t \notin changed =>
                LET answer == Mirror(store[t])
                IN  IF answer.payload.empty THEN answer.topic \notin DOMAIN store
                    ELSE answer.topic \in DOMAIN store /\ store[answer.topic] = answer

\* engine.rs:131: retained outputs of an earlier run come back as messages when
\* a filter covers them, and are not decoded again: the broker never retains
\* anything but sources and their immediate outputs.  (It is what
\* RetainedFromRetained and the type of the store imply together, on its own.)
NoRetainedFeedback ==
    DOMAIN store \subseteq
        Sources \cup {DecodedTopic(t) : t \in Sources} \cup {ErrorTopic(t) : t \in Sources}
============================================================================
