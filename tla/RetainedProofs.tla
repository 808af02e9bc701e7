--------------------------- MODULE RetainedProofs ---------------------------
(***************************************************************************)
(* For every registry, every set of sources and payloads and every number  *)
(* of runs: the broker retains nothing but sources and the answers to what *)
(* was retained on them, and a run that comes to rest has mirrored what it *)
(* found.                                                                  *)
(***************************************************************************)
EXTENDS Retained, SequenceTheorems, FiniteSetTheorems, FunctionTheorems, TLAPS

----------------------------------------------------------------------------
(* Sequences as the sets of what is in them *)

LEMMA RangeEmpty == Range(<< >>) = {}
    BY DEF Range

LEMMA RangeMember ==
    ASSUME NEW T, NEW s \in Seq(T), NEW i \in 1..Len(s)
    PROVE  s[i] \in T /\ s[i] \in Range(s)
    BY RangeEquality

LEMMA RangeAppend ==
    ASSUME NEW T, NEW s \in Seq(T), NEW x \in T
    PROVE  /\ Append(s, x) \in Seq(T)
           /\ Range(Append(s, x)) = Range(s) \cup {x}
<1> DEFINE one == <<x>>
<1>1. one \in Seq(T) /\ Range(one) = {x}
    BY DEF Range
<1>2. Append(s, x) = s \o one /\ Append(s, x) \in Seq(T)
    BY AppendIsConcat, AppendProperties
<1> HIDE DEF one
<1>3. Range(s \o one) = Range(s) \cup Range(one)
    BY <1>1, RangeConcatenation
<1> QED
    BY <1>1, <1>2, <1>3

LEMMA RangeTail ==
    ASSUME NEW T, NEW s \in Seq(T), s # << >>
    PROVE  /\ Head(s) \in T /\ Tail(s) \in Seq(T)
           /\ Range(s) = {Head(s)} \cup Range(Tail(s))
<1> DEFINE one == <<Head(s)>>
           rest == Tail(s)
<1>1. Head(s) \in T /\ rest \in Seq(T) /\ s = one \o rest
    OBVIOUS
<1>2. one \in Seq(T) /\ Range(one) = {Head(s)}
    BY <1>1 DEF Range
<1> HIDE DEF one, rest
<1>3. Range(one \o rest) = Range(one) \cup Range(rest)
    BY <1>1, <1>2, RangeConcatenation
<1> QED
    BY <1>1, <1>2, <1>3 DEF rest

LEMMA RangeRemove ==
    ASSUME NEW T, NEW s \in Seq(T), NEW i \in 1..Len(s)
    PROVE  /\ RemoveAt(s, i) \in Seq(T)
           /\ Len(RemoveAt(s, i)) <= Len(s)
           /\ Range(RemoveAt(s, i)) \subseteq Range(s)
           /\ Range(s) \subseteq Range(RemoveAt(s, i)) \cup {s[i]}
<1> DEFINE a == SubSeq(s, 1, i - 1)
           b == SubSeq(s, i + 1, Len(s))
<1>1. Len(s) \in Nat /\ i \in Nat /\ 1 <= i /\ i <= Len(s)
    OBVIOUS
<1>2. /\ a \in Seq(T) /\ Len(a) = i - 1
      /\ \A k \in 1..(i - 1) : a[k] = s[k]
    BY <1>1
<1>3. /\ b \in Seq(T) /\ Len(b) = Len(s) - i
      /\ \A k \in 1..(Len(s) - i) : b[k] = s[k + i]
    BY <1>1
<1> HIDE DEF a, b
<1>4. Range(a) = {s[k] : k \in 1..(i - 1)}
    BY <1>2, RangeEquality
<1>5. Range(b) = {s[k] : k \in (i + 1)..Len(s)}
    <2>1. Range(b) = {b[k] : k \in 1..(Len(s) - i)}
        BY <1>3, RangeEquality
    <2>2. \A k \in 1..(Len(s) - i) : k + i \in (i + 1)..Len(s)
        BY <1>1
    <2>3. \A k \in (i + 1)..Len(s) : k - i \in 1..(Len(s) - i) /\ (k - i) + i = k
        BY <1>1
    <2>4. \A k \in 1..(Len(s) - i) : b[k] = s[k + i]
        BY <1>3
    <2>5. ASSUME NEW x \in Range(b) PROVE x \in {s[k] : k \in (i + 1)..Len(s)}
        BY <2>1, <2>2, <2>4
    <2>6. ASSUME NEW k \in (i + 1)..Len(s) PROVE s[k] \in Range(b)
        <3>1. b[k - i] = s[k]
            BY <2>3, <2>4
        <3> QED
            BY <2>1, <2>3, <3>1
    <2> QED
        BY <2>5, <2>6
<1>6. Range(s) = {s[k] : k \in 1..Len(s)}
    BY RangeEquality
<1>7. /\ \A k \in 1..(i - 1) : k \in 1..Len(s)
      /\ \A k \in (i + 1)..Len(s) : k \in 1..Len(s)
      /\ \A k \in 1..Len(s) : k \in 1..(i - 1) \/ k = i \/ k \in (i + 1)..Len(s)
    BY <1>1
<1>8. RemoveAt(s, i) = a \o b
    BY DEF RemoveAt, a, b
<1>9. RemoveAt(s, i) \in Seq(T) /\ Len(RemoveAt(s, i)) = Len(a) + Len(b)
    BY <1>2, <1>3, <1>8, ConcatProperties
<1>10. Range(RemoveAt(s, i)) = Range(a) \cup Range(b)
    BY <1>2, <1>3, <1>8, RangeConcatenation
<1> QED
    BY <1>1, <1>2, <1>3, <1>4, <1>5, <1>6, <1>7, <1>9, <1>10

\* A sequence of all of a finite set has every member of it.
LEMMA RangeOfSetToSeqs ==
    ASSUME NEW S, IsFiniteSet(S), NEW s \in SetToSeqs(S)
    PROVE  Len(s) \in Nat /\ DOMAIN s = 1..Len(s) /\ Range(s) = S
<1> DEFINE n == Cardinality(S)
<1>1. n \in Nat
    BY FS_CardinalityType
<1>2. s \in [1..n -> S] /\ \A i, j \in 1..n : i # j => s[i] # s[j]
    BY DEF SetToSeqs
<1>3. s \in Injection(1..n, S)
    BY <1>2 DEF Injection, IsInjective
<1>4. IsFiniteSet(1..n) /\ Cardinality(1..n) = n
    BY <1>1, FS_Interval
<1>5. s \in Surjection(1..n, S)
    BY <1>3, <1>4, FS_Injection
<1>6. DOMAIN s = 1..n /\ Len(s) = n
    BY <1>1, <1>2
<1> QED
    BY <1>1, <1>2, <1>5, <1>6 DEF Surjection, Range

----------------------------------------------------------------------------
(* Topics and messages *)

OutputTopics == {DecodedTopic(t) : t \in Sources} \cup {ErrorTopic(t) : t \in Sources}

\* The topics of the answers to a message on s.
AnswerTopics(s) == {DecodedTopic(s), ErrorTopic(s)}

LEMMA OutputTopic ==
    ASSUME NEW s \in Sources, NEW o \in AnswerTopics(s)
    PROVE  o \in OutputTopics /\ IsOwnOutput(o) /\ o \notin Sources
<1>1. s \in Seq(Literals) /\ s # << >>
    BY RetainedAssumption DEF TopicType
<1>2. PICK l \in {"decoded", "decode_error"} : o = Append(s, l)
    BY DEF AnswerTopics, DecodedTopic, ErrorTopic
<1>3. Len(o) = Len(s) + 1 /\ o[Len(o)] = l /\ Len(s) >= 1 /\ Len(s) \in Nat
    BY <1>1, <1>2
<1>4. IsOwnOutput(o)
    BY <1>2, <1>3 DEF IsOwnOutput
<1>5. o \in OutputTopics
    BY DEF AnswerTopics, OutputTopics
<1> QED
    BY <1>4, <1>5, RetainedAssumption

LEMMA OutputTopicsApart ==
    \A o \in OutputTopics : IsOwnOutput(o) /\ o \notin Sources
    BY OutputTopic DEF OutputTopics, AnswerTopics

\* An answer tells its source.
LEMMA SameSource ==
    ASSUME NEW s \in Sources, NEW t \in Sources, AnswerTopics(s) \cap AnswerTopics(t) # {}
    PROVE  s = t
<1> DEFINE L == Literals \cup {"decoded", "decode_error"}
<1>1. s \in Seq(L) /\ t \in Seq(L)
    BY RetainedAssumption, SeqMonotonic DEF TopicType
<1>2. PICK k \in {"decoded", "decode_error"}, l \in {"decoded", "decode_error"} :
            Append(s, k) = Append(t, l)
    BY DEF AnswerTopics, DecodedTopic, ErrorTopic
<1> QED
    BY <1>1, <1>2, AppendInjective

SourceMessages ==
    [topic : Sources, qos : 0..2, retain : BOOLEAN, payload : Payloads]

OutputPayloads == {AnswerTo(DecoderFor(m.topic), m).payload : m \in SourceMessages}

OutputMessages ==
    [topic : OutputTopics, qos : 0..2, retain : BOOLEAN, payload : OutputPayloads]

Messages == SourceMessages \cup OutputMessages

LEMMA MessageOn ==
    ASSUME NEW m \in Messages
    PROVE  /\ m.topic \in Sources => m \in SourceMessages
           /\ m.topic \notin Sources => m \in OutputMessages
           /\ m.qos \in 0..2 /\ m.retain \in BOOLEAN
<1>1. \A o \in OutputMessages : o.topic \notin Sources
    BY OutputTopicsApart DEF OutputMessages
<1>2. \A o \in SourceMessages : o.topic \in Sources
    BY DEF SourceMessages
<1>3. m.qos \in 0..2 /\ m.retain \in BOOLEAN
    BY DEF Messages, SourceMessages, OutputMessages
<1> QED
    BY <1>1, <1>2, <1>3 DEF Messages

LEMMA ClientMessage == ClientMessages \subseteq SourceMessages
    BY RetainedAssumption DEF ClientMessages, SourceMessages

LEMMA Delivery ==
    ASSUME NEW m \in Messages, NEW b \in BOOLEAN
    PROVE  /\ AsDelivered(m, b) \in Messages
           /\ m \in SourceMessages => AsDelivered(m, b) \in SourceMessages
           /\ AsDelivered(m, b).topic = m.topic
           /\ AsDelivered(m, b).retain = b
<1> DEFINE q == IF m.qos < SubscribeQoS THEN m.qos ELSE SubscribeQoS
<1>1. q \in 0..2
    BY MessageOn DEF SubscribeQoS
<1>2. AsDelivered(m, b) = [m EXCEPT !.qos = q, !.retain = b]
    BY DEF AsDelivered
<1> HIDE DEF q
<1>3. CASE m \in SourceMessages
    BY <1>1, <1>2, <1>3 DEF SourceMessages, Messages
<1>4. CASE m \in OutputMessages
    <2>1. /\ AsDelivered(m, b) \in OutputMessages
          /\ AsDelivered(m, b).topic = m.topic /\ AsDelivered(m, b).retain = b
        BY <1>1, <1>2, <1>4 DEF OutputMessages
    <2>2. m.topic \notin Sources
        BY <1>4, OutputTopicsApart DEF OutputMessages
    <2>3. m \notin SourceMessages
        BY <2>2 DEF SourceMessages
    <2> QED
        BY <2>1, <2>3 DEF Messages
<1> QED
    BY <1>3, <1>4 DEF Messages

\* Whatever the decoder does, its answer is on one of two topics and has the
\* QoS and the flag of the message.
LEMMA Answer ==
    ASSUME NEW d, NEW m
    PROVE  /\ AnswerTo(d, m).topic \in AnswerTopics(m.topic)
           /\ AnswerTo(d, m) = [topic |-> AnswerTo(d, m).topic, qos |-> m.qos,
                                retain |-> m.retain, payload |-> AnswerTo(d, m).payload]
<1> DEFINE decoded == Decode(d, m.payload)
           report == ErrorPublish(m, ErrorReport(decoded.result, m.payload))
<1>1. \A x : {x} # {} /\ (CHOOSE y \in {x} : TRUE) = x
    OBVIOUS
<1>2. CASE decoded.result = "Ok"
    <2>1. AnswerTo(d, m) = Resolved(Plainly(decoded.payload), m)
        BY <1>2 DEF AnswerTo
    <2> QED
        BY <2>1 DEF Resolved, Plainly, Or, AnswerTopics
<1>3. CASE decoded.result # "Ok"
    <2>1. AnswerTo(d, m) = Resolved(report, m)
        BY <1>3 DEF AnswerTo
    <2>2. report.topic = {ErrorTopic(m.topic)} /\ report.qos = {} /\ report.retain = {}
        BY DEF ErrorPublish, Plainly
    <2>3. Or(report.topic, DecodedTopic(m.topic)) = ErrorTopic(m.topic)
        BY <1>1, <2>2 DEF Or
    <2> QED
        BY <2>1, <2>2, <2>3 DEF Resolved, Or, AnswerTopics
<1> QED
    BY <1>2, <1>3

LEMMA AnswerIsOutput ==
    ASSUME NEW m \in SourceMessages
    PROVE  AnswerTo(DecoderFor(m.topic), m) \in OutputMessages
<1> DEFINE a == AnswerTo(DecoderFor(m.topic), m)
<1>1. m.topic \in Sources /\ m.qos \in 0..2 /\ m.retain \in BOOLEAN
    BY DEF SourceMessages
<1>2. a.payload \in OutputPayloads
    BY DEF OutputPayloads
<1>3. a.topic \in OutputTopics
    BY <1>1, Answer, OutputTopic
<1>4. a = [topic |-> a.topic, qos |-> m.qos, retain |-> m.retain, payload |-> a.payload]
    BY Answer
<1> HIDE DEF a
<1>5. a \in OutputMessages
    BY <1>1, <1>2, <1>3, <1>4 DEF OutputMessages
<1> QED
    BY <1>5 DEF a

\* The answer to a retained message.
LEMMA MirrorOf ==
    ASSUME NEW m \in SourceMessages
    PROVE  /\ Mirror(m) \in OutputMessages
           /\ Mirror(m).topic \in AnswerTopics(m.topic)
           /\ Mirror(m).retain = TRUE
           /\ Mirror(m) = AnswerTo(DecoderFor(m.topic), AsDelivered(m, TRUE))
<1> DEFINE r == AsDelivered(m, TRUE)
<1>1. r \in SourceMessages /\ r.topic = m.topic /\ r.retain = TRUE
    BY Delivery DEF Messages
<1>2. Mirror(m) = AnswerTo(DecoderFor(r.topic), r)
    BY <1>1 DEF Mirror
<1> HIDE DEF r
<1>3. Mirror(m) \in OutputMessages
    BY <1>1, <1>2, AnswerIsOutput
<1>4. Mirror(m).topic \in AnswerTopics(m.topic)
    BY <1>1, <1>2, Answer
<1>5. Mirror(m).retain = TRUE
    <2> DEFINE a == AnswerTo(DecoderFor(r.topic), r)
    <2>1. a = [topic |-> a.topic, qos |-> r.qos, retain |-> r.retain, payload |-> a.payload]
        BY Answer
    <2> HIDE DEF a
    <2>2. a.retain = TRUE
        BY <1>1, <2>1
    <2> QED
        BY <1>2, <2>2 DEF a
<1> QED
    BY <1>1, <1>2, <1>3, <1>4, <1>5 DEF r
----------------------------------------------------------------------------
(* The inductive invariant *)

\* What the broker retains: non-empty messages of ours and of others.
StoreInv ==
    /\ IsFiniteSet(DOMAIN store)
    /\ \A t \in DOMAIN store :
          /\ store[t] \in Messages
          /\ store[t].topic = t /\ store[t].retain /\ ~store[t].payload.empty

SubscribeRequest(f) == [kind |-> "subscribe", filter |-> f]
PublishRequest(p) == [kind |-> "publish", message |-> p]

RequestType == [kind : {"subscribe"}, filter : Range(Filters)]
                \cup [kind : {"publish"}, message : OutputMessages]

\* Only messages of others are decoded, and only their answers are published.
FlowInv ==
    /\ requests \in Seq(RequestType)
    /\ incoming \in Seq(Messages)
    /\ decoding \in Seq(SourceMessages)
    /\ \A m \in Range(decoding) : ~Ignored(m.topic)
    /\ Len(decoding) <= MaxConcurrent
    /\ subscribed \subseteq Range(Filters)
    /\ ~up => subscribed = {} /\ requests = << >> /\ incoming = << >> /\ decoding = << >>
    /\ once \subseteq ClientMessages
    /\ publishes \in 0..MaxPublishes /\ runs \in 0..MaxRuns

\* What is under way, as sets.
Asked == {f \in Range(Filters) : SubscribeRequest(f) \in Range(requests)}
Delivered == Range(incoming) \cup Range(decoding)
Answers == {p \in OutputMessages : PublishRequest(p) \in Range(requests)}

\* A retained message on its way is the one the broker has, unless that changed
\* since the program subscribed.
Fresh(r) ==
    r.topic \in Sources /\ r.retain =>
        /\ Covering(r.topic) # {}
        /\ \E m \in once : r = AsDelivered(m, TRUE)
        /\ r.topic \notin changed =>
              r.topic \in DOMAIN store /\ r = AsDelivered(store[r.topic], TRUE)

\* So is its answer, of that message.
FreshAnswer(p) ==
    \E s \in Sources :
        /\ p.topic \in AnswerTopics(s)
        /\ Decodable(s)
        /\ p.retain =>
              /\ Covering(s) # {}
              /\ \E m \in once : m.topic = s /\ p = Mirror(m)
              /\ s \notin changed => s \in DOMAIN store /\ p = Mirror(store[s])

FreshInv ==
    /\ \A r \in Delivered : Fresh(r)
    /\ \A p \in Answers : FreshAnswer(p)
    /\ \A t \in DOMAIN store \cap Sources : store[t] \in once
    /\ RetainedFromRetained

\* The retained message of t has its answer.
Mirrored(t) ==
    LET answer == Mirror(store[t])
    IN  IF answer.payload.empty THEN answer.topic \notin DOMAIN store
        ELSE answer.topic \in DOMAIN store /\ store[answer.topic] = answer

\* It has, or the answer is on its way: the subscription, the message or the
\* answer itself.
Underway(t) ==
    \/ \E f \in Asked : Matches(f, t)
    \/ AsDelivered(store[t], TRUE) \in Delivered
    \/ Mirror(store[t]) \in Answers
    \/ Mirrored(t)

MirrorInv ==
    up =>
        /\ Range(Filters) \subseteq subscribed \cup Asked
        /\ \A t \in DOMAIN store \cap Sources :
              Decodable(t) /\ t \notin changed => Underway(t)

RetainedInv == StoreInv /\ FlowInv /\ FreshInv /\ MirrorInv

----------------------------------------------------------------------------
(* What the steps have in common *)

\* A step leaves what is retained on t as it is.
Steady(t) ==
    /\ t \in DOMAIN store' <=> t \in DOMAIN store
    /\ t \in DOMAIN store => store'[t] = store[t]

LEMMA StoredAt ==
    ASSUME StoreInv, NEW m \in Messages, store' = Stored(m)
    PROVE  /\ StoreInv'
           /\ ~m.retain => store' = store
           /\ \A t : t # m.topic => Steady(t)
           /\ m.retain =>
                 IF m.payload.empty THEN m.topic \notin DOMAIN store'
                 ELSE m.topic \in DOMAIN store' /\ store'[m.topic] = m
<1> DEFINE K == DOMAIN store \ {m.topic}
           D == K \cup (IF m.payload.empty THEN {} ELSE {m.topic})
<1>1. CASE ~m.retain
    BY <1>1 DEF Stored, Steady, StoreInv
<1>2. CASE m.retain
    <2>1. store' = [t \in D |-> IF t = m.topic THEN m ELSE store[t]]
        BY <1>2 DEF Stored
    <2>2. DOMAIN store' = D /\ \A t \in D : store'[t] = IF t = m.topic THEN m ELSE store[t]
        BY <2>1
    <2>3. IsFiniteSet(D)
        <3>1. IsFiniteSet(K)
            BY FS_RemoveElement DEF StoreInv
        <3>2. IsFiniteSet(K \cup {m.topic})
            BY <3>1, FS_AddElement
        <3> QED
            BY <3>1, <3>2
    <2>4. \A t \in D : t # m.topic => t \in DOMAIN store
        OBVIOUS
    <2>5. m.topic \in D <=> ~m.payload.empty
        OBVIOUS
    <2>6. \A t : t # m.topic => Steady(t)
        BY <2>2 DEF Steady
    <2>7. IF m.payload.empty THEN m.topic \notin DOMAIN store'
          ELSE m.topic \in DOMAIN store' /\ store'[m.topic] = m
        BY <2>2, <2>5
    <2> HIDE DEF D, K
    <2>8. StoreInv'
        <3>1. ASSUME NEW t \in D
              PROVE  /\ store'[t] \in Messages
                     /\ store'[t].topic = t /\ store'[t].retain /\ ~store'[t].payload.empty
            <4>1. CASE t = m.topic
                BY <1>2, <2>2, <2>5, <4>1
            <4>2. CASE t # m.topic
                BY <2>2, <2>4, <4>2 DEF StoreInv
            <4> QED
                BY <4>1, <4>2
        <3> QED
            BY <2>2, <2>3, <3>1 DEF StoreInv
    <2> QED
        BY <1>2, <2>6, <2>7, <2>8
<1> QED
    BY <1>1, <1>2

LEMMA FiniteFilters == IsFiniteSet(Range(Filters))
<1>1. DOMAIN Filters = 1..Len(Filters) /\ Len(Filters) \in Nat
    BY RetainedAssumption
<1>2. IsFiniteSet(DOMAIN Filters)
    BY <1>1, FS_Interval
<1>3. Filters \in [DOMAIN Filters -> Range(Filters)]
    BY RetainedAssumption DEF Range
<1>4. Filters \in Surjection(DOMAIN Filters, Range(Filters))
    BY <1>3 DEF Surjection, Range
<1> QED
    BY <1>2, <1>4, FS_Surjection

\* The copies of a live message do not have the retain flag.
LEMMA ForwardCopies ==
    ASSUME FlowInv, NEW m \in Messages, Forward(m)
    PROVE  /\ incoming' \in Seq(Messages)
           /\ Range(incoming) \subseteq Range(incoming')
           /\ Range(incoming') \subseteq Range(incoming) \cup {AsDelivered(m, FALSE)}
           /\ Covering(m.topic) = {} => incoming' = incoming
<1> DEFINE x == AsDelivered(m, FALSE)
<1>1. PICK n \in Copies(m.topic) : incoming' = incoming \o [i \in 1..n |-> x]
    BY DEF Forward
<1>2. x \in Messages
    BY Delivery
<1>3. n \in Nat /\ (Covering(m.topic) = {} => n = 0)
    <2>1. IsFiniteSet(Covering(m.topic))
        BY FiniteFilters, FS_Subset DEF FlowInv, Covering
    <2>2. Cardinality(Covering(m.topic)) \in Nat
        BY <2>1, FS_CardinalityType
    <2> QED
        BY <2>2 DEF Copies
<1> HIDE DEF x
<1> DEFINE c == [i \in 1..n |-> x]
<1>4. c \in Seq(Messages) /\ Len(c) = n /\ Range(c) \subseteq {x}
    BY <1>2, <1>3 DEF Range
<1> HIDE DEF c
<1>5. incoming \in Seq(Messages) /\ incoming' = incoming \o c
    BY <1>1 DEF FlowInv, c
<1>6. incoming' \in Seq(Messages) /\ Range(incoming') = Range(incoming) \cup Range(c)
    BY <1>4, <1>5, ConcatProperties, RangeConcatenation
<1>7. n = 0 => incoming' = incoming
    BY <1>4, <1>5, EmptySeq, ConcatEmptySeq
<1> QED
    BY <1>3, <1>4, <1>6, <1>7 DEF x

\* While the session and the history only grow, and what changes was covered
\* or is not, what was fresh is.
LEMMA FreshStays ==
    ASSUME once \subseteq once', subscribed \subseteq subscribed', changed \subseteq changed',
           \A s \in Sources : s \in changed' \/ Covering(s) = {} \/ Steady(s)
    PROVE  /\ \A r : Fresh(r) => Fresh(r)'
           /\ \A p : FreshAnswer(p) => FreshAnswer(p)'
<1>1. \A s : Covering(s) # {} => Covering(s)' # {}
    BY DEF Covering
<1>2. ASSUME NEW r, Fresh(r) PROVE Fresh(r)'
    BY <1>1, <1>2 DEF Fresh, Steady
<1>3. ASSUME NEW p, FreshAnswer(p) PROVE FreshAnswer(p)'
    <2>1. PICK s \in Sources :
              /\ p.topic \in AnswerTopics(s)
              /\ Decodable(s)
              /\ p.retain =>
                    /\ Covering(s) # {}
                    /\ \E m \in once : m.topic = s /\ p = Mirror(m)
                    /\ s \notin changed => s \in DOMAIN store /\ p = Mirror(store[s])
        BY <1>3 DEF FreshAnswer
    <2>2. p.retain =>
              /\ Covering(s)' # {}
              /\ \E m \in once' : m.topic = s /\ p = Mirror(m)
              /\ s \notin changed' => s \in DOMAIN store' /\ p = Mirror(store'[s])
        BY <1>1, <2>1 DEF Steady
    <2> QED
        BY <2>1, <2>2 DEF FreshAnswer
<1> QED
    BY <1>2, <1>3

LEMMA MirroredStays ==
    ASSUME NEW t \in Sources, store[t] \in SourceMessages, store[t].topic = t,
           store'[t] = store[t], \A o \in AnswerTopics(t) : Steady(o), Mirrored(t)
    PROVE  Mirrored(t)'
<1>1. Mirror(store[t]).topic \in AnswerTopics(t)
    BY MirrorOf
<1> QED
    BY <1>1 DEF Mirrored, Steady

\* What is retained on a source is a message of others.
LEMMA SourceStored ==
    ASSUME StoreInv, NEW t \in DOMAIN store \cap Sources
    PROVE  store[t] \in SourceMessages /\ store[t].topic = t /\ store[t].retain = TRUE
    BY MessageOn DEF StoreInv, Messages

\* A source that can be decoded is under a filter.
LEMMA DecodableCovered ==
    ASSUME NEW t \in Sources, Decodable(t)
    PROVE  \E f \in Range(Filters) : Matches(f, t)
<1>1. PICK i \in Candidates(Entries, t) : TRUE
    BY DEF Decodable, Resolve
<1>2. i \in DOMAIN Entries /\ Matches(Entries[i].filter, t)
    BY DEF Candidates
<1> DEFINE ET == [filter : Range(Filters), decoder : DOMAIN DecoderConfigs]
<1>3. Entries \in Seq(ET)
    BY RetainedAssumption
<1> HIDE DEF ET
<1>4. Entries[i] \in ET
    BY <1>2, <1>3
<1>5. Entries[i].filter \in Range(Filters)
    BY <1>4 DEF ET
<1> QED
    BY <1>2, <1>5
----------------------------------------------------------------------------
(* The broker's steps *)

LEMMA RetainedInvInit == RetainedInit => RetainedInv
<1> SUFFICES ASSUME RetainedInit PROVE RetainedInv
    OBVIOUS
<1> USE DEF RetainedInit
<1>1. DOMAIN store = {} /\ Range(incoming) = {} /\ Range(decoding) = {} /\ Range(requests) = {}
    BY RangeEmpty
<1>2. StoreInv
    BY <1>1, FS_EmptySet DEF StoreInv
<1>3. FlowInv
    <2>1. Len(decoding) <= MaxConcurrent /\ 0 \in 0..MaxPublishes /\ 0 \in 0..MaxRuns
        BY RetainedAssumption
    <2> QED
        BY <1>1, <2>1 DEF FlowInv
<1>4. FreshInv
    BY <1>1 DEF FreshInv, Delivered, Answers, RetainedFromRetained
<1>5. MirrorInv
    BY <1>1 DEF MirrorInv
<1> QED
    BY <1>2, <1>3, <1>4, <1>5 DEF RetainedInv

\* What another client retains under a subscription is a change; without one,
\* the subscription that will bring it is still under way.
LEMMA ClientPublishesInv ==
    ASSUME RetainedInv, NEW m \in ClientMessages, ClientPublishes(m)
    PROVE  RetainedInv'
<1>1. /\ publishes < MaxPublishes /\ publishes' = publishes + 1
      /\ store' = Stored(m) /\ Forward(m)
      /\ once' = IF m.retain THEN once \cup {m} ELSE once
      /\ changed' = IF m.retain /\ Covering(m.topic) # {}
                    THEN changed \cup {m.topic} ELSE changed
      /\ UNCHANGED <<subscribed, up, requests, decoding, runs>>
    BY DEF ClientPublishes
<1>2. StoreInv /\ FlowInv /\ FreshInv /\ MirrorInv
    BY DEF RetainedInv
<1>3. m \in SourceMessages /\ m \in Messages /\ m.topic \in Sources /\ m.retain \in BOOLEAN
    BY ClientMessage DEF SourceMessages, Messages
<1>4. /\ StoreInv'
      /\ ~m.retain => store' = store
      /\ \A t : t # m.topic => Steady(t)
      /\ m.retain => IF m.payload.empty THEN m.topic \notin DOMAIN store'
                     ELSE m.topic \in DOMAIN store' /\ store'[m.topic] = m
    BY <1>1, <1>2, <1>3, StoredAt
<1>5. /\ incoming' \in Seq(Messages)
      /\ Range(incoming) \subseteq Range(incoming')
      /\ Range(incoming') \subseteq Range(incoming) \cup {AsDelivered(m, FALSE)}
      /\ Covering(m.topic) = {} => incoming' = incoming
    BY <1>1, <1>2, <1>3, ForwardCopies
<1>6. once \subseteq once' /\ changed \subseteq changed'
    BY <1>1
<1>7. FlowInv'
    <2>1. ~up => incoming' = << >>
        BY <1>2, <1>5 DEF FlowInv, Covering
    <2>2. publishes' \in 0..MaxPublishes
        BY <1>1, <1>2, RetainedAssumption DEF FlowInv
    <2>3. once' \subseteq ClientMessages
        BY <1>1, <1>2 DEF FlowInv
    <2> QED
        BY <1>1, <1>2, <1>5, <2>1, <2>2, <2>3 DEF FlowInv
<1>8. \A s \in Sources : s \in changed' \/ Covering(s) = {} \/ Steady(s)
    <2>1. ~m.retain => \A s : Steady(s)
        BY <1>4 DEF Steady
    <2> QED
        BY <1>1, <1>4, <2>1
<1>9. /\ \A r : Fresh(r) => Fresh(r)'
      /\ \A p : FreshAnswer(p) => FreshAnswer(p)'
    BY <1>1, <1>6, <1>8, FreshStays
<1>10. Asked' = Asked /\ Answers' = Answers
    BY <1>1 DEF Asked, Answers
<1>11. /\ Delivered \subseteq Delivered'
       /\ Delivered' \subseteq Delivered \cup {AsDelivered(m, FALSE)}
    BY <1>1, <1>5 DEF Delivered
<1>12. FreshInv'
    <2>1. \A r \in Delivered' : Fresh(r)'
        <3>1. AsDelivered(m, FALSE).retain = FALSE
            BY <1>3, Delivery
        <3>2. Fresh(AsDelivered(m, FALSE))'
            BY <3>1 DEF Fresh
        <3> QED
            BY <1>2, <1>9, <1>11, <3>2 DEF FreshInv
    <2>2. \A p \in Answers' : FreshAnswer(p)'
        BY <1>2, <1>9, <1>10 DEF FreshInv
    <2>3. \A t \in DOMAIN store' \cap Sources : store'[t] \in once'
        <3> SUFFICES ASSUME NEW t \in DOMAIN store' \cap Sources PROVE store'[t] \in once'
            OBVIOUS
        <3>1. CASE t = m.topic /\ m.retain
            BY <1>1, <1>4, <3>1
        <3>2. CASE t # m.topic \/ ~m.retain
            BY <1>2, <1>4, <1>6, <3>2 DEF Steady, FreshInv
        <3> QED
            BY <3>1, <3>2
    <2>4. RetainedFromRetained'
        <3> SUFFICES ASSUME NEW t \in DOMAIN store' \ Sources
                     PROVE  \E n \in once' : Decodable(n.topic) /\ store'[t] = Mirror(n)
            BY DEF RetainedFromRetained
        <3>1. Steady(t)
            BY <1>3, <1>4
        <3> QED
            BY <1>2, <1>6, <3>1 DEF Steady, FreshInv, RetainedFromRetained
    <2> QED
        BY <2>1, <2>2, <2>3, <2>4 DEF FreshInv
<1>13. MirrorInv'
    <2> SUFFICES ASSUME up
                 PROVE  /\ Range(Filters) \subseteq subscribed \cup Asked
                        /\ \A t \in DOMAIN store' \cap Sources :
                              Decodable(t) /\ t \notin changed' => Underway(t)'
        BY <1>1, <1>10 DEF MirrorInv
    <2>1. Range(Filters) \subseteq subscribed \cup Asked
        BY <1>2 DEF MirrorInv
    <2>2. ASSUME NEW t \in DOMAIN store' \cap Sources, Decodable(t), t \notin changed'
          PROVE  Underway(t)'
        <3>1. CASE t = m.topic /\ m.retain
            <4>1. Covering(t) = {}
                BY <1>1, <2>2, <3>1
            <4>2. PICK f \in Range(Filters) : Matches(f, t)
                BY <2>2, DecodableCovered
            <4>3. f \in Asked
                BY <2>1, <4>1, <4>2 DEF Covering
            <4> QED
                BY <1>10, <4>2, <4>3 DEF Underway
        <3>2. CASE t # m.topic \/ ~m.retain
            <4>1. Steady(t)
                BY <1>4, <3>2 DEF Steady
            <4>2. t \in DOMAIN store \cap Sources /\ t \notin changed /\ store'[t] = store[t]
                BY <1>6, <2>2, <4>1 DEF Steady
            <4>3. Underway(t)
                BY <1>2, <2>2, <4>2 DEF MirrorInv
            <4>4. Mirrored(t) => Mirrored(t)'
                <5>1. store[t] \in SourceMessages /\ store[t].topic = t
                    BY <1>2, <4>2, SourceStored
                <5>2. \A o \in AnswerTopics(t) : Steady(o)
                    BY <1>3, <1>4, OutputTopic
                <5> QED
                    BY <4>2, <5>1, <5>2, MirroredStays
            <4> QED
                BY <1>10, <1>11, <4>2, <4>3, <4>4 DEF Underway
        <3> QED
            BY <3>1, <3>2
    <2> QED
        BY <2>1, <2>2
<1> QED
    BY <1>4, <1>7, <1>12, <1>13 DEF RetainedInv

\* A subscription turns into the messages retained under it.
LEMMA PollSubscribeInv ==
    ASSUME RetainedInv, PollSubscribe
    PROVE  RetainedInv'
<1>1. StoreInv /\ FlowInv /\ FreshInv /\ MirrorInv
    BY DEF RetainedInv
<1> DEFINE f == Head(requests).filter
           S == {t \in DOMAIN store : Matches(f, t)}
<1>2. PICK topics \in SetToSeqs(S) :
         /\ requests # << >> /\ Head(requests).kind = "subscribe"
         /\ subscribed' = subscribed \cup {f}
         /\ incoming' = incoming \o [i \in DOMAIN topics |-> AsDelivered(store[topics[i]], TRUE)]
         /\ requests' = Tail(requests)
         /\ UNCHANGED <<store, up, decoding, publishes, runs, once, changed>>
    BY DEF PollSubscribe, history
<1>3. Head(requests) \in RequestType
    BY <1>1, <1>2, RangeTail DEF FlowInv
<1>4. f \in Range(Filters) /\ Head(requests) = SubscribeRequest(f)
    BY <1>2, <1>3 DEF RequestType, SubscribeRequest
<1>5. /\ requests' \in Seq(RequestType)
      /\ Range(requests) = {SubscribeRequest(f)} \cup Range(requests')
    BY <1>1, <1>2, <1>4, RangeTail DEF FlowInv
<1>6. \A g \in Range(Filters) : g \in Asked => g = f \/ g \in Asked'
    BY <1>5 DEF Asked, SubscribeRequest
<1>7. Answers' = Answers
    BY <1>5 DEF Answers, SubscribeRequest, PublishRequest
<1> DEFINE c == [i \in DOMAIN topics |-> AsDelivered(store[topics[i]], TRUE)]
           D == {AsDelivered(store[t], TRUE) : t \in S}
<1>8. c \in Seq(Messages) /\ Range(c) = D
    <2>1. IsFiniteSet(S)
        BY <1>1, FS_Subset DEF StoreInv
    <2>2. Len(topics) \in Nat /\ DOMAIN topics = 1..Len(topics) /\ Range(topics) = S
        BY <2>1, RangeOfSetToSeqs
    <2>3. \A t \in S : AsDelivered(store[t], TRUE) \in Messages
        BY <1>1, Delivery DEF StoreInv
    <2>4. /\ \A i \in DOMAIN topics : topics[i] \in S
          /\ \A t \in S : \E i \in DOMAIN topics : topics[i] = t
        BY <2>2 DEF Range
    <2> HIDE DEF S
    <2>5. DOMAIN c = DOMAIN topics /\ c \in [DOMAIN topics -> Messages]
        BY <2>3, <2>4
    <2>6. \A i \in DOMAIN topics : c[i] = AsDelivered(store[topics[i]], TRUE)
        OBVIOUS
    <2> HIDE DEF c
    <2>7. c \in Seq(Messages)
        BY <2>2, <2>5, SeqDef
    <2>8. ASSUME NEW x \in Range(c) PROVE x \in D
        <3>1. PICK i \in DOMAIN topics : x = c[i]
            BY <2>5 DEF Range
        <3>2. x = AsDelivered(store[topics[i]], TRUE) /\ topics[i] \in S
            BY <2>4, <2>6, <3>1
        <3> QED
            BY <3>2
    <2>9. ASSUME NEW t \in S PROVE AsDelivered(store[t], TRUE) \in Range(c)
        <3>1. PICK i \in DOMAIN topics : topics[i] = t
            BY <2>4
        <3> QED
            BY <2>5, <2>6, <3>1 DEF Range
    <2> QED
        BY <2>7, <2>8, <2>9
<1> HIDE DEF c, D, S, f
<1>9. incoming \in Seq(Messages) /\ incoming' = incoming \o c
    BY <1>1, <1>2 DEF FlowInv, c
<1>10. incoming' \in Seq(Messages) /\ Range(incoming') = Range(incoming) \cup D
    BY <1>8, <1>9, ConcatProperties, RangeConcatenation
<1>11. Delivered' = Delivered \cup D
    BY <1>2, <1>10 DEF Delivered
<1>12. StoreInv'
    BY <1>1, <1>2 DEF StoreInv
<1>13. FlowInv'
    <2>1. up
        BY <1>1, <1>2 DEF FlowInv
    <2> QED
        BY <1>1, <1>2, <1>4, <1>5, <1>10, <2>1 DEF FlowInv
<1>14. FreshInv'
    <2>1. \A s \in Sources : Steady(s)
        BY <1>2 DEF Steady
    <2>2. /\ \A r : Fresh(r) => Fresh(r)'
          /\ \A p : FreshAnswer(p) => FreshAnswer(p)'
        BY <1>2, <2>1, FreshStays
    <2>3. ASSUME NEW r \in D PROVE Fresh(r)'
        <3>1. PICK t \in S : r = AsDelivered(store[t], TRUE)
            BY DEF D
        <3>2. t \in DOMAIN store /\ Matches(f, t) /\ store[t] \in Messages /\ store[t].topic = t
            BY <1>1 DEF S, StoreInv
        <3>3. r.topic = t
            BY <3>1, <3>2, Delivery
        <3>4. t \in Sources => store[t] \in once
            BY <1>1, <3>2 DEF FreshInv
        <3>5. Covering(t)' # {}
            BY <1>2, <3>2 DEF Covering
        <3> QED
            BY <1>2, <3>1, <3>2, <3>3, <3>4, <3>5 DEF Fresh
    <2>4. RetainedFromRetained'
        BY <1>1, <1>2 DEF FreshInv, RetainedFromRetained
    <2> QED
        BY <1>1, <1>2, <1>7, <1>11, <2>2, <2>3, <2>4 DEF FreshInv
<1>15. MirrorInv'
    <2> SUFFICES ASSUME up
                 PROVE  /\ Range(Filters) \subseteq subscribed' \cup Asked'
                        /\ \A t \in DOMAIN store \cap Sources :
                              Decodable(t) /\ t \notin changed => Underway(t)'
        BY <1>2 DEF MirrorInv
    <2>1. Range(Filters) \subseteq subscribed' \cup Asked'
        BY <1>1, <1>2, <1>6 DEF MirrorInv
    <2>2. ASSUME NEW t \in DOMAIN store \cap Sources, Decodable(t), t \notin changed
          PROVE  Underway(t)'
        <3>1. Underway(t)
            BY <1>1, <2>2 DEF MirrorInv
        <3>2. CASE \E g \in Asked : Matches(g, t)
            <4>1. PICK g \in Asked : Matches(g, t)
                BY <3>2
            <4>2. CASE g = f
                <5>1. AsDelivered(store[t], TRUE) \in D
                    BY <4>1, <4>2 DEF D, S
                <5> QED
                    BY <1>2, <1>11, <5>1 DEF Underway
            <4>3. CASE g # f
                BY <1>6, <4>1, <4>3 DEF Underway, Asked
            <4> QED
                BY <4>2, <4>3
        <3>3. CASE AsDelivered(store[t], TRUE) \in Delivered \/ Mirror(store[t]) \in Answers
            BY <1>2, <1>7, <1>11, <3>3 DEF Underway
        <3>4. CASE Mirrored(t)
            BY <1>2, <3>4 DEF Underway, Mirrored
        <3> QED
            BY <3>1, <3>2, <3>3, <3>4 DEF Underway
    <2> QED
        BY <2>1, <2>2
<1> QED
    BY <1>12, <1>13, <1>14, <1>15 DEF RetainedInv

LEMMA PollPublishInv ==
    ASSUME RetainedInv, PollPublish
    PROVE  RetainedInv'
<1>1. StoreInv /\ FlowInv /\ FreshInv /\ MirrorInv
    BY DEF RetainedInv
<1>0. PICK p : p = Head(requests).message
    OBVIOUS
<1>2. /\ requests # << >> /\ Head(requests).kind = "publish"
      /\ store' = Stored(p) /\ Forward(p)
      /\ requests' = Tail(requests)
      /\ UNCHANGED <<subscribed, up, decoding, publishes, runs, once, changed>>
    BY <1>0 DEF PollPublish, history
<1>3. Head(requests) \in RequestType
    BY <1>1, <1>2, RangeTail DEF FlowInv
<1>4. p \in OutputMessages /\ Head(requests) = PublishRequest(p)
    BY <1>0, <1>2, <1>3 DEF RequestType, PublishRequest
<1>5. /\ requests' \in Seq(RequestType)
      /\ Range(requests) = {PublishRequest(p)} \cup Range(requests')
    BY <1>1, <1>2, <1>4, RangeTail DEF FlowInv
<1>6. Asked' = Asked
    BY <1>5 DEF Asked, SubscribeRequest, PublishRequest
<1>7. /\ p \in Answers /\ Answers' \subseteq Answers
      /\ \A a \in Answers : a = p \/ a \in Answers'
    BY <1>4, <1>5 DEF Answers, PublishRequest
<1>8. /\ p \in Messages /\ p.topic \in OutputTopics /\ p.topic \notin Sources
      /\ p.retain \in BOOLEAN
    BY <1>4, OutputTopicsApart DEF OutputMessages, Messages
<1>9. /\ StoreInv'
      /\ ~p.retain => store' = store
      /\ \A t : t # p.topic => Steady(t)
      /\ p.retain => IF p.payload.empty THEN p.topic \notin DOMAIN store'
                     ELSE p.topic \in DOMAIN store' /\ store'[p.topic] = p
    BY <1>1, <1>2, <1>8, StoredAt
<1>10. /\ incoming' \in Seq(Messages)
       /\ Range(incoming) \subseteq Range(incoming')
       /\ Range(incoming') \subseteq Range(incoming) \cup {AsDelivered(p, FALSE)}
    BY <1>1, <1>2, <1>8, ForwardCopies
<1>11. /\ Delivered \subseteq Delivered'
       /\ Delivered' \subseteq Delivered \cup {AsDelivered(p, FALSE)}
    BY <1>2, <1>10 DEF Delivered
<1>12. PICK s \in Sources :
          /\ p.topic \in AnswerTopics(s)
          /\ Decodable(s)
          /\ p.retain =>
                /\ \E m \in once : m.topic = s /\ p = Mirror(m)
                /\ s \notin changed => s \in DOMAIN store /\ p = Mirror(store[s])
    BY <1>1, <1>7 DEF FreshInv, FreshAnswer
<1>13. FlowInv'
    <2>1. up
        BY <1>1, <1>2 DEF FlowInv
    <2> QED
        BY <1>1, <1>2, <1>5, <1>10, <2>1 DEF FlowInv
<1>14. \A t \in Sources : Steady(t)
    BY <1>8, <1>9
<1>15. FreshInv'
    <2>1. /\ \A r : Fresh(r) => Fresh(r)'
          /\ \A a : FreshAnswer(a) => FreshAnswer(a)'
        BY <1>2, <1>14, FreshStays
    <2> PICK x : x = AsDelivered(p, FALSE)
        OBVIOUS
    <2>2. Fresh(x)'
        <3>1. x.retain = FALSE
            BY <1>8, Delivery
        <3> QED
            BY <3>1 DEF Fresh
    <2>3. \A t \in DOMAIN store' \cap Sources : store'[t] \in once'
        BY <1>1, <1>2, <1>14 DEF Steady, FreshInv
    <2>4. RetainedFromRetained'
        <3> SUFFICES ASSUME NEW t \in DOMAIN store' \ Sources
                     PROVE  \E m \in once : Decodable(m.topic) /\ store'[t] = Mirror(m)
            BY <1>2 DEF RetainedFromRetained
        <3>1. CASE t = p.topic /\ p.retain
            <4>1. store'[t] = p
                BY <1>9, <3>1
            <4> QED
                BY <1>12, <3>1, <4>1
        <3>2. CASE t # p.topic \/ ~p.retain
            <4>1. Steady(t)
                BY <1>9, <3>2 DEF Steady
            <4> QED
                BY <1>1, <4>1 DEF Steady, FreshInv, RetainedFromRetained
        <3> QED
            BY <3>1, <3>2
    <2> QED
        BY <1>1, <1>7, <1>11, <2>1, <2>2, <2>3, <2>4 DEF FreshInv
<1>16. MirrorInv'
    <2> SUFFICES ASSUME up, NEW t \in DOMAIN store' \cap Sources, Decodable(t), t \notin changed
                 PROVE  Underway(t)'
        BY <1>1, <1>2, <1>6 DEF MirrorInv
    <2>1. t \in DOMAIN store \cap Sources /\ store'[t] = store[t]
        BY <1>14 DEF Steady
    <2>2. Underway(t)
        BY <1>1, <2>1 DEF MirrorInv
    <2>3. store[t] \in SourceMessages /\ store[t].topic = t
        BY <1>1, <2>1, SourceStored
    <2>4. Mirror(store[t]).topic \in AnswerTopics(t) /\ Mirror(store[t]).retain = TRUE
        BY <2>3, MirrorOf
    <2>5. p = Mirror(store[t]) => Mirrored(t)'
        BY <1>9, <2>1, <2>4 DEF Mirrored
    <2>6. CASE \E f \in Asked : Matches(f, t)
        BY <1>6, <2>6 DEF Underway
    <2>7. CASE AsDelivered(store[t], TRUE) \in Delivered
        BY <1>11, <2>1, <2>7 DEF Underway
    <2>8. CASE Mirror(store[t]) \in Answers
        BY <1>7, <2>1, <2>5, <2>8 DEF Underway
    <2>9. CASE Mirrored(t)
        <3>1. CASE p.retain /\ p.topic \in AnswerTopics(t)
            <4>1. s = t
                BY <1>12, <3>1, SameSource
            <4> QED
                BY <1>12, <2>5, <3>1, <4>1 DEF Underway
        <3>2. CASE ~(p.retain /\ p.topic \in AnswerTopics(t))
            <4>1. \A o \in AnswerTopics(t) : Steady(o)
                BY <1>9, <3>2 DEF Steady
            <4>2. Mirrored(t)'
                BY <2>1, <2>3, <2>9, <4>1, MirroredStays
            <4> QED
                BY <4>2 DEF Underway
        <3> QED
            BY <3>1, <3>2
    <2> QED
        BY <2>2, <2>6, <2>7, <2>8, <2>9 DEF Underway
<1> QED
    BY <1>9, <1>13, <1>15, <1>16 DEF RetainedInv

----------------------------------------------------------------------------
(* The program's steps *)

\* A new run subscribes to everything, and has seen no change yet.
LEMMA StartInv ==
    ASSUME RetainedInv, Start
    PROVE  RetainedInv'
<1>1. StoreInv /\ FlowInv /\ FreshInv
    BY DEF RetainedInv
<1>2. /\ ~up /\ up' = TRUE /\ runs < MaxRuns /\ runs' = runs + 1 /\ changed' = {}
      /\ requests' = [i \in DOMAIN Filters |-> SubscribeRequest(Filters[i])]
      /\ UNCHANGED <<store, subscribed, incoming, decoding, publishes, once>>
    BY DEF Start, SubscribeRequest
<1>3. DOMAIN Filters = 1..Len(Filters) /\ Len(Filters) \in Nat
    BY RetainedAssumption
<1>4. requests' \in [1..Len(Filters) -> RequestType]
    BY <1>2, <1>3 DEF SubscribeRequest, RequestType, Range
<1>5. requests' \in Seq(RequestType)
    BY <1>3, <1>4, SeqDef
<1>6. Range(requests') = {SubscribeRequest(f) : f \in Range(Filters)}
    BY <1>2 DEF Range
<1>7. Asked' = Range(Filters) /\ Answers' = {}
    BY <1>6 DEF Asked, Answers, SubscribeRequest, PublishRequest
<1>8. Delivered' = {}
    BY <1>1, <1>2, RangeEmpty DEF FlowInv, Delivered
<1>9. StoreInv'
    BY <1>1, <1>2 DEF StoreInv
<1>10. FlowInv'
    <2>1. runs' \in 0..MaxRuns
        BY <1>1, <1>2, RetainedAssumption DEF FlowInv
    <2> QED
        BY <1>1, <1>2, <1>5, <2>1 DEF FlowInv
<1>11. FreshInv'
    BY <1>1, <1>2, <1>7, <1>8 DEF FreshInv, RetainedFromRetained
<1>12. MirrorInv'
    <2>1. ASSUME NEW t \in Sources, Decodable(t) PROVE Underway(t)'
        BY <1>7, <2>1, DecodableCovered DEF Underway
    <2> QED
        BY <1>7, <2>1 DEF MirrorInv
<1> QED
    BY <1>9, <1>10, <1>11, <1>12 DEF RetainedInv

\* Only what nobody would decode is dropped.
LEMMA HandleIncomingInv ==
    ASSUME RetainedInv, HandleIncoming
    PROVE  RetainedInv'
<1>1. StoreInv /\ FlowInv /\ FreshInv /\ MirrorInv
    BY DEF RetainedInv
<1> DEFINE r == Head(incoming)
<1>2. /\ incoming # << >> /\ Len(decoding) < MaxConcurrent
      /\ incoming' = Tail(incoming)
      /\ decoding' = IF Ignored(r.topic) THEN decoding ELSE Append(decoding, r)
      /\ UNCHANGED <<store, subscribed, up, requests, publishes, runs, once, changed>>
    BY DEF HandleIncoming, history
<1>3. /\ r \in Messages /\ incoming' \in Seq(Messages)
      /\ Range(incoming) = {r} \cup Range(incoming')
    BY <1>1, <1>2, RangeTail DEF FlowInv
<1> HIDE DEF r
<1>4. ~Ignored(r.topic) => r \in SourceMessages
    BY <1>3, OutputTopicsApart DEF Messages, OutputMessages, Ignored
<1>5. /\ decoding' \in Seq(SourceMessages) /\ Len(decoding') <= MaxConcurrent
      /\ \A m \in Range(decoding') : ~Ignored(m.topic)
      /\ Range(decoding') = IF Ignored(r.topic) THEN Range(decoding) ELSE Range(decoding) \cup {r}
    <2>1. CASE Ignored(r.topic)
        BY <1>1, <1>2, <2>1 DEF FlowInv
    <2>2. CASE ~Ignored(r.topic)
        <3>1. decoding' = Append(decoding, r) /\ decoding \in Seq(SourceMessages)
              /\ r \in SourceMessages
            BY <1>1, <1>2, <1>4, <2>2 DEF FlowInv
        <3>2. decoding' \in Seq(SourceMessages) /\ Range(decoding') = Range(decoding) \cup {r}
            BY <3>1, RangeAppend
        <3>3. Len(decoding') = Len(decoding) + 1 /\ Len(decoding) \in Nat
            BY <3>1
        <3>4. Len(decoding') <= MaxConcurrent
            BY <1>2, <3>3, RetainedAssumption
        <3> QED
            BY <1>1, <2>2, <3>2, <3>4 DEF FlowInv
    <2> QED
        BY <2>1, <2>2
<1>6. Asked' = Asked /\ Answers' = Answers
    BY <1>2 DEF Asked, Answers
<1>7. /\ Delivered' \subseteq Delivered
      /\ \A m \in Delivered : m \in Delivered' \/ Ignored(m.topic)
    BY <1>3, <1>5 DEF Delivered
<1>8. StoreInv'
    BY <1>1, <1>2 DEF StoreInv
<1>9. FlowInv'
    <2>1. up
        BY <1>1, <1>2 DEF FlowInv
    <2> QED
        BY <1>1, <1>2, <1>3, <1>5, <2>1 DEF FlowInv
<1>10. FreshInv'
    <2>1. \A s \in Sources : Steady(s)
        BY <1>2 DEF Steady
    <2>2. /\ \A m : Fresh(m) => Fresh(m)'
          /\ \A p : FreshAnswer(p) => FreshAnswer(p)'
        BY <1>2, <2>1, FreshStays
    <2> QED
        BY <1>1, <1>2, <1>6, <1>7, <2>2 DEF FreshInv, RetainedFromRetained
<1>11. MirrorInv'
    <2> SUFFICES ASSUME up, NEW t \in DOMAIN store \cap Sources, Decodable(t), t \notin changed
                 PROVE  Underway(t)'
        BY <1>1, <1>2, <1>6 DEF MirrorInv
    <2>1. Underway(t)
        BY <1>1 DEF MirrorInv
    <2>2. AsDelivered(store[t], TRUE).topic = t
        BY <1>1, Delivery DEF StoreInv
    <2>3. ~Ignored(t)
        BY RetainedAssumption DEF Decodable, Ignored
    <2>4. AsDelivered(store[t], TRUE) \in Delivered => AsDelivered(store[t], TRUE) \in Delivered'
        BY <1>7, <2>2, <2>3
    <2>5. Mirrored(t) => Mirrored(t)'
        BY <1>2 DEF Mirrored
    <2> QED
        BY <1>2, <1>6, <2>1, <2>4, <2>5 DEF Underway
<1> QED
    BY <1>8, <1>9, <1>10, <1>11 DEF RetainedInv

\* The answer takes the place of its message.
LEMMA DecodeAndPublishInv ==
    ASSUME RetainedInv, NEW i \in DOMAIN decoding, DecodeAndPublish(i)
    PROVE  RetainedInv'
<1>1. StoreInv /\ FlowInv /\ FreshInv /\ MirrorInv
    BY DEF RetainedInv
<1> DEFINE r == decoding[i]
           a == AnswerTo(DecoderFor(r.topic), r)
<1>2. /\ requests' = Append(requests, PublishRequest(a))
      /\ decoding' = RemoveAt(decoding, i)
      /\ UNCHANGED <<store, subscribed, up, incoming, publishes, runs, once, changed>>
    BY DEF DecodeAndPublish, history, PublishRequest
<1>3. decoding \in Seq(SourceMessages) /\ i \in 1..Len(decoding)
    BY <1>1 DEF FlowInv
<1>4. r \in SourceMessages /\ r \in Range(decoding)
    BY <1>3, RangeMember
<1>5. /\ decoding' \in Seq(SourceMessages) /\ Len(decoding') <= Len(decoding)
      /\ Range(decoding') \subseteq Range(decoding)
      /\ Range(decoding) \subseteq Range(decoding') \cup {r}
    BY <1>2, <1>3, RangeRemove
<1>6. a \in OutputMessages
    BY <1>4, AnswerIsOutput
<1>7. /\ a.topic \in AnswerTopics(r.topic)
      /\ a = [topic |-> a.topic, qos |-> r.qos, retain |-> r.retain, payload |-> a.payload]
    BY Answer
<1>8. r.topic \in Sources /\ ~Ignored(r.topic)
    BY <1>1, <1>4 DEF SourceMessages, FlowInv
<1> DEFINE q == PublishRequest(a)
<1> HIDE DEF r, a
<1>9. q \in RequestType
    BY <1>6 DEF RequestType, PublishRequest
<1> HIDE DEF q
<1>10. requests' \in Seq(RequestType) /\ Range(requests') = Range(requests) \cup {q}
    <2>1. requests \in Seq(RequestType) /\ requests' = Append(requests, q)
        BY <1>1, <1>2 DEF FlowInv, q, a, r
    <2> QED
        BY <1>9, <2>1, RangeAppend
<1>11. Asked' = Asked /\ Answers' = Answers \cup {a}
    BY <1>6, <1>10 DEF Asked, Answers, SubscribeRequest, PublishRequest, q
<1>12. /\ r \in Delivered /\ Delivered' \subseteq Delivered
       /\ \A m \in Delivered : m \in Delivered' \/ m = r
    BY <1>2, <1>4, <1>5 DEF Delivered
<1>13. StoreInv'
    BY <1>1, <1>2 DEF StoreInv
<1>14. FlowInv'
    <2>1. up
        BY <1>1 DEF FlowInv
    <2>2. Len(decoding') <= MaxConcurrent
        BY <1>1, <1>3, <1>5, RetainedAssumption DEF FlowInv
    <2> QED
        BY <1>1, <1>2, <1>5, <1>10, <2>1, <2>2 DEF FlowInv
<1>15. FreshInv'
    <2>1. \A s \in Sources : Steady(s)
        BY <1>2 DEF Steady
    <2>2. /\ \A m : Fresh(m) => Fresh(m)'
          /\ \A p : FreshAnswer(p) => FreshAnswer(p)'
        BY <1>2, <2>1, FreshStays
    <2>3. FreshAnswer(a)
        <3>1. a.retain = r.retain
            BY <1>7
        <3>2. Decodable(r.topic)
            BY <1>8 DEF Decodable, Ignored
        <3>3. ASSUME r.retain
              PROVE  /\ Covering(r.topic) # {}
                     /\ \E m \in once : m.topic = r.topic /\ a = Mirror(m)
                     /\ r.topic \notin changed =>
                           r.topic \in DOMAIN store /\ a = Mirror(store[r.topic])
            <4>1. Fresh(r)
                BY <1>1, <1>12 DEF FreshInv
            <4>2. /\ Covering(r.topic) # {}
                  /\ \E m \in once : r = AsDelivered(m, TRUE)
                  /\ r.topic \notin changed =>
                        r.topic \in DOMAIN store /\ r = AsDelivered(store[r.topic], TRUE)
                BY <1>8, <3>3, <4>1 DEF Fresh
            <4>3. ASSUME NEW m \in SourceMessages, r = AsDelivered(m, TRUE)
                  PROVE  m.topic = r.topic /\ a = Mirror(m)
                <5>1. m.topic = r.topic
                    BY <4>3, Delivery DEF Messages
                <5> QED
                    BY <4>3, <5>1 DEF Mirror, a
            <4>4. once \subseteq SourceMessages
                BY <1>1, ClientMessage DEF FlowInv
            <4>5. r.topic \in DOMAIN store => store[r.topic] \in SourceMessages
                BY <1>1, <1>8, SourceStored
            <4> QED
                BY <4>2, <4>3, <4>4, <4>5
        <3> QED
            BY <1>7, <1>8, <3>1, <3>2, <3>3 DEF FreshAnswer
    <2> QED
        BY <1>1, <1>2, <1>11, <1>12, <2>2, <2>3 DEF FreshInv, RetainedFromRetained
<1>16. MirrorInv'
    <2> SUFFICES ASSUME up, NEW t \in DOMAIN store \cap Sources, Decodable(t), t \notin changed
                 PROVE  Underway(t)'
        BY <1>1, <1>2, <1>11 DEF MirrorInv
    <2>1. Underway(t)
        BY <1>1 DEF MirrorInv
    <2>2. store[t] \in SourceMessages /\ store[t].topic = t
        BY <1>1, SourceStored
    <2>3. r = AsDelivered(store[t], TRUE) => a = Mirror(store[t])
        <3>1. AsDelivered(store[t], TRUE).topic = t
            BY <2>2, Delivery DEF Messages
        <3> QED
            BY <2>2, <3>1 DEF Mirror, a
    <2>4. Mirrored(t) => Mirrored(t)'
        BY <1>2 DEF Mirrored
    <2> QED
        BY <1>2, <1>11, <1>12, <2>1, <2>3, <2>4 DEF Underway
<1> QED
    BY <1>13, <1>14, <1>15, <1>16 DEF RetainedInv

\* A stop leaves nothing but what the broker retains.
LEMMA StopInv ==
    ASSUME RetainedInv, Stop
    PROVE  RetainedInv'
<1>1. /\ up' = FALSE /\ subscribed' = {}
      /\ requests' = << >> /\ incoming' = << >> /\ decoding' = << >>
      /\ UNCHANGED <<store, publishes, runs, once, changed>>
    BY DEF Stop, history
<1>2. Range(requests') = {} /\ Range(incoming') = {} /\ Range(decoding') = {}
    BY <1>1, RangeEmpty
<1>3. Delivered' = {} /\ Answers' = {}
    BY <1>2 DEF Delivered, Answers
<1>4. StoreInv'
    BY <1>1 DEF RetainedInv, StoreInv
<1>5. FlowInv'
    <2>1. Len(decoding') <= MaxConcurrent
        BY <1>1, RetainedAssumption
    <2> QED
        BY <1>1, <1>2, <2>1 DEF RetainedInv, FlowInv
<1>6. FreshInv'
    BY <1>1, <1>3 DEF RetainedInv, FreshInv, RetainedFromRetained
<1>7. MirrorInv'
    BY <1>1, Zenon DEF MirrorInv
<1> QED
    BY <1>4, <1>5, <1>6, <1>7 DEF RetainedInv

----------------------------------------------------------------------------
(* The theorems *)

\* Whatever other clients publish and however often the program stops, what is
\* retained and what is under way fit together.
THEOREM RetainedInductive == RetainedSpec => []RetainedInv
<1>1. RetainedInv /\ [RetainedNext]_retainedVars => RetainedInv'
    <2> SUFFICES ASSUME RetainedInv, [RetainedNext]_retainedVars PROVE RetainedInv'
        OBVIOUS
    <2>1. CASE UNCHANGED retainedVars
        <3>1. UNCHANGED <<store, subscribed, program, history>>
            BY <2>1 DEF retainedVars
        <3>2. StoreInv' /\ FlowInv'
            BY <3>1 DEF program, history, RetainedInv, StoreInv, FlowInv
        <3>3. Delivered' = Delivered /\ Answers' = Answers /\ Asked' = Asked
            BY <3>1 DEF program, Delivered, Answers, Asked
        <3>4. /\ \A r : Fresh(r)' <=> Fresh(r)
              /\ \A p : FreshAnswer(p)' <=> FreshAnswer(p)
            BY <3>1 DEF program, history, Fresh, FreshAnswer, Covering
        <3>5. FreshInv'
            BY <3>1, <3>3, <3>4 DEF history, RetainedInv, FreshInv, RetainedFromRetained
        <3>6. \A t : Underway(t)' <=> Underway(t)
            BY <3>1, <3>3 DEF Underway, Mirrored
        <3>7. MirrorInv'
            BY <3>1, <3>3, <3>6 DEF program, history, RetainedInv, MirrorInv
        <3> QED
            BY <3>2, <3>5, <3>7 DEF RetainedInv
    <2> QED
        BY <2>1, ClientPublishesInv, PollSubscribeInv, PollPublishInv, StartInv,
           HandleIncomingInv, DecodeAndPublishInv, StopInv DEF RetainedNext
<1> QED
    BY <1>1, RetainedInvInit, PTL DEF RetainedSpec

\* The broker keeps what it should, only messages somebody decodes are decoded,
\* and at most max_concurrent_decodes at a time (src/engine.rs:78-96).
THEOREM RetainedTypes == RetainedSpec => []RetainedTypeOK
<1>1. RetainedInv => RetainedTypeOK
    <2> SUFFICES ASSUME RetainedInv PROVE RetainedTypeOK
        OBVIOUS
    <2>1. StoreInv /\ FlowInv
        BY DEF RetainedInv
    <2>2. \A t \in DOMAIN store : store[t].qos \in 0..2
        BY <2>1, MessageOn DEF StoreInv
    <2>3. \A i \in DOMAIN decoding : decoding[i] \in Range(decoding)
        BY DEF Range
    <2> QED
        BY <2>1, <2>2, <2>3 DEF RetainedTypeOK, StoreInv, FlowInv
<1> QED
    BY <1>1, RetainedInductive, PTL

\* A retained output is the answer to a message that was retained on a source
\* (src/decoder/mod.rs:215): live traffic leaves no trace at the broker.
THEOREM RetainedSources == RetainedSpec => []RetainedFromRetained
<1>1. RetainedInv => RetainedFromRetained
    BY DEF RetainedInv, FreshInv
<1> QED
    BY <1>1, RetainedInductive, PTL

\* The broker retains nothing but sources and their immediate outputs: the
\* outputs of an earlier run are not decoded again (src/engine.rs:131).
THEOREM RetainedNoFeedback == RetainedSpec => []NoRetainedFeedback
<1>1. RetainedInv => NoRetainedFeedback
    <2> SUFFICES ASSUME RetainedInv, NEW t \in DOMAIN store PROVE t \in Sources \cup OutputTopics
        BY DEF NoRetainedFeedback, OutputTopics
    <2>1. store[t] \in Messages /\ store[t].topic = t
        BY DEF RetainedInv, StoreInv
    <2> QED
        BY <2>1 DEF Messages, SourceMessages, OutputMessages
<1> QED
    BY <1>1, RetainedInductive, PTL

\* A run at rest has mirrored every retained message it found, whatever an
\* earlier run lost or left behind (src/decoder/mod.rs:204).
THEOREM RetainedMirrors == RetainedSpec => []MirrorsRetained
<1>1. RetainedInv => MirrorsRetained
    <2> SUFFICES ASSUME RetainedInv, Quiet, NEW t \in DOMAIN store \cap Sources,
                        Decodable(t), t \notin changed
                 PROVE  Mirrored(t)
        BY DEF MirrorsRetained, Mirrored
    <2>1. Asked = {} /\ Delivered = {} /\ Answers = {}
        BY RangeEmpty DEF Quiet, Asked, Delivered, Answers
    <2>2. Underway(t)
        BY DEF RetainedInv, MirrorInv, Quiet
    <2> QED
        BY <2>1, <2>2 DEF Underway
<1> QED
    BY <1>1, RetainedInductive, PTL
============================================================================
