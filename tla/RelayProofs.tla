----------------------------- MODULE RelayProofs -----------------------------
(***************************************************************************)
(* The running program implements Relay, for every set of subscriptions,   *)
(* decoders and capacities, and it does not feed on its own outputs.  Both *)
(* rest on one count: a message that will be decoded, wherever it waits,   *)
(* is a foreign one or an output whose decoder named a decoded topic.      *)
(***************************************************************************)
EXTENDS RosettaMqProofs

----------------------------------------------------------------------------
(* Counting in sequences *)

\* The positions of s that hold a member of S.
At(s, S) == {i \in DOMAIN s : s[i] \in S}

Count(s, S) == Cardinality(At(s, S))

LEMMA CountType ==
    ASSUME NEW T, NEW s \in Seq(T), NEW S
    PROVE  IsFiniteSet(At(s, S)) /\ Count(s, S) \in Nat
<1>1. DOMAIN s = 1..Len(s) /\ Len(s) \in Int /\ 1 \in Int
    BY LenProperties
<1>2. At(s, S) \subseteq 1..Len(s) /\ IsFiniteSet(1..Len(s))
    BY <1>1, FS_Interval DEF At
<1> QED
    BY <1>2, FS_Subset, FS_CardinalityType DEF Count

LEMMA CountEmpty ==
    ASSUME NEW S
    PROVE  Count(<< >>, S) = 0
<1>1. At(<< >>, S) = {}
    BY DEF At
<1> QED
    BY <1>1, FS_EmptySet DEF Count

LEMMA CountAppend ==
    ASSUME NEW T, NEW s \in Seq(T), NEW e \in T, NEW S
    PROVE  Count(Append(s, e), S) = Count(s, S) + (IF e \in S THEN 1 ELSE 0)
<1>1. PICK n \in Nat : n = Len(s)
    BY LenProperties
<1>2. /\ DOMAIN s = 1..n /\ DOMAIN Append(s, e) = 1..(n + 1)
      /\ \A i \in 1..n : Append(s, e)[i] = s[i]
      /\ Append(s, e)[n + 1] = e
    BY <1>1, AppendProperties, LenProperties
<1>3. At(Append(s, e), S) = At(s, S) \cup (IF e \in S THEN {n + 1} ELSE {})
    BY <1>1, <1>2 DEF At
<1>4. n + 1 \notin At(s, S) /\ IsFiniteSet(At(s, S)) /\ Count(s, S) \in Nat
    <2>1. n + 1 \notin At(s, S)
        BY <1>2 DEF At
    <2> QED
        BY <2>1, CountType
<1>5. CASE e \in S
    BY <1>3, <1>4, <1>5, FS_AddElement DEF Count
<1>6. CASE e \notin S
    BY <1>3, <1>4, <1>6 DEF Count
<1> QED
    BY <1>5, <1>6

LEMMA CountTail ==
    ASSUME NEW T, NEW s \in Seq(T), s # << >>, NEW S
    PROVE  Count(s, S) = Count(Tail(s), S) + (IF Head(s) \in S THEN 1 ELSE 0)
<1> DEFINE A == At(s, S) \ {1}
           B == At(Tail(s), S)
           f == [i \in B |-> i + 1]
<1>1. PICK n \in Nat : n + 1 = Len(s)
    BY EmptySeq, LenProperties
<1>2. /\ DOMAIN s = 1..(n + 1) /\ DOMAIN Tail(s) = 1..n
      /\ \A i \in 1..n : Tail(s)[i] = s[i + 1]
      /\ Head(s) = s[1]
    BY <1>1, HeadTailProperties, LenProperties
<1>3. \A i \in B : i \in 1..n /\ i + 1 \in A
    BY <1>1, <1>2 DEF At
<1>4. \A j \in A : j - 1 \in B /\ (j - 1) + 1 = j
    BY <1>1, <1>2 DEF At
<1>5. f \in Bijection(B, A)
    <2>1. f \in [B -> A] /\ \A i \in B : f[i] = i + 1
        BY <1>3
    <2>2. \A i, j \in B : f[i] = f[j] => i = j
        BY <1>3, <2>1
    <2>3. \A j \in A : \E i \in B : f[i] = j
        BY <1>4, <2>1
    <2> HIDE DEF f
    <2>4. f \in Injection(B, A)
        BY <2>1, <2>2 DEF Injection, IsInjective
    <2>5. f \in Surjection(B, A)
        BY <2>1, <2>3 DEF Surjection
    <2> QED
        BY <2>4, <2>5 DEF Bijection
<1>6. IsFiniteSet(B) /\ IsFiniteSet(At(s, S)) /\ Count(s, S) \in Nat
    BY CountType, HeadTailProperties
<1>7. Cardinality(A) = Cardinality(B) /\ Cardinality(B) \in Nat
    BY <1>5, <1>6, FS_Bijection, FS_CardinalityType DEF ExistsBijection
<1>8. 1 \in At(s, S) <=> Head(s) \in S
    BY <1>1, <1>2 DEF At
<1>9. Cardinality(A) = IF 1 \in At(s, S) THEN Count(s, S) - 1 ELSE Count(s, S)
    BY <1>6, FS_RemoveElement DEF Count
<1> QED
    BY <1>6, <1>7, <1>8, <1>9 DEF Count

----------------------------------------------------------------------------
(* The inductive invariant *)

\* The topics whose messages are decoded.
Decoded == {t \in TopicType : ~Ignored(t)}

\* A message the driver holds and that will be decoded.
HeldDecoded == IF held \in Decoded THEN 1 ELSE 0

\* Relay's Returning, in the program's terms.
Returned ==
    {i \in DOMAIN wire :
        LET s == tasks[wire[i].task].script
        IN  /\ wire[i].seq <= s.emits
            /\ s.to \cap {t \in NamedTopics : ~Ignored(t)} # {}}

\* Tasks, and the messages on their way that will be one: each has its cause.
FeedbackInv ==
    Len(tasks) + Count(incoming, Decoded) + HeldDecoded + Count(echo, Decoded)
        <= foreign + Cardinality(Returned)

LEMMA FeedbackTypes ==
    ASSUME TypeOK, SystemTypeOK, TopicsInv
    PROVE  /\ Len(tasks) \in Nat /\ Count(incoming, Decoded) \in Nat
           /\ HeldDecoded \in Nat /\ Count(echo, Decoded) \in Nat
           /\ foreign \in Nat
           /\ IsFiniteSet(Returned) /\ Cardinality(Returned) \in Nat
<1>1. Len(tasks) \in Nat /\ foreign \in Nat /\ HeldDecoded \in Nat
    BY RosettaAssumption, LenProperties DEF TypeOK, SystemTypeOK, HeldDecoded
<1>2. Count(incoming, Decoded) \in Nat /\ Count(echo, Decoded) \in Nat
    BY CountType DEF TopicsInv
<1>3. IsFiniteSet(DOMAIN wire) /\ Returned \subseteq DOMAIN wire
    BY LenProperties, FS_Interval DEF SystemTypeOK, Returned
<1> QED
    BY <1>1, <1>2, <1>3, FS_Subset, FS_CardinalityType

\* What comes back on a topic that is decoded is an output that a decoder sent
\* to a topic of its own (src/engine.rs:131).
LEMMA ReturnsNamed ==
    ASSUME TopicsInv, NEW o, o.task \in DOMAIN tasks, OutputTopic(o) \in Decoded
    PROVE  /\ ~(o.seq > tasks[o.task].script.emits)
           /\ tasks[o.task].script.to \cap {t \in NamedTopics : ~Ignored(t)} # {}
<1> DEFINE t == tasks[o.task].topic
           s == tasks[o.task].script
<1>1. t \in TopicType /\ s \in AllScripts
    BY TopicFacts DEF TopicsInv
<1>2. OutputTopic(o) # ErrorTopic(t) /\ OutputTopic(o) # DecodedTopic(t)
    BY <1>1, OutputTopicsOwn DEF Decoded, Ignored
<1>3. ~(o.seq > s.emits)
    BY <1>2 DEF OutputTopic
<1>4. s.to # {}
    BY <1>2, <1>3 DEF OutputTopic, Or
<1>5. OutputTopic(o) \in s.to /\ OutputTopic(o) \in NamedTopics
    BY <1>1, <1>3, <1>4, NamedTopic DEF OutputTopic
<1> QED
    BY <1>3, <1>5 DEF Decoded

\* Nothing returned is forgotten while the wire stays as it is.
LEMMA ReturnedKept ==
    ASSUME TypeOK, WireInv, [Next]_vars, wire' = wire
    PROVE  Returned' = Returned
<1>1. \A i \in DOMAIN wire : tasks'[wire[i].task].script = tasks[wire[i].task].script
    BY TasksKept DEF WireInv
<1> QED
    BY <1>1 DEF Returned

----------------------------------------------------------------------------
(* Every step keeps the count *)

\* A task is started for a message that was counted.
LEMMA FeedbackSpawn ==
    ASSUME TypeOK, SystemTypeOK, TopicsInv, WireInv, FeedbackInv, [Next]_vars,
           NEW s \in AllScripts, Spawn(s), UNCHANGED system
    PROVE  FeedbackInv'
<1>1. Head(incoming) \in Decoded /\ Count(incoming, Decoded) = Count(incoming', Decoded) + 1
    <2>1. Head(incoming) \in Decoded
        BY HeadTailProperties, TopicFacts DEF Spawn, TopicsInv, Decoded
    <2> QED
        BY <2>1, CountTail DEF Spawn, TopicsInv
<1>2. Len(tasks') = Len(tasks) + 1
    BY DEF Spawn, TypeOK
<1>3. Count(incoming', Decoded) \in Nat
    BY CountType, HeadTailProperties DEF Spawn, TopicsInv
<1>4. UNCHANGED <<held, foreign, echo, wire>> /\ Returned' = Returned
    BY ReturnedKept DEF system
<1> QED
    BY <1>1, <1>2, <1>3, <1>4, FeedbackTypes DEF FeedbackInv, HeldDecoded

\* An output is written to the broker, which may send it back.
LEMMA FeedbackPollRequest ==
    ASSUME TypeOK, SystemTypeOK, TopicsInv, TopicsInv', QueueInv, WireInv, FeedbackInv,
           PollRequest
    PROVE  FeedbackInv'
<1> DEFINE h == Head(requests)
           back == h.seq <= tasks[h.task].script.emits
                   /\ tasks[h.task].script.to \cap {t \in NamedTopics : ~Ignored(t)} # {}
<1>1. h = requests[1] /\ h \in OutputType /\ h.task \in DOMAIN tasks
    BY HeadTailProperties DEF PollRequest, TakeRequest, TypeOK, QueueInv
<1>2. PICK W \in Nat : W = Len(wire) /\ DOMAIN wire = 1..W
    BY LenProperties DEF SystemTypeOK
<1>3. /\ DOMAIN wire' = 1..(W + 1) /\ wire'[W + 1] = h
      /\ \A i \in 1..W : wire'[i] = wire[i]
      /\ UNCHANGED <<tasks, incoming, held, foreign>>
    <2>1. wire \in Seq(OutputType) /\ wire' = Append(wire, h)
        BY DEF SystemTypeOK, PollRequest
    <2>2. UNCHANGED <<tasks, incoming, held, foreign>>
        BY DEF PollRequest, TakeRequest
    <2> QED
        BY <1>1, <1>2, <2>1, <2>2, AppendProperties, LenProperties
<1>4. Returned' = Returned \cup (IF back THEN {W + 1} ELSE {})
    BY <1>2, <1>3 DEF Returned
<1>5. W + 1 \notin Returned
    BY <1>2 DEF Returned
<1>6. Cardinality(Returned') = Cardinality(Returned) + (IF back THEN 1 ELSE 0)
    <2>1. CASE back
        BY <1>4, <1>5, <2>1, FeedbackTypes, FS_AddElement
    <2>2. CASE ~back
        <3>1. Returned' = Returned
            BY <1>4, <2>2
        <3> QED
            BY <2>2, <3>1, FeedbackTypes
    <2> QED
        BY <2>1, <2>2
<1>7. Count(echo', Decoded) <= Count(echo, Decoded) + (IF back THEN 1 ELSE 0)
    <2> DEFINE out == OutputTopic(h)
    <2>1. CASE ~lost /\ Subscribed(out)
        <3>1. out \in Deliverable /\ echo' = Append(echo, out)
            BY <1>1, <2>1, OutputDeliverable DEF PollRequest
        <3>2. out \in Decoded => back
            <4>1. tasks[h.task].script.emits \in Nat /\ h.seq \in Nat
                BY <1>1, TaskRecord DEF TaskType, ScriptType, OutputType
            <4> QED
                BY <1>1, <4>1, ReturnsNamed
        <3>3. Count(echo', Decoded) = Count(echo, Decoded) + (IF out \in Decoded THEN 1 ELSE 0)
            BY <3>1, CountAppend DEF TopicsInv
        <3> HIDE DEF back, out
        <3> QED
            BY <3>2, <3>3, FeedbackTypes
    <2>2. CASE lost \/ ~Subscribed(out)
        <3>1. echo' = echo
            BY <2>2 DEF PollRequest
        <3> HIDE DEF back
        <3> QED
            BY <3>1, FeedbackTypes
    <2> QED
        BY <2>1, <2>2
<1>8. Count(echo', Decoded) \in Nat
    BY CountType DEF TopicsInv
<1> HIDE DEF back
<1>9. PICK b \in 0..1 : b = IF back THEN 1 ELSE 0
    OBVIOUS
<1>10. HeldDecoded' = HeldDecoded /\ Count(incoming', Decoded) = Count(incoming, Decoded)
    BY <1>3 DEF HeldDecoded
<1> QED
    BY <1>3, <1>6, <1>7, <1>8, <1>9, <1>10, FeedbackTypes DEF FeedbackInv

LEMMA FeedbackStep ==
    ASSUME SystemInv, SystemInv', FeedbackInv, [Next]_vars, [SystemNext]_allVars
    PROVE  FeedbackInv'
<1>0. /\ TypeOK /\ SystemTypeOK /\ TopicsInv /\ QueueInv /\ WireInv
      /\ TypeOK' /\ SystemTypeOK' /\ TopicsInv'
    BY DEF SystemInv, EngineInv
<1>t. /\ Len(tasks) \in Nat /\ Count(incoming, Decoded) \in Nat
      /\ HeldDecoded \in 0..1 /\ Count(echo, Decoded) \in Nat
      /\ foreign \in Nat /\ Cardinality(Returned) \in Nat
      /\ Count(incoming', Decoded) \in Nat /\ Count(echo', Decoded) \in Nat
    BY <1>0, FeedbackTypes, CountType DEF HeldDecoded, TopicsInv
<1>n. HeldDecoded' \in 0..1 /\ (held' = NoTopic => HeldDecoded' = 0)
    BY TopicFacts DEF HeldDecoded, Decoded
<1> USE DEF system, channels
<1>1. CASE Skip /\ UNCHANGED system
    <2>1. Count(incoming', Decoded) <= Count(incoming, Decoded)
        <3>1. incoming # << >> /\ incoming' = Tail(incoming) /\ incoming \in Seq(Deliverable)
            BY <1>0, <1>1 DEF Skip, TopicsInv
        <3> QED
            BY <1>t, <3>1, CountTail
    <2>2. UNCHANGED <<tasks, held, foreign, echo, wire>> /\ Returned' = Returned
        BY <1>0, <1>1, ReturnedKept DEF Skip
    <2> QED
        BY <1>t, <2>1, <2>2 DEF FeedbackInv, HeldDecoded
<1>2. ASSUME NEW s \in AllScripts, Spawn(s), UNCHANGED system PROVE FeedbackInv'
    BY <1>0, <1>2, FeedbackSpawn
<1>3. CASE RunReturn
    <2>1. /\ incoming' = << >> /\ UNCHANGED <<tasks, held, foreign, echo, wire>>
          /\ Returned' = Returned
        BY <1>0, <1>3, ReturnedKept DEF RunReturn, Drained, DrainTimeout
    <2> QED
        BY <1>t, <2>1, CountEmpty DEF FeedbackInv, HeldDecoded
<1>4. ASSUME NEW k \in DOMAIN tasks, TaskStep(k) PROVE FeedbackInv'
    <2>1. PICK u : Update(k, u)
        BY <1>0, <1>4, TaskUpdate DEF TaskStep
    <2>2. Len(tasks') = Len(tasks)
        BY <1>0, <2>1, ReplaceTask, LenProperties DEF TypeOK, Update
    <2>3. UNCHANGED <<incoming, held, foreign, echo, wire>> /\ Returned' = Returned
        BY <1>0, <1>4, <2>1, ReturnedKept DEF TaskStep, Update
    <2> QED
        BY <1>t, <2>2, <2>3 DEF FeedbackInv, HeldDecoded
<1>5. ASSUME NEW t \in ForeignTopics, PollForeign(t) PROVE FeedbackInv'
    <2>1. /\ held = NoTopic /\ foreign' = foreign + 1
          /\ UNCHANGED <<tasks, incoming, echo, wire>>
        BY <1>0, <1>5 DEF PollForeign, vars, SystemTypeOK
    <2>2. Returned' = Returned
        BY <1>0, <2>1, ReturnedKept
    <2> QED
        BY <1>t, <1>n, <2>1, <2>2 DEF FeedbackInv
<1>6. CASE PollEcho
    <2>1. /\ held = NoTopic /\ held' = Head(echo) /\ echo # << >> /\ echo' = Tail(echo)
          /\ UNCHANGED <<tasks, incoming, foreign, wire>>
        BY <1>0, <1>6 DEF PollEcho, vars, SystemTypeOK
    <2>2. Returned' = Returned
        BY <1>0, <2>1, ReturnedKept
    <2>3. Count(echo, Decoded) = Count(echo', Decoded) + HeldDecoded'
        BY <1>0, <2>1, CountTail DEF TopicsInv, HeldDecoded, Decoded
    <2>4. HeldDecoded = 0
        BY <2>1, TopicFacts DEF HeldDecoded, Decoded
    <2> QED
        BY <1>t, <1>n, <2>1, <2>2, <2>3, <2>4 DEF FeedbackInv
<1>7. CASE Forward
    <2>1. /\ held \in Deliverable /\ held' = NoTopic /\ incoming' = Append(incoming, held)
          /\ UNCHANGED <<tasks, echo, foreign, wire>>
        BY <1>0, <1>7 DEF Forward, Deliver, SystemTypeOK, TopicsInv
    <2>2. Returned' = Returned
        BY <1>0, <2>1, ReturnedKept
    <2>3. Count(incoming', Decoded) = Count(incoming, Decoded) + HeldDecoded
        BY <1>0, <2>1, CountAppend DEF TopicsInv, HeldDecoded
    <2> QED
        BY <1>t, <1>n, <2>1, <2>2, <2>3 DEF FeedbackInv
<1>8. CASE ForwardClosed \/ PollError
    <2>1. UNCHANGED <<tasks, incoming, echo, foreign, wire>> /\ held' \in {held, NoTopic}
        BY <1>8 DEF ForwardClosed, PollError, Disconnect
    <2>2. Returned' = Returned
        BY <1>0, <2>1, ReturnedKept
    <2>3. HeldDecoded' <= HeldDecoded
        BY <1>t, <1>n, <2>1 DEF HeldDecoded
    <2> QED
        BY <1>t, <1>n, <2>1, <2>2, <2>3 DEF FeedbackInv
<1>9. CASE PollRequest
    BY <1>0, <1>9, FeedbackPollRequest
<1>10. CASE Still
    <2>1. UNCHANGED <<tasks, incoming, held, echo, foreign, wire>>
        BY <1>10 DEF Still
    <2>2. Returned' = Returned
        BY <1>0, <2>1, ReturnedKept
    <2> QED
        BY <2>1, <2>2 DEF FeedbackInv, HeldDecoded
<1> QED
    BY <1>1, <1>2, <1>3, <1>4, <1>5, <1>6, <1>7, <1>8, <1>9, <1>10, SystemSteps

LEMMA FeedbackInductive == SystemSpec => []FeedbackInv
<1>1. SystemInit => FeedbackInv
    <2> SUFFICES ASSUME SystemInit PROVE FeedbackInv
        OBVIOUS
    <2>1. /\ incoming = << >> /\ echo = << >> /\ held = NoTopic /\ foreign = 0
          /\ Len(tasks) = 0
        BY DEF SystemInit, Init
    <2>2. HeldDecoded = 0 /\ Cardinality(Returned) \in Nat
        BY <2>1, SystemInvInit, FeedbackTypes, TopicFacts
           DEF SystemInv, EngineInv, HeldDecoded, Decoded
    <2> QED
        BY <2>1, <2>2, CountEmpty DEF FeedbackInv
<1> QED
    BY <1>1, FeedbackStep, SystemInductive, SystemInvNext, PTL DEF SystemSpec

\* Whatever the subscriptions cover, the program makes no input of its own
\* outputs: each task has a foreign message of its own for a cause, or an
\* output that its decoder sent to a decoded topic (src/engine.rs:131,
\* src/decoder/mod.rs:213).
THEOREM SystemNoFeedback == SystemSpec => []NoFeedback
<1>1. SystemInv /\ FeedbackInv => NoFeedback
    <2> SUFFICES ASSUME SystemInv, FeedbackInv PROVE NoFeedback
        OBVIOUS
    <2>0. TypeOK /\ SystemTypeOK /\ TopicsInv
        BY DEF SystemInv, EngineInv
    <2>1. Returned \subseteq Reentered
        BY DEF Returned, Reentered, Ignored
    <2>2. IsFiniteSet(Reentered)
        <3>1. wire \in Seq(OutputType) /\ Reentered \subseteq DOMAIN wire
            BY <2>0 DEF SystemTypeOK, Reentered
        <3>2. DOMAIN wire = 1..Len(wire) /\ Len(wire) \in Int /\ 1 \in Int
            BY <3>1, LenProperties
        <3> QED
            BY <3>1, <3>2, FS_Interval, FS_Subset
    <2>3. Cardinality(Returned) <= Cardinality(Reentered) /\ Cardinality(Reentered) \in Nat
        BY <2>1, <2>2, FS_Subset, FS_CardinalityType
    <2> QED
        BY <2>0, <2>3, FeedbackTypes DEF FeedbackInv, NoFeedback
<1> QED
    BY <1>1, SystemInductive, FeedbackInductive, PTL

----------------------------------------------------------------------------
(* The program is a relay *)

\* The refinement mapping of calls: the scripts of the tasks.
Scripted == [k \in DOMAIN tasks |-> tasks[k].script]

LEMMA ScriptedSeq ==
    ASSUME TypeOK, TopicsInv
    PROVE  /\ Scripted \in Seq(AllScripts) /\ Len(Scripted) = Len(tasks)
           /\ DOMAIN Scripted = DOMAIN tasks
<1>1. PICK n \in Nat : n = Len(tasks) /\ DOMAIN tasks = 1..n
    BY LenProperties DEF TypeOK
<1>2. Scripted \in [1..n -> AllScripts]
    BY <1>1 DEF Scripted, TopicsInv
<1> QED
    BY <1>1, <1>2

\* Relay's own instance of the standard operator.
LEMMA SameCardinality == \A S : R!Cardinality(S) = Cardinality(S)
    BY Zenon DEF R!Cardinality, Cardinality, R!IsFiniteSet, IsFiniteSet

LEMMA ReturningMapped ==
    ASSUME WireInv
    PROVE  R!Returning = Returned
    BY DEF WireInv, R!Returning, Returned

\* The last output written for a task is the next one that is due.
LEMMA NextDue ==
    ASSUME SystemInv, SentInv, requests # << >>
    PROVE  LET k == Head(requests).task
               n == Cardinality(R!Of(k))
           IN  /\ k \in DOMAIN tasks
               /\ Head(requests) = [task |-> k, seq |-> n + 1]
               /\ n < R!Due(Scripted[k])
<1>0. TypeOK /\ SystemTypeOK /\ QueueInv /\ AllTasksInv
    BY DEF SystemInv, EngineInv
<1> DEFINE h == Head(requests)
           k == h.task
<1>1. /\ h = requests[1] /\ h \in OutputType /\ 1 \in DOMAIN requests /\ 1 \in 1..Len(requests)
      /\ k \in DOMAIN tasks
    BY <1>0, HeadTailProperties DEF TypeOK, QueueInv
<1>2. PICK W \in Nat : W = Len(wire)
    BY <1>0, SentSeq
<1>3. Sent[W + 1] = h /\ W + 1 \in DOMAIN Sent /\ \A p \in 1..W : Sent[p] = wire[p]
    BY <1>0, <1>1, <1>2, SentSeq
<1>4. h.seq = Cardinality(OutputsOf(k, W + 1))
    BY <1>3 DEF SentInv
<1>5. R!Of(k) = OutputsOf(k, W)
    BY <1>0, <1>2, <1>3, SentSeq DEF R!Of, OutputsOf
<1>6. Cardinality(OutputsOf(k, W + 1)) = Cardinality(OutputsOf(k, W)) + 1
    <2>1. OutputsOf(k, W + 1) = OutputsOf(k, W) \cup {W + 1}
        BY <1>3 DEF OutputsOf
    <2>2. W + 1 \notin OutputsOf(k, W)
        BY DEF OutputsOf
    <2> QED
        BY <2>1, <2>2, OutputsFinite, FS_AddElement
<1>7. Cardinality(OutputsOf(k, W)) \in Nat
    BY OutputsFinite
<1>8. h.seq <= Owed(k)
    <2>1. h.seq <= tasks[k].accepted
        BY <1>0, <1>1 DEF QueueInv, OutputsInOrder
    <2>2. Handled(k) <= Owed(k)
        BY <1>0, <1>1 DEF AllTasksInv, TaskInv
    <2>3. /\ h.seq \in Nat /\ tasks[k].accepted \in Nat /\ tasks[k].failed \in Nat
          /\ tasks[k].script.emits \in Nat
        BY <1>0, <1>1, TaskRecord DEF TaskType, ScriptType, OutputType
    <2> QED
        BY <2>1, <2>2, <2>3 DEF Handled, Owed
<1>9. R!Due(Scripted[k]) = Owed(k) /\ Owed(k) \in Nat
    <2>1. tasks[k].script.emits \in Nat
        BY <1>0, <1>1, TaskRecord DEF TaskType, ScriptType
    <2> QED
        BY <1>1, <2>1 DEF Scripted, R!Due, Owed
<1>10. h = [task |-> k, seq |-> h.seq]
    BY <1>1 DEF OutputType
<1> QED
    BY <1>1, <1>4, <1>5, <1>6, <1>7, <1>8, <1>9, <1>10

LEMMA RelayStep ==
    ASSUME SystemInv, SystemInv', FeedbackInv, SentInv, [Next]_vars, [SystemNext]_allVars
    PROVE  [R!RelayNext]_(R!relayVars)
<1>0. /\ TypeOK /\ SystemTypeOK /\ TopicsInv /\ QueueInv /\ WireInv
      /\ TypeOK' /\ TopicsInv'
    BY DEF SystemInv, EngineInv
<1>k. UNCHANGED <<tasks, foreign, wire>> => UNCHANGED R!relayVars
    BY DEF R!relayVars
\* A step of a task changes neither its script nor the history.
<1>1. ASSUME NEW k \in DOMAIN tasks, TaskStep(k) PROVE UNCHANGED R!relayVars
    <2>1. PICK u : Update(k, u)
        BY <1>0, <1>1, TaskUpdate DEF TaskStep
    <2>2. /\ DOMAIN tasks' = DOMAIN tasks
          /\ \A j \in DOMAIN tasks : tasks'[j].script = tasks[j].script
        BY <1>0, <2>1, ReplaceTask, TasksKept DEF TypeOK, Update
    <2>3. Scripted' = Scripted
        BY <2>2 DEF Scripted
    <2> QED
        BY <1>1, <2>3 DEF TaskStep, system, R!relayVars, Scripted
<1>2. ASSUME NEW s \in AllScripts, Spawn(s), UNCHANGED system PROVE R!Call(s)
    <2>1. tasks' = Append(tasks, NewTask(Head(incoming), s)) /\ UNCHANGED <<foreign, wire>>
        BY <1>2 DEF Spawn, system
    <2>2. Scripted' = Append(Scripted, s)
        <3>1. PICK n \in Nat : n = Len(tasks) /\ DOMAIN tasks = 1..n
            BY <1>0, LenProperties DEF TypeOK
        <3>2. /\ DOMAIN tasks' = 1..(n + 1) /\ Len(tasks') = n + 1
              /\ \A j \in 1..n : tasks'[j] = tasks[j]
              /\ tasks'[n + 1].script = s
            BY <1>0, <2>1, <3>1 DEF TypeOK, NewTask
        <3>3. /\ Scripted' \in Seq(AllScripts) /\ Len(Scripted') = n + 1
              /\ \A j \in 1..n : Scripted'[j] = Scripted[j]
              /\ Scripted'[n + 1] = s
            BY <1>0, <3>1, <3>2, ScriptedSeq DEF Scripted
        <3>4. /\ Append(Scripted, s) \in Seq(AllScripts) /\ Len(Append(Scripted, s)) = n + 1
              /\ \A j \in 1..n : Append(Scripted, s)[j] = Scripted[j]
              /\ Append(Scripted, s)[n + 1] = s
            BY <1>0, <3>1, ScriptedSeq, AppendProperties
        <3>5. \A j \in 1..(n + 1) : Scripted'[j] = Append(Scripted, s)[j]
            BY <3>1, <3>3, <3>4
        <3> QED
            BY <3>3, <3>4, <3>5, SeqEqual
    <2>3. Len(Scripted) < foreign + Cardinality(R!Returning)
        <3>1. Count(incoming, Decoded) = Count(Tail(incoming), Decoded) + 1
            <4>1. Head(incoming) \in Decoded /\ incoming # << >> /\ incoming \in Seq(Deliverable)
                BY <1>0, <1>2, HeadTailProperties, TopicFacts DEF Spawn, TopicsInv, Decoded
            <4> QED
                BY <4>1, CountTail
        <3>2. Count(Tail(incoming), Decoded) \in Nat
            BY <1>0, <1>2, HeadTailProperties, CountType DEF Spawn, TopicsInv
        <3> QED
            BY <1>0, <3>1, <3>2, FeedbackTypes, ScriptedSeq, ReturningMapped DEF FeedbackInv
    <2> QED
        BY <2>1, <2>2, <2>3, SameCardinality DEF R!Call, Scripted
<1>3. ASSUME NEW t \in ForeignTopics, PollForeign(t) PROVE R!Hear
    BY <1>3 DEF PollForeign, vars, R!Hear
<1>4. CASE PollRequest
    <2> DEFINE k == Head(requests).task
    <2>1. /\ wire' = Append(wire, Head(requests)) /\ UNCHANGED <<tasks, foreign>>
          /\ requests # << >>
        BY <1>4 DEF PollRequest, TakeRequest
    <2>2. k \in DOMAIN Scripted /\ R!Publish(k)
        BY <1>0, <2>1, NextDue, ScriptedSeq, SameCardinality DEF R!Publish, Scripted
    <2> QED
        BY <2>2 DEF R!RelayNext, Scripted
<1>5. CASE \/ (Skip /\ UNCHANGED system) \/ RunReturn \/ PollEcho \/ Forward
           \/ ForwardClosed \/ PollError \/ Still
    <2>1. UNCHANGED <<tasks, foreign, wire>>
        BY <1>5 DEF Skip, system, RunReturn, Drained, DrainTimeout, PollEcho, vars, Forward,
                    Deliver, ForwardClosed, PollError, Disconnect, Still
    <2> QED
        BY <1>k, <2>1
<1> QED
    BY <1>1, <1>2, <1>3, <1>4, <1>5, SystemSteps DEF R!RelayNext

\* Channels, concurrent tasks, echoes, a lost connection and a shutdown in any
\* state cannot be seen from outside: the program is a relay
\* (src/engine.rs:52).
THEOREM SystemIsRelay == SystemSpec => RelaySpec
<1>1. SystemInit => R!RelayInit
    <2> SUFFICES ASSUME SystemInit PROVE R!RelayInit
        OBVIOUS
    <2>1. foreign = 0 /\ wire = << >> /\ tasks = << >>
        BY DEF SystemInit, Init
    <2>2. Scripted = << >>
        BY <2>1 DEF Scripted
    <2> QED
        BY <2>1, <2>2 DEF R!RelayInit, Scripted
<1> QED
    BY <1>1, RelayStep, SystemInductive, SystemInvNext, FeedbackInductive, SentInductive, PTL
       DEF SystemSpec, RelaySpec, R!Spec
==============================================================================
