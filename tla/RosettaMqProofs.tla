--------------------------- MODULE RosettaMqProofs ---------------------------
(***************************************************************************)
(* The safety of the running program, for every set of subscriptions and   *)
(* whatever other clients publish: it has its types, it is an engine, and  *)
(* outputs are written to the broker in order.  The engine's own invariant *)
(* is that of EngineProofs, kept because each step of the program is a     *)
(* step of the engine or none.                                             *)
(***************************************************************************)
EXTENDS RosettaMq, EngineProofs

----------------------------------------------------------------------------
(* The inductive invariant *)

\* What the broker delivers: such a topic, or an output of ours.
Deliverable == {t \in Topics : t \in Inputs \/ IsOwnOutput(t)}

\* Every topic in the pipeline is one of them, and tasks are made of inputs:
\* otherwise a topic might not be one the model's broker delivers.
TopicsInv ==
    /\ held \in Deliverable \cup {NoTopic}
    /\ incoming \in Seq(Deliverable)
    /\ echo \in Seq(Deliverable)
    /\ \A k \in DOMAIN tasks : tasks[k].topic \in Inputs /\ tasks[k].script \in AllScripts

\* Only outputs of tasks were written to the broker.
WireInv == \A p \in DOMAIN wire : wire[p].task \in DOMAIN tasks

SystemInv == EngineInv /\ SystemTypeOK /\ TopicsInv /\ WireInv

----------------------------------------------------------------------------
(* Topics *)

LEMMA TopicFacts ==
    /\ Deliverable \subseteq TopicType
    /\ Inputs \subseteq Topics /\ Inputs \subseteq TopicType
    /\ Inputs \subseteq Deliverable
    /\ NoTopic \notin TopicType
<1>1. Inputs \subseteq Topics /\ Topics \subseteq TopicType
    BY RosettaAssumption, EngineAssumption DEF Inputs
<1> QED
    BY <1>1 DEF Deliverable, NoTopic, TopicType

\* A message that is decoded is not one of our outputs by its name.
LEMMA DecodedInput ==
    ASSUME NEW t \in Deliverable, ~Ignored(t)
    PROVE  t \in Inputs
    BY DEF Deliverable, Ignored

\* The two topics the engine makes of an input end like an output.
LEMMA OutputTopicsOwn ==
    ASSUME NEW t \in TopicType
    PROVE  IsOwnOutput(DecodedTopic(t)) /\ IsOwnOutput(ErrorTopic(t))
<1>1. t \in Seq(Literals) /\ Len(t) \in Nat \ {0}
    BY EmptySeq DEF TopicType
<1>2. PICK n \in Nat \ {0} : n = Len(t)
    BY <1>1
<1>3. \A e : /\ Len(Append(t, e)) = n + 1
             /\ Append(t, e)[n + 1] = e
    BY <1>1, <1>2
<1> QED
    BY <1>2, <1>3 DEF IsOwnOutput, DecodedTopic, ErrorTopic

\* What a decoder names is a topic of the model, and it names at most one.
LEMMA NamedTopic ==
    ASSUME NEW s \in AllScripts, s.to # {}, NEW default
    PROVE  Or(s.to, default) \in s.to /\ Or(s.to, default) \in NamedTopics
<1>1. Or(s.to, default) \in s.to
    BY DEF Or
<1> QED
    BY <1>1 DEF NamedTopics

\* An output that comes back is deliverable.
LEMMA OutputDeliverable ==
    ASSUME TopicsInv, NEW o, o.task \in DOMAIN tasks, Subscribed(OutputTopic(o))
    PROVE  OutputTopic(o) \in Deliverable
<1> DEFINE t == tasks[o.task].topic
           s == tasks[o.task].script
<1>1. t \in Inputs /\ t \in TopicType /\ s \in AllScripts
    BY TopicFacts DEF TopicsInv
<1>2. /\ IsOwnOutput(DecodedTopic(t)) /\ IsOwnOutput(ErrorTopic(t))
      /\ Subscribed(DecodedTopic(t)) => DecodedTopic(t) \in Topics
      /\ Subscribed(ErrorTopic(t)) => ErrorTopic(t) \in Topics
    BY <1>1, OutputTopicsOwn, RosettaAssumption DEF Inputs
<1>3. CASE o.seq > s.emits
    BY <1>2, <1>3 DEF OutputTopic, Deliverable
<1>4. CASE ~(o.seq > s.emits) /\ s.to = {}
    <2>1. OutputTopic(o) = DecodedTopic(t)
        BY <1>4 DEF OutputTopic, Or
    <2> QED
        BY <1>2, <2>1 DEF Deliverable
<1>5. CASE ~(o.seq > s.emits) /\ s.to # {}
    <2>1. OutputTopic(o) \in NamedTopics
        BY <1>1, <1>5, NamedTopic DEF OutputTopic
    <2> QED
        BY <2>1, TopicFacts DEF Inputs
<1> QED
    BY <1>3, <1>4, <1>5

----------------------------------------------------------------------------
(* Steps of the program are steps of the engine *)

LEMMA SystemStepsEngine ==
    ASSUME SystemTypeOK, TopicsInv, [SystemNext]_allVars
    PROVE  [Next]_vars
<1>1. CASE Forward
    <2>1. held \in Topics
        BY <1>1 DEF Forward, SystemTypeOK, TopicsInv, Deliverable
    <2> QED
        BY <1>1, <2>1 DEF Forward, Next, Environment
<1>2. CASE RunIntake \/ RunReap \/ RunLeave \/ RunReturn
    BY <1>2 DEF RunIntake, RunReap, RunLeave, RunReturn, Next, Run
<1>3. ASSUME NEW k \in DOMAIN tasks, TaskStep(k) PROVE [Next]_vars
    BY <1>3 DEF TaskStep, Next
<1>4. CASE (\E t \in ForeignTopics : PollForeign(t)) \/ PollEcho \/ LoseConnection \/ Exit
    BY <1>4 DEF PollForeign, PollEcho, LoseConnection, Exit
<1>5. CASE ForwardClosed \/ PollError \/ PollRequest \/ CtrlC \/ DriverEnded
    BY <1>5 DEF ForwardClosed, PollError, PollRequest, CtrlC, DriverEnded, Next, Environment
<1>6. CASE UNCHANGED allVars
    BY <1>6 DEF allVars
<1> QED
    BY <1>1, <1>2, <1>3, <1>4, <1>5, <1>6 DEF SystemNext, Driver, Main

\* What a step of the program does to the messages on their way: the intake, a
\* task or the driver acts, or all of them stay where they are.
Still == UNCHANGED <<channels, tasks, driver, held, foreign, echo, wire>>

LEMMA SystemSteps ==
    ASSUME [SystemNext]_allVars
    PROVE  \/ Skip /\ UNCHANGED system
           \/ \E s \in AllScripts : Spawn(s) /\ UNCHANGED system
           \/ RunReturn
           \/ \E k \in DOMAIN tasks : TaskStep(k)
           \/ \E t \in ForeignTopics : PollForeign(t)
           \/ PollEcho \/ Forward \/ ForwardClosed \/ PollRequest \/ PollError
           \/ Still
<1>1. CASE RunIntake
    BY <1>1 DEF RunIntake, Intake
<1>2. CASE RunReap \/ RunLeave
    BY <1>2 DEF RunReap, RunLeave, Reap, IntakeClosed, ObserveCancel, Still, system
<1>3. CASE Main
    BY <1>3 DEF Main, CtrlC, DriverEnded, Exit, Cancel, Still, vars
<1>4. CASE LoseConnection
    BY <1>4 DEF LoseConnection, Still, vars
<1>5. CASE UNCHANGED allVars
    BY <1>5 DEF allVars, vars, system, Still
<1> QED
    BY <1>1, <1>2, <1>3, <1>4, <1>5 DEF SystemNext, Driver

\* Tasks are only added, and keep their topic and their script.
LEMMA TasksKept ==
    ASSUME TypeOK, [Next]_vars, NEW k \in DOMAIN tasks
    PROVE  /\ k \in DOMAIN tasks'
           /\ tasks'[k].topic = tasks[k].topic /\ tasks'[k].script = tasks[k].script
<1>1. ASSUME NEW j \in DOMAIN tasks, DecodeAndPublish(j)
      PROVE  /\ DOMAIN tasks' = DOMAIN tasks
             /\ tasks'[k].topic = tasks[k].topic /\ tasks'[k].script = tasks[k].script
    <2>1. PICK u : Update(j, u)
        BY <1>1, TaskUpdate
    <2> QED
        BY <2>1, ReplaceTask DEF TypeOK, Update
<1>2. ASSUME NEW s \in AllScripts, Spawn(s)
      PROVE  k \in DOMAIN tasks' /\ tasks'[k] = tasks[k]
    BY <1>2 DEF TypeOK, Spawn
<1>3. CASE \/ Skip \/ IntakeClosed \/ ObserveCancel \/ Drained \/ DrainTimeout
           \/ (\E j \in joinset : Reap(j)) \/ Environment \/ UNCHANGED vars
    BY <1>3 DEF Skip, IntakeClosed, ObserveCancel, Drained, DrainTimeout, Reap,
                Environment, Deliver, TakeRequest, Disconnect, Cancel, vars
<1> QED
    BY <1>1, <1>2, <1>3 DEF Next, Run, Intake

----------------------------------------------------------------------------
(* Types *)

LEMMA SystemInvInit == SystemInit => SystemInv
<1> SUFFICES ASSUME SystemInit PROVE SystemInv
    OBVIOUS
<1>1. EngineInv
    BY InitEngine DEF SystemInit
<1>2. \A S : incoming \in Seq(S) /\ echo \in Seq(S) /\ wire \in Seq(S)
    BY EmptySeq DEF SystemInit, Init
<1>3. /\ driver = "polling" /\ held = NoTopic /\ main = "selecting" /\ foreign = 0
      /\ connected = TRUE /\ cancelled = FALSE /\ lost = FALSE
      /\ DOMAIN tasks = {} /\ DOMAIN wire = {}
    BY DEF SystemInit, Init
<1>4. SystemTypeOK
    <2>1. foreign \in 0..MaxForeign
        BY <1>3, RosettaAssumption
    <2> QED
        BY <1>2, <1>3, <2>1 DEF SystemTypeOK
<1>5. TopicsInv /\ WireInv
    BY <1>2, <1>3 DEF TopicsInv, WireInv
<1> QED
    BY <1>1, <1>4, <1>5 DEF SystemInv

\* The control state of the driver and of main.
LEMMA SystemStepTypeOK ==
    ASSUME TypeOK, SystemTypeOK, TopicsInv, QueueInv, [SystemNext]_allVars
    PROVE  SystemTypeOK'
<1> USE DEF system, channels, control
<1>1. CASE RunIntake
    BY <1>1 DEF RunIntake, Intake, Skip, Spawn, SystemTypeOK
<1>2. CASE RunReap
    BY <1>2 DEF RunReap, Reap, SystemTypeOK
<1>3. CASE RunLeave
    BY <1>3 DEF RunLeave, IntakeClosed, ObserveCancel, SystemTypeOK
<1>4. CASE RunReturn
    BY <1>4 DEF RunReturn, Drained, DrainTimeout, SystemTypeOK
<1>5. ASSUME NEW k \in DOMAIN tasks, TaskStep(k) PROVE SystemTypeOK'
    <2>1. UNCHANGED <<connected, control, system>>
        BY <1>5, TaskUpdate DEF TaskStep, Update
    <2> QED
        BY <2>1 DEF SystemTypeOK
<1>6. ASSUME NEW t \in ForeignTopics, PollForeign(t) PROVE SystemTypeOK'
    <2>1. t \in TopicType /\ t # NoTopic
        BY TopicFacts DEF Inputs
    <2>2. foreign' \in 0..MaxForeign
        BY <1>6, RosettaAssumption DEF PollForeign, SystemTypeOK
    <2> QED
        BY <1>6, <2>1, <2>2 DEF PollForeign, SystemTypeOK, vars
<1>7. CASE PollEcho
    <2>1. /\ Head(echo) \in TopicType /\ Head(echo) # NoTopic
          /\ Tail(echo) \in Seq(TopicType)
        BY <1>7, TopicFacts, HeadTailProperties DEF PollEcho, SystemTypeOK
    <2> QED
        BY <1>7, <2>1 DEF PollEcho, SystemTypeOK, vars
<1>8. CASE Forward
    BY <1>8 DEF Forward, Deliver, SystemTypeOK
<1>9. CASE ForwardClosed
    BY <1>9 DEF ForwardClosed, Disconnect, SystemTypeOK
<1>10. CASE PollRequest
    <2>1. Head(requests) \in OutputType /\ Head(requests) = requests[1]
          /\ 1 \in DOMAIN requests
        BY <1>10, HeadTailProperties DEF PollRequest, TakeRequest, TypeOK
    <2>2. wire' \in Seq(OutputType)
        BY <1>10, <2>1, AppendProperties DEF PollRequest, SystemTypeOK
    <2>3. Subscribed(OutputTopic(Head(requests))) => OutputTopic(Head(requests)) \in TopicType
        BY <2>1, OutputDeliverable, TopicFacts DEF QueueInv
    <2>4. echo' \in Seq(TopicType)
        BY <1>10, <2>3, AppendProperties DEF PollRequest, SystemTypeOK
    <2> QED
        BY <1>10, <2>2, <2>4 DEF PollRequest, TakeRequest, SystemTypeOK
<1>11. CASE PollError
    BY <1>11 DEF PollError, Disconnect, SystemTypeOK
<1>12. CASE CtrlC \/ DriverEnded
    BY <1>12 DEF CtrlC, DriverEnded, Cancel, SystemTypeOK
<1>13. CASE Exit
    BY <1>13 DEF Exit, vars, SystemTypeOK
<1>14. CASE LoseConnection
    BY <1>14 DEF LoseConnection, vars, SystemTypeOK
<1>15. CASE UNCHANGED allVars
    BY <1>15 DEF allVars, vars, SystemTypeOK
<1> QED
    BY <1>1, <1>2, <1>3, <1>4, <1>5, <1>6, <1>7, <1>8, <1>9, <1>10, <1>11, <1>12, <1>13, <1>14,
       <1>15
       DEF SystemNext, Driver, Main

LEMMA TopicsStep ==
    ASSUME TypeOK, SystemTypeOK, TopicsInv, QueueInv, [SystemNext]_allVars
    PROVE  TopicsInv'
<1> USE DEF system, channels
<1>0. [Next]_vars
    BY SystemStepsEngine
<1>1. \A k \in DOMAIN tasks : /\ k \in DOMAIN tasks'
                              /\ tasks'[k].topic \in Inputs /\ tasks'[k].script \in AllScripts
    BY <1>0, TasksKept DEF TopicsInv
<1>2. CASE Skip /\ UNCHANGED system
    <2>1. incoming' \in Seq(Deliverable)
        BY <1>2, HeadTailProperties DEF Skip, TopicsInv
    <2> QED
        BY <1>2, <2>1 DEF Skip, TopicsInv
<1>3. ASSUME NEW s \in AllScripts, Spawn(s), UNCHANGED system PROVE TopicsInv'
    <2>1. incoming' \in Seq(Deliverable) /\ Head(incoming) \in Inputs
        BY <1>3, HeadTailProperties, DecodedInput DEF Spawn, TopicsInv
    <2>2. PICK n \in Nat : n = Len(tasks) + 1
        BY LenProperties DEF TypeOK
    <2>3. /\ DOMAIN tasks' = DOMAIN tasks \cup {n}
          /\ tasks'[n] = NewTask(Head(incoming), s)
        BY <1>3, <2>2 DEF TypeOK, Spawn
    <2>4. tasks'[n].topic \in Inputs /\ tasks'[n].script \in AllScripts
        BY <2>1, <2>3 DEF NewTask
    <2> QED
        BY <1>1, <1>3, <2>1, <2>3, <2>4 DEF TopicsInv
<1>4. CASE RunReturn
    <2>1. incoming' \in Seq(Deliverable)
        BY <1>4, EmptySeq DEF RunReturn, Drained, DrainTimeout
    <2> QED
        BY <1>4, <2>1 DEF RunReturn, Drained, DrainTimeout, TopicsInv
<1>5. ASSUME NEW k \in DOMAIN tasks, TaskStep(k) PROVE TopicsInv'
    <2>1. PICK u : Update(k, u)
        BY <1>5, TaskUpdate DEF TaskStep
    <2>2. DOMAIN tasks' = DOMAIN tasks
        BY <2>1, ReplaceTask DEF TypeOK, Update
    <2> QED
        BY <1>1, <1>5, <2>1, <2>2 DEF TaskStep, Update, TopicsInv
<1>6. ASSUME NEW t \in ForeignTopics, PollForeign(t) PROVE TopicsInv'
    BY <1>6, TopicFacts DEF PollForeign, vars, TopicsInv, Inputs
<1>7. CASE PollEcho
    BY <1>7, HeadTailProperties DEF PollEcho, vars, TopicsInv
<1>8. CASE Forward
    <2>1. held \in Deliverable
        BY <1>8 DEF Forward, SystemTypeOK, TopicsInv
    <2>2. incoming' \in Seq(Deliverable)
        BY <1>8, <2>1, AppendProperties DEF Forward, Deliver, TopicsInv
    <2> QED
        BY <1>8, <2>2 DEF Forward, Deliver, TopicsInv
<1>9. CASE ForwardClosed \/ PollError
    BY <1>9 DEF ForwardClosed, PollError, Disconnect, TopicsInv
<1>10. CASE PollRequest
    <2>1. Head(requests) = requests[1] /\ 1 \in DOMAIN requests
        BY <1>10, HeadTailProperties DEF PollRequest, TakeRequest, TypeOK
    <2>2. Subscribed(OutputTopic(Head(requests))) => OutputTopic(Head(requests)) \in Deliverable
        BY <2>1, OutputDeliverable DEF QueueInv
    <2>3. echo' \in Seq(Deliverable)
        BY <1>10, <2>2, AppendProperties DEF PollRequest, TopicsInv
    <2> QED
        BY <1>10, <2>3 DEF PollRequest, TakeRequest, TopicsInv
<1>11. CASE Still
    BY <1>11 DEF Still, TopicsInv
<1> QED
    BY <1>2, <1>3, <1>4, <1>5, <1>6, <1>7, <1>8, <1>9, <1>10, <1>11, SystemSteps

LEMMA WireStep ==
    ASSUME TypeOK, SystemTypeOK, QueueInv, WireInv, [Next]_vars, [SystemNext]_allVars
    PROVE  WireInv'
<1>1. \A k \in DOMAIN tasks : k \in DOMAIN tasks'
    BY TasksKept
<1>2. CASE PollRequest
    <2>1. Head(requests) = requests[1] /\ 1 \in DOMAIN requests
        BY <1>2, HeadTailProperties DEF PollRequest, TakeRequest, TypeOK
    <2>2. Head(requests).task \in DOMAIN tasks
        BY <2>1 DEF QueueInv
    <2>3. /\ wire \in Seq(OutputType) /\ wire' = Append(wire, Head(requests))
          /\ Head(requests) \in OutputType
        BY <1>2, <2>1 DEF PollRequest, SystemTypeOK, TypeOK
    <2>4. \A p \in DOMAIN wire' : \/ p \in DOMAIN wire /\ wire'[p] = wire[p]
                                \/ wire'[p] = Head(requests)
        BY <2>3
    <2> QED
        BY <1>1, <2>2, <2>4 DEF WireInv
<1>3. CASE ~PollRequest
    <2>1. wire' = wire
        BY <1>3, SystemSteps
           DEF system, RunReturn, TaskStep, PollForeign, PollEcho, Forward, ForwardClosed,
               PollError, Still
    <2> QED
        BY <1>1, <2>1 DEF WireInv
<1> QED
    BY <1>2, <1>3

LEMMA SystemInvNext == SystemInv /\ [SystemNext]_allVars => SystemInv' /\ [Next]_vars
<1> SUFFICES ASSUME SystemInv, [SystemNext]_allVars PROVE SystemInv' /\ [Next]_vars
    OBVIOUS
<1>1. EngineInv /\ TypeOK /\ QueueInv /\ SystemTypeOK /\ TopicsInv /\ WireInv
    BY DEF SystemInv, EngineInv
<1>2. [Next]_vars
    BY <1>1, SystemStepsEngine
<1> QED
    BY <1>1, <1>2, NextEngine, SystemStepTypeOK, TopicsStep, WireStep DEF SystemInv

\* Each step of a task, the loop, the driver or main keeps the engine's
\* invariant, the types, and that only inputs are decoded (src/engine.rs:131).
THEOREM SystemInductive == SystemSpec => []SystemInv
    BY SystemInvInit, SystemInvNext, PTL DEF SystemSpec

\* The driver, main and what is on its way have their types, and the driver is
\* gone exactly when the connection is (src/client.rs:105).
THEOREM SystemTypes == SystemSpec => []SystemTypeOK
<1>1. SystemInv => SystemTypeOK
    BY DEF SystemInv
<1> QED
    BY <1>1, SystemInductive, PTL

\* The running program is an engine: the driver and main only do to its
\* channels and its token what the engine's environment may do, so all that
\* EngineProofs shows holds of the program too.
THEOREM SystemIsEngine == SystemSpec => Spec
<1>1. SystemInit => Init
    BY DEF SystemInit
<1> QED
    BY <1>1, SystemInductive, SystemInvNext, PTL DEF SystemSpec, Spec

\* So the running program keeps the engine's promises: the budget, complete and
\* ordered outputs of each message, and a drain that leaves nothing undone
\* (src/engine.rs:61, :97, :159).
COROLLARY SystemKeepsPromises ==
    SystemSpec => [](Budget /\ OutputsComplete /\ OutputsInOrder /\ DrainedMeansFinished)
    BY SystemIsEngine, EngineBudget, EngineOutputsComplete, EngineOutputsInOrder,
       EngineDrainedMeansFinished, PTL

----------------------------------------------------------------------------
(* The order at the broker *)

\* The outputs of a task that are not lost are at most those it handed over;
\* they are the first ones, wherever a loss of the connection cuts them off.
SentInv ==
    /\ \A p \in DOMAIN Sent : /\ Sent[p].task \in DOMAIN tasks
                              /\ Sent[p].seq = Cardinality(OutputsOf(Sent[p].task, p))
    /\ connected =>
          \A k \in DOMAIN tasks : tasks[k].accepted = Cardinality(OutputsOf(k, Len(Sent)))

\* What is sent, as one sequence.
LEMMA SentSeq ==
    ASSUME TypeOK, SystemTypeOK
    PROVE  /\ Sent \in Seq(OutputType)
           /\ Len(wire) \in Nat /\ Len(requests) \in Nat
           /\ Len(Sent) = Len(wire) + Len(requests)
           /\ DOMAIN Sent = 1 .. Len(Sent)
           /\ DOMAIN wire = 1 .. Len(wire)
           /\ \A p \in 1 .. Len(wire) : Sent[p] = wire[p]
           /\ \A p \in 1 .. Len(requests) : Sent[Len(wire) + p] = requests[p]
<1>1. wire \in Seq(OutputType) /\ requests \in Seq(OutputType)
    BY DEF TypeOK, SystemTypeOK
<1>2. Len(wire) \in Nat /\ Len(requests) \in Nat
    BY <1>1, LenProperties
<1>3. /\ wire \o requests \in Seq(OutputType)
      /\ Len(wire \o requests) = Len(wire) + Len(requests)
      /\ \A p \in 1 .. Len(wire) + Len(requests) :
            (wire \o requests)[p] = IF p <= Len(wire) THEN wire[p] ELSE requests[p - Len(wire)]
    BY <1>1, ConcatProperties
<1>4. DOMAIN (wire \o requests) = 1 .. Len(wire \o requests) /\ DOMAIN wire = 1 .. Len(wire)
    BY <1>1, <1>3, LenProperties
<1> QED
    BY <1>2, <1>3, <1>4 DEF Sent

LEMMA WireWithinSent ==
    ASSUME TypeOK, SystemTypeOK, NEW L, L = Len(Sent)
    PROVE  \E W \in Nat : W = Len(wire) /\ W <= L /\ DOMAIN wire = 1 .. W
<1> DEFINE W == Len(wire)
           Q == Len(requests)
<1>1. W \in Nat /\ Q \in Nat /\ L = W + Q /\ DOMAIN wire = 1 .. W
    BY SentSeq
<1> HIDE DEF W, Q
<1>2. W <= L
    BY <1>1
<1> QED
    BY <1>1, <1>2 DEF W

\* What a step does to the outputs that are not lost: a task adds its next one,
\* the end of the connection takes away the queued ones, nothing else matters.
LEMMA SentSteps ==
    ASSUME SystemInv, SystemTypeOK', TypeOK', [SystemNext]_allVars
    PROVE  \/ \E k \in DOMAIN tasks :
                 /\ TaskStep(k) /\ PublishAccepted(k)
                 /\ Sent' = Append(Sent, [task |-> k, seq |-> tasks[k].accepted + 1])
                 /\ tasks'[k].accepted = tasks[k].accepted + 1
                 /\ \A j \in DOMAIN tasks : j # k => tasks'[j].accepted = tasks[j].accepted
           \/ Sent' = wire /\ ~connected'
           \/ /\ Sent' = Sent /\ connected' = connected
              /\ \A k \in DOMAIN tasks : tasks'[k].accepted = tasks[k].accepted
<1>0. TypeOK /\ SystemTypeOK /\ AllTasksInv /\ QueueInv /\ TopicsInv
    BY DEF SystemInv, EngineInv
<1>w. wire \in Seq(OutputType) /\ requests \in Seq(OutputType)
    BY <1>0 DEF TypeOK, SystemTypeOK
<1> USE DEF system, channels
<1>1. ASSUME NEW k \in DOMAIN tasks, TaskStep(k), PublishAccepted(k)
      PROVE  /\ Sent' = Append(Sent, [task |-> k, seq |-> tasks[k].accepted + 1])
             /\ tasks'[k].accepted = tasks[k].accepted + 1
             /\ \A j \in DOMAIN tasks : j # k => tasks'[j].accepted = tasks[j].accepted
    <2> DEFINE o == [task |-> k, seq |-> tasks[k].accepted + 1]
    <2>1. InHand(k) = o /\ tasks'[k].accepted = tasks[k].accepted + 1
        BY <1>0, <1>1, NextInOrder DEF AllTasksInv
    <2>2. o \in OutputType
        <3>1. tasks[k] \in TaskType
            BY <1>0, TaskRecord
        <3>2. tasks[k].accepted \in Nat
            BY <3>1 DEF TaskType
        <3>3. k \in Nat
            BY <1>0 DEF TypeOK
        <3> QED
            BY <3>2, <3>3 DEF OutputType
    <2>3. wire' = wire /\ requests' = Append(requests, o)
        BY <1>1, <2>1 DEF TaskStep, PublishAccepted
    <2>4. Sent' = Append(Sent, o)
        <3>1. /\ <<o>> \in Seq(OutputType)
              /\ requests' = requests \o <<o>>
              /\ Sent \in Seq(OutputType) /\ Append(Sent, o) = Sent \o <<o>>
            BY <1>0, <1>w, <2>2, <2>3, AppendIsConcat, SentSeq
        <3> QED
            BY <1>w, <2>3, <3>1, ConcatAssociative DEF Sent
    <2>5. \A j \in DOMAIN tasks : j # k => tasks'[j] = tasks[j]
        <3>1. PICK u : Update(k, u)
            BY <1>0, <1>1, TaskUpdate DEF TaskStep
        <3> QED
            BY <1>0, <3>1, ReplaceTask DEF TypeOK, Update
    <2> QED
        BY <2>1, <2>4, <2>5
<1>2. ASSUME NEW k \in DOMAIN tasks, TaskStep(k), ~PublishAccepted(k)
      PROVE  /\ Sent' = Sent /\ connected' = connected
             /\ \A j \in DOMAIN tasks : tasks'[j].accepted = tasks[j].accepted
    <2>1. PICK u : Update(k, u)
        BY <1>0, <1>2, TaskUpdate DEF TaskStep
    <2>2. \A j \in DOMAIN tasks : j # k => tasks'[j] = tasks[j]
        BY <1>0, <2>1, ReplaceTask DEF TypeOK, Update
    <2>3. requests' = requests /\ tasks'[k].accepted = tasks[k].accepted
        <3>1. tasks[k] \in TaskType /\ tasks \in Seq(TaskType)
            BY <1>0, TaskRecord DEF TypeOK
        <3> QED
            BY <1>2, <3>1
               DEF TaskStep, DecodeAndPublish, Publish, Emit, DecodeReturn, DecodePanic,
                   Receive, PublishFailed, Join, Abort, TaskType
    <2>4. wire' = wire /\ connected' = connected
        BY <1>2, <2>1 DEF TaskStep, Update
    <2> QED
        BY <2>2, <2>3, <2>4 DEF Sent
<1>3. CASE ForwardClosed \/ PollError
    <2>1. requests' = << >> /\ wire' = wire /\ ~connected'
        BY <1>3 DEF ForwardClosed, PollError, Disconnect
    <2>2. wire \o << >> = wire
        BY <1>w, ConcatEmptySeq
    <2> QED
        BY <2>1, <2>2 DEF Sent
<1>4. CASE PollRequest
    <2> DEFINE h == Head(requests)
    <2>1. /\ requests # << >> /\ wire' = Append(wire, h) /\ requests' = Tail(requests)
          /\ connected' = connected /\ tasks' = tasks
        BY <1>4 DEF PollRequest, TakeRequest
    <2>2. /\ h \in OutputType /\ <<h>> \in Seq(OutputType)
          /\ Tail(requests) \in Seq(OutputType)
          /\ wire' = wire \o <<h>> /\ requests = <<h>> \o Tail(requests)
        BY <1>w, <2>1, HeadTailProperties, AppendIsConcat
    <2>3. (wire \o <<h>>) \o Tail(requests) = wire \o (<<h>> \o Tail(requests))
        BY <1>w, <2>2, ConcatAssociative
    <2> QED
        BY <2>1, <2>2, <2>3 DEF Sent
<1>5. ASSUME NEW s \in AllScripts, Spawn(s), UNCHANGED system
      PROVE  /\ Sent' = Sent /\ connected' = connected
             /\ \A k \in DOMAIN tasks : tasks'[k].accepted = tasks[k].accepted
    BY <1>0, <1>5 DEF Spawn, TypeOK, Sent
<1>6. CASE \/ (Skip /\ UNCHANGED system) \/ RunReturn \/ PollEcho \/ Forward \/ Still
           \/ \E t \in ForeignTopics : PollForeign(t)
    BY <1>6 DEF Skip, RunReturn, Drained, DrainTimeout, PollEcho, Forward, Deliver, Still,
                PollForeign, vars, Sent
<1> QED
    BY <1>1, <1>2, <1>3, <1>4, <1>5, <1>6, SystemSteps

\* The positions of a task's outputs, and how many they are.
LEMMA OutputsFinite ==
    ASSUME NEW k, NEW n \in Nat
    PROVE  /\ OutputsOf(k, n) \subseteq 1..n
           /\ IsFiniteSet(OutputsOf(k, n)) /\ Cardinality(OutputsOf(k, n)) \in Nat
<1>1. OutputsOf(k, n) \subseteq 1..n /\ IsFiniteSet(1..n)
    BY FS_Interval DEF OutputsOf
<1> QED
    BY <1>1, FS_Subset, FS_CardinalityType

\* They only depend on what has been sent so far.
LEMMA OutputsAgree ==
    ASSUME NEW k, NEW n \in Nat, \A p \in 1..n : Sent'[p] = Sent[p]
    PROVE  OutputsOf(k, n)' = OutputsOf(k, n)
    BY DEF OutputsOf

\* One more output, of task j.
LEMMA OutputsAppend ==
    ASSUME NEW k, NEW j, NEW n \in Nat,
           \A p \in 1..n : Sent'[p] = Sent[p], Sent'[n + 1].task = j
    PROVE  Cardinality(OutputsOf(k, n + 1)') =
              Cardinality(OutputsOf(k, n)) + (IF k = j THEN 1 ELSE 0)
<1>1. OutputsOf(k, n + 1)' = OutputsOf(k, n) \cup (IF k = j THEN {n + 1} ELSE {})
    BY DEF OutputsOf
<1>2. n + 1 \notin OutputsOf(k, n) /\ IsFiniteSet(OutputsOf(k, n))
    <2>1. n + 1 \notin 1..n
        OBVIOUS
    <2> QED
        BY <2>1, OutputsFinite
<1>3. CASE k = j
    BY <1>1, <1>2, <1>3, FS_AddElement
<1>4. CASE k # j
    <2>1. OutputsOf(k, n + 1)' = OutputsOf(k, n)
        BY <1>1, <1>4
    <2> QED
        BY <1>4, <2>1, OutputsFinite
<1> QED
    BY <1>3, <1>4

LEMMA SentStep ==
    ASSUME SystemInv, SystemTypeOK', TypeOK', [Next]_vars, [SystemNext]_allVars, SentInv
    PROVE  SentInv'
<1>0. TypeOK /\ SystemTypeOK
    BY DEF SystemInv, EngineInv
<1>1. PICK L \in Nat : L = Len(Sent) /\ DOMAIN Sent = 1..L
    BY <1>0, SentSeq, LenProperties
<1>2. \A k \in DOMAIN tasks : k \in DOMAIN tasks'
    BY <1>0, TasksKept
<1>3. \A p \in 1..L : /\ Sent[p].task \in DOMAIN tasks
                      /\ Sent[p].seq = Cardinality(OutputsOf(Sent[p].task, p))
    BY <1>1 DEF SentInv
\* A task that is new has handed over nothing.
<1>4. \A k \in DOMAIN tasks' \ DOMAIN tasks :
          tasks'[k].accepted = 0 /\ Cardinality(OutputsOf(k, L)) = 0 /\ Sent' = Sent
    <2> SUFFICES ASSUME NEW k \in DOMAIN tasks', k \notin DOMAIN tasks
                 PROVE  /\ tasks'[k].accepted = 0
                        /\ Cardinality(OutputsOf(k, L)) = 0 /\ Sent' = Sent
        OBVIOUS
    <2>1. PICK s \in AllScripts : Spawn(s) /\ UNCHANGED system
        <3>1. \A j \in DOMAIN tasks : TaskStep(j) => DOMAIN tasks' = DOMAIN tasks
            <4> SUFFICES ASSUME NEW j \in DOMAIN tasks, TaskStep(j)
                         PROVE  DOMAIN tasks' = DOMAIN tasks
                OBVIOUS
            <4>1. PICK u : Update(j, u)
                BY <1>0, TaskUpdate DEF TaskStep
            <4> QED
                BY <1>0, <4>1, ReplaceTask DEF TypeOK, Update
        <3>2. CASE \/ (Skip /\ UNCHANGED system) \/ RunReturn \/ PollEcho \/ Forward
                   \/ ForwardClosed \/ PollRequest \/ PollError \/ Still
                   \/ \E t \in ForeignTopics : PollForeign(t)
            BY <3>2 DEF Skip, RunReturn, Drained, DrainTimeout, PollEcho, Forward, Deliver,
                        ForwardClosed, Disconnect, PollRequest, TakeRequest, PollError, Still,
                        PollForeign, vars
        <3> QED
            BY <3>1, <3>2, SystemSteps
    <2>2. tasks'[k] = NewTask(Head(incoming), s)
        BY <1>0, <2>1 DEF Spawn, TypeOK
    <2>3. OutputsOf(k, L) = {}
        BY <1>3 DEF OutputsOf
    <2>4. Sent' = Sent
        BY <2>1 DEF Spawn, system, Sent
    <2> QED
        BY <2>2, <2>3, <2>4, FS_EmptySet DEF NewTask
<1>5. ASSUME NEW k \in DOMAIN tasks, NEW o, o = [task |-> k, seq |-> tasks[k].accepted + 1],
             Sent' = Append(Sent, o), connected, connected', DOMAIN tasks' = DOMAIN tasks,
             tasks'[k].accepted = tasks[k].accepted + 1,
             \A j \in DOMAIN tasks : j # k => tasks'[j].accepted = tasks[j].accepted
      PROVE  SentInv'
    <2>1. /\ Len(Sent') = L + 1 /\ DOMAIN Sent' = 1..(L + 1)
          /\ \A p \in 1..L : Sent'[p] = Sent[p]
          /\ Sent'[L + 1] = o /\ o.task = k /\ o.seq = tasks[k].accepted + 1
        BY <1>0, <1>1, <1>5, SentSeq
    <2>2. \A j \in DOMAIN tasks : Cardinality(OutputsOf(j, L + 1)') =
              Cardinality(OutputsOf(j, L)) + (IF j = k THEN 1 ELSE 0)
        BY <2>1, OutputsAppend
    <2>3. \A j \in DOMAIN tasks : tasks'[j].accepted = Cardinality(OutputsOf(j, L + 1)')
        <3> TAKE j \in DOMAIN tasks
        <3>1. tasks[j].accepted = Cardinality(OutputsOf(j, L))
            BY <1>1, <1>5 DEF SentInv
        <3>2. tasks[j].accepted \in Nat
            BY <1>0, TaskRecord DEF TaskType
        <3> QED
            BY <1>5, <2>2, <3>1, <3>2
    <2>4. ASSUME NEW p \in 1..(L + 1)
          PROVE  /\ Sent'[p].task \in DOMAIN tasks'
                 /\ Sent'[p].seq = Cardinality(OutputsOf(Sent[p].task, p)')
        <3>1. CASE p = L + 1
            BY <1>5, <2>1, <2>3, <3>1
        <3>2. CASE p # L + 1
            <4>1. p \in 1..L /\ p \in Nat /\ \A q \in 1..p : Sent'[q] = Sent[q]
                BY <2>1, <3>2
            <4> QED
                BY <1>3, <1>5, <2>1, <4>1, OutputsAgree
        <3> QED
            BY <3>1, <3>2
    <2> QED
        BY <1>5, <2>1, <2>3, <2>4 DEF SentInv
<1>6. CASE Sent' = wire /\ ~connected'
    <2>1. PICK W \in Nat : W = Len(wire) /\ W <= L /\ DOMAIN wire = 1..W
        BY <1>0, <1>1, WireWithinSent
    <2>2. \A p \in 1..W : Sent'[p] = Sent[p]
        BY <1>0, <1>6, <2>1, SentSeq
    <2>3. ASSUME NEW p \in 1..W
          PROVE  /\ Sent'[p].task \in DOMAIN tasks'
                 /\ Sent'[p].seq = Cardinality(OutputsOf(Sent[p].task, p)')
        <3>1. p \in 1..L /\ p \in Nat /\ \A q \in 1..p : Sent'[q] = Sent[q]
            BY <2>1, <2>2
        <3> QED
            BY <1>2, <1>3, <2>2, <3>1, OutputsAgree
    <2> QED
        BY <1>6, <2>1, <2>3 DEF SentInv
<1>7. CASE /\ Sent' = Sent /\ connected' = connected
           /\ \A k \in DOMAIN tasks : tasks'[k].accepted = tasks[k].accepted
    <2>1. \A k, n : OutputsOf(k, n)' = OutputsOf(k, n)
        BY <1>7 DEF OutputsOf
    <2>2. \A p \in DOMAIN Sent' : /\ Sent'[p].task \in DOMAIN tasks'
                                  /\ Sent'[p].seq = Cardinality(OutputsOf(Sent[p].task, p)')
        BY <1>1, <1>2, <1>3, <1>7, <2>1
    <2>3. connected => \A k \in DOMAIN tasks' : tasks'[k].accepted = Cardinality(OutputsOf(k, L)')
        BY <1>1, <1>4, <1>7, <2>1 DEF SentInv
    <2> QED
        BY <1>1, <1>7, <2>2, <2>3 DEF SentInv
<1>8. ASSUME NEW k \in DOMAIN tasks, TaskStep(k), PublishAccepted(k)
      PROVE  connected /\ connected' /\ DOMAIN tasks' = DOMAIN tasks
    <2>1. PICK u : Update(k, u)
        BY <1>0, <1>8, TaskUpdate DEF TaskStep
    <2> QED
        BY <1>0, <1>8, <2>1, ReplaceTask DEF TypeOK, Update, PublishAccepted
<1> QED
    BY <1>5, <1>6, <1>7, <1>8, SentSteps

LEMMA SentInductive == SystemSpec => []SentInv
<1>1. SystemInit => SentInv
    <2> SUFFICES ASSUME SystemInit PROVE SentInv
        OBVIOUS
    <2>1. wire = << >> /\ requests = << >> /\ DOMAIN tasks = {}
        BY DEF SystemInit, Init
    <2>2. DOMAIN Sent = {}
        BY <2>1, ConcatEmptySeq DEF Sent
    <2> QED
        BY <2>1, <2>2 DEF SentInv
<1>2. SystemInv /\ SystemInv' /\ SentInv /\ [Next]_vars /\ [SystemNext]_allVars => SentInv'
    BY SentStep DEF SystemInv, EngineInv
<1> QED
    BY <1>1, <1>2, SystemInductive, SystemInvNext, PTL DEF SystemSpec

\* What was written to the broker and what is queued for it are, for each message,
\* its outputs from the first one on, in order, none missing and none twice,
\* in every state of the program (src/engine.rs:169, src/client.rs:106).
THEOREM SystemRelayedInOrder == SystemSpec => []RelayedInOrder
<1>1. SentInv => RelayedInOrder
    BY DEF SentInv, RelayedInOrder
<1> QED
    BY <1>1, SentInductive, PTL

----------------------------------------------------------------------------
(* One message at a time *)

\* With a budget of one, only the task of the last message may still work, so
\* what it hands over comes behind what the tasks before it have.
SequentialInv ==
    MaxConcurrent = 1 =>
        /\ InFlight \subseteq {Len(tasks)}
        /\ \A p \in DOMAIN Sent : Sent[p].task \in DOMAIN tasks
        /\ \A p, q \in DOMAIN Sent : p < q => Sent[p].task <= Sent[q].task

\* No task is started while another works.
LEMMA SequentialSpawn ==
    ASSUME TypeOK, BudgetInv, MaxConcurrent = 1, NEW s \in AllScripts, Spawn(s)
    PROVE  InFlight' \subseteq {Len(tasks')}
<1>1. phase # "returned" /\ Cardinality(joinset) < 1 /\ IsFiniteSet(joinset)
    BY DEF Spawn, HasBudget, BudgetInv
<1>2. joinset = {}
    BY <1>1, FS_EmptySet, FS_CardinalityType
<1>3. InFlight = {}
    BY <1>1, <1>2 DEF BudgetInv
<1>4. /\ DOMAIN tasks' = DOMAIN tasks \cup {Len(tasks')}
      /\ \A j \in DOMAIN tasks : tasks'[j] = tasks[j]
    BY DEF TypeOK, Spawn
<1> QED
    BY <1>3, <1>4 DEF InFlight

\* The one task in flight stays the last one.
LEMMA SequentialTasks ==
    ASSUME TypeOK, BudgetInv, MaxConcurrent = 1, InFlight \subseteq {Len(tasks)}, [Next]_vars
    PROVE  InFlight' \subseteq {Len(tasks')}
<1>1. ASSUME NEW k \in DOMAIN tasks, DecodeAndPublish(k) PROVE InFlight' \subseteq {Len(tasks')}
    <2>1. PICK u : Update(k, u)
        BY <1>1, TaskUpdate
    <2>2. Len(tasks') = Len(tasks)
        BY <2>1, ReplaceTask, LenProperties DEF TypeOK, Update
    <2> QED
        BY <1>1, <2>2, TaskStepInFlight
<1>2. ASSUME NEW s \in AllScripts, Spawn(s) PROVE InFlight' \subseteq {Len(tasks')}
    BY <1>2, SequentialSpawn
<1>3. CASE \/ Skip \/ IntakeClosed \/ ObserveCancel \/ Drained \/ DrainTimeout
           \/ (\E j \in joinset : Reap(j)) \/ Environment \/ UNCHANGED vars
    <2>1. tasks' = tasks
        BY <1>3 DEF Skip, IntakeClosed, ObserveCancel, Drained, DrainTimeout, Reap,
                    Environment, Deliver, TakeRequest, Disconnect, Cancel, vars
    <2> QED
        BY <2>1 DEF InFlight
<1> QED
    BY <1>1, <1>2, <1>3 DEF Next, Run, Intake

LEMMA SequentialStep ==
    ASSUME SystemInv, SystemInv', [Next]_vars, [SystemNext]_allVars, SequentialInv
    PROVE  SequentialInv'
<1> SUFFICES ASSUME MaxConcurrent = 1
             PROVE  /\ InFlight' \subseteq {Len(tasks')}
                    /\ \A p \in DOMAIN Sent' : Sent'[p].task \in DOMAIN tasks'
                    /\ \A p, q \in DOMAIN Sent' : p < q => Sent'[p].task <= Sent'[q].task
    BY DEF SequentialInv
<1>0. /\ TypeOK /\ SystemTypeOK /\ BudgetInv /\ TypeOK' /\ SystemTypeOK'
      /\ \A k \in DOMAIN tasks : k \in DOMAIN tasks'
    BY TasksKept DEF SystemInv, EngineInv
<1>1. InFlight' \subseteq {Len(tasks')}
    BY <1>0, SequentialTasks DEF SequentialInv
<1>2. PICK L \in Nat : L = Len(Sent) /\ DOMAIN Sent = 1..L
    BY <1>0, SentSeq, LenProperties
<1>3. ASSUME NEW k \in DOMAIN tasks, NEW o, o.task = k, TaskStep(k), Sent' = Append(Sent, o)
      PROVE  /\ \A p \in DOMAIN Sent' : Sent'[p].task \in DOMAIN tasks'
             /\ \A p, q \in DOMAIN Sent' : p < q => Sent'[p].task <= Sent'[q].task
    <2>1. /\ DOMAIN Sent' = 1..(L + 1) /\ Sent'[L + 1] = o
          /\ \A p \in 1..L : Sent'[p] = Sent[p]
        BY <1>0, <1>2, <1>3, SentSeq
    <2>2. k = Len(tasks) /\ DOMAIN tasks = 1..Len(tasks) /\ Len(tasks) \in Nat
        <3>1. k \in InFlight
            BY <1>0, <1>3, TaskStepInFlight DEF TaskStep
        <3> QED
            BY <1>0, <3>1, LenProperties DEF SequentialInv, TypeOK
    <2>3. \A p \in 1..L : Sent[p].task \in DOMAIN tasks /\ Sent[p].task <= k
        BY <1>2, <2>2 DEF SequentialInv
    <2>4. \A p \in DOMAIN Sent' : Sent'[p].task \in DOMAIN tasks'
        BY <1>0, <1>2, <1>3, <2>1, <2>3
    <2>5. ASSUME NEW p \in DOMAIN Sent', NEW q \in DOMAIN Sent', p < q
          PROVE  Sent'[p].task <= Sent'[q].task
        <3>1. p \in 1..L /\ Sent'[p] = Sent[p]
            BY <1>2, <2>1, <2>5
        <3>2. CASE q = L + 1
            BY <1>3, <2>1, <2>3, <3>1, <3>2
        <3>3. CASE q # L + 1
            BY <1>2, <2>1, <2>5, <3>1, <3>3 DEF SequentialInv
        <3> QED
            BY <3>2, <3>3
    <2> QED
        BY <2>4, <2>5
<1>4. CASE Sent' = wire
    <2>1. PICK W \in Nat : W = Len(wire) /\ W <= L /\ DOMAIN wire = 1..W
        BY <1>0, <1>2, WireWithinSent
    <2>2. \A p \in 1..W : p \in 1..L /\ Sent'[p] = Sent[p]
        <3>1. \A p \in 1..W : p \in 1..L
            BY <2>1
        <3>2. \A p \in 1..Len(wire) : Sent[p] = wire[p]
            BY <1>0, SentSeq
        <3> QED
            BY <1>4, <2>1, <3>1, <3>2
    <2> QED
        BY <1>0, <1>1, <1>2, <1>4, <2>1, <2>2 DEF SequentialInv
<1>5. CASE Sent' = Sent
    BY <1>0, <1>1, <1>5 DEF SequentialInv
<1> QED
    BY <1>0, <1>1, <1>3, <1>4, <1>5, SentSteps

\* With max_concurrent_decodes = 1, outputs leave in the order in which the
\* messages arrived, on the wire and in the queue (src/engine.rs:149).
THEOREM SystemSequentialKeepsOrder == SystemSpec => []SequentialKeepsOrder
<1>1. SystemInit => SequentialInv
    <2> SUFFICES ASSUME SystemInit PROVE SequentialInv
        OBVIOUS
    <2>1. wire = << >> /\ requests = << >> /\ DOMAIN tasks = {}
        BY DEF SystemInit, Init
    <2>2. DOMAIN Sent = {}
        BY <2>1, ConcatEmptySeq DEF Sent
    <2> QED
        BY <2>1, <2>2 DEF SequentialInv, InFlight
<1>2. SystemSpec => []SequentialInv
    BY <1>1, SequentialStep, SystemInductive, SystemInvNext, PTL DEF SystemSpec
<1>3. SequentialInv => SequentialKeepsOrder
    BY DEF SequentialInv, SequentialKeepsOrder
<1> QED
    BY <1>2, <1>3, PTL
=============================================================================
