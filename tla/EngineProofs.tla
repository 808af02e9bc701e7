---------------------------- MODULE EngineProofs ----------------------------
(***************************************************************************)
(* The safety of the engine for every registry, every decoder, every       *)
(* capacity and any number of messages: TypeOK, Budget, OutputsComplete,   *)
(* DrainedMeansFinished and OutputsInOrder, from one inductive invariant.  *)
(***************************************************************************)
EXTENDS Engine, SequenceTheorems, FiniteSetTheorems, TLAPS

----------------------------------------------------------------------------
(* The inductive invariant *)

\* Where the two halves of one task stand: the drain half has at most one
\* message in hand, the decoder is ahead of it and has not sent too much, an
\* error message is owed only when everything else is handled, nothing is
\* handled that is not owed, and a publish failed only if the connection is gone.
TaskInv(k) ==
    LET t == tasks[k]
    IN  /\ Handled(k) <= Owed(k)
        /\ t.stage \in {"decoding", "draining"} =>
              /\ t.emitted <= t.script.emits
              /\ t.received <= t.emitted
              /\ Handled(k) <= t.received
              /\ t.received <= Handled(k) + 1
        /\ t.stage = "draining" =>
              t.emitted = t.script.emits /\ t.script.verdict \in {"ok", "err"}
        /\ t.stage = "reporting" =>
              Handled(k) = t.script.emits /\ t.script.verdict = "err"
        /\ t.stage = "done" => Handled(k) = Owed(k)
        /\ connected => t.failed = 0

AllTasksInv == \A k \in DOMAIN tasks : TaskInv(k)

\* Until run returns, the join set holds every task that still works, so its
\* size bounds them; afterwards their number can only fall.
BudgetInv ==
    /\ IsFiniteSet(joinset)
    /\ Cardinality(joinset) <= MaxConcurrent
    /\ phase # "returned" => InFlight \subseteq joinset
    /\ IsFiniteSet(InFlight)
    /\ Budget

\* A task is aborted only after a drain that timed out.
DrainInv ==
    /\ timedOut => phase = "returned"
    /\ ~timedOut => \A k \in DOMAIN tasks : tasks[k].stage # "aborted"
    /\ phase = "returned" /\ ~timedOut => InFlight = {}

\* The queue only holds outputs of tasks, and dies with the connection.
QueueInv ==
    /\ \A p \in DOMAIN requests : requests[p].task \in DOMAIN tasks
    /\ ~connected => requests = << >>
    /\ OutputsInOrder

EngineInv == TypeOK /\ AllTasksInv /\ BudgetInv /\ DrainInv /\ QueueInv

----------------------------------------------------------------------------
(* One step of one task *)

\* Replacing one task of a sequence of tasks.
LEMMA ReplaceTask ==
    ASSUME tasks \in Seq(TaskType), NEW k \in DOMAIN tasks, NEW u \in TaskType,
           tasks' = [tasks EXCEPT ![k] = u]
    PROVE  /\ tasks' \in Seq(TaskType)
           /\ DOMAIN tasks' = DOMAIN tasks
           /\ tasks'[k] = u
           /\ \A j \in DOMAIN tasks : j # k => tasks'[j] = tasks[j]
<1>1. k \in 1..Len(tasks) /\ DOMAIN tasks = 1..Len(tasks)
    BY LenProperties
<1> QED
    BY <1>1, ExceptSeq

\* What a step of decode_and_publish does to the task's record.
Update(k, u) ==
    /\ u \in TaskType
    /\ tasks' = [tasks EXCEPT ![k] = u]
    /\ u.topic = tasks[k].topic /\ u.script = tasks[k].script
    /\ u.stage = "aborted" => phase = "returned"
    /\ UNCHANGED <<incoming, connected, delivered, control, joinset>>

LEMMA TaskRecord ==
    ASSUME TypeOK, NEW k \in DOMAIN tasks
    PROVE  tasks[k] \in TaskType
    BY DEF TypeOK

\* A step of a working task replaces its record, and no other task's.
LEMMA TaskUpdate ==
    ASSUME TypeOK, NEW k \in DOMAIN tasks, DecodeAndPublish(k)
    PROVE  tasks[k].stage \in Working /\ \E u : Update(k, u)
<1> DEFINE t == tasks[k]
<1> USE DEF Update, channels, control
<1>0. t \in TaskType
    BY TaskRecord
<1>1. CASE Emit(k)
    <2> DEFINE u == [t EXCEPT !.emitted = @ + 1]
    <2>1. u \in TaskType /\ u.topic = t.topic /\ u.script = t.script /\ u.stage = t.stage
        BY <1>0 DEF TaskType
    <2>2. Update(k, u)
        BY <1>1, <2>1 DEF Emit
    <2> QED
        BY <1>1, <2>2 DEF Emit, Working
<1>2. CASE DecodeReturn(k)
    <2> DEFINE u == [t EXCEPT !.stage = "draining"]
    <2>1. u \in TaskType /\ u.topic = t.topic /\ u.script = t.script /\ u.stage = "draining"
        BY <1>0 DEF TaskType, Working
    <2>2. Update(k, u)
        BY <1>2, <2>1 DEF DecodeReturn
    <2> QED
        BY <1>2, <2>2 DEF DecodeReturn, Working
<1>3. CASE DecodePanic(k)
    <2> DEFINE u == [t EXCEPT !.stage = "panicked"]
    <2>1. u \in TaskType /\ u.topic = t.topic /\ u.script = t.script /\ u.stage = "panicked"
        BY <1>0 DEF TaskType, Finished
    <2>2. Update(k, u)
        BY <1>3, <2>1 DEF DecodePanic
    <2> QED
        BY <1>3, <2>2 DEF DecodePanic, Working
<1>4. CASE Receive(k)
    <2> DEFINE u == [t EXCEPT !.received = @ + 1]
    <2>1. u \in TaskType /\ u.topic = t.topic /\ u.script = t.script /\ u.stage = t.stage
        BY <1>0 DEF TaskType
    <2>2. Update(k, u)
        BY <1>4, <2>1 DEF Receive
    <2> QED
        BY <1>4, <2>2 DEF Receive, Working
<1>5. CASE PublishAccepted(k)
    <2> DEFINE v == [t EXCEPT !.accepted = @ + 1]
               u == [v EXCEPT !.stage = AfterPublish(k)]
    <2>0. AfterPublish(k) \in Working \cup Finished
        BY <1>0 DEF TaskType, AfterPublish, Finished
    <2>v. v \in TaskType /\ v.topic = t.topic /\ v.script = t.script
        BY <1>0 DEF TaskType
    <2>1. u \in TaskType /\ u.topic = t.topic /\ u.script = t.script /\ u.stage = AfterPublish(k)
        BY <2>0, <2>v DEF TaskType
    <2>2. t.stage \in Working /\ u.stage # "aborted"
        BY <1>5, <2>1 DEF PublishAccepted, Publishing, Working, AfterPublish
    <2>3. Update(k, u)
        BY <1>5, <2>1, <2>2 DEF PublishAccepted
    <2> QED
        BY <2>2, <2>3
<1>6. CASE PublishFailed(k)
    <2> DEFINE v == [t EXCEPT !.failed = @ + 1]
               u == [v EXCEPT !.stage = AfterPublish(k)]
    <2>0. AfterPublish(k) \in Working \cup Finished
        BY <1>0 DEF TaskType, AfterPublish, Finished
    <2>v. v \in TaskType /\ v.topic = t.topic /\ v.script = t.script
        BY <1>0 DEF TaskType
    <2>1. u \in TaskType /\ u.topic = t.topic /\ u.script = t.script /\ u.stage = AfterPublish(k)
        BY <2>0, <2>v DEF TaskType
    <2>2. t.stage \in Working /\ u.stage # "aborted"
        BY <1>6, <2>1 DEF PublishFailed, Publishing, Working, AfterPublish
    <2>3. Update(k, u)
        BY <1>6, <2>1, <2>2 DEF PublishFailed
    <2> QED
        BY <2>2, <2>3
<1>7. CASE Join(k)
    <2> DEFINE u == [t EXCEPT !.stage =
                        IF t.script.verdict = "err" THEN "reporting" ELSE "done"]
    <2>1. u \in TaskType /\ u.topic = t.topic /\ u.script = t.script /\ u.stage # "aborted"
        BY <1>0 DEF TaskType, Working, Finished
    <2>2. Update(k, u)
        BY <1>7, <2>1 DEF Join
    <2> QED
        BY <1>7, <2>2 DEF Join, Working
<1>8. CASE Abort(k)
    <2> DEFINE u == [t EXCEPT !.stage = "aborted"]
    <2>1. u \in TaskType /\ u.topic = t.topic /\ u.script = t.script /\ u.stage = "aborted"
        BY <1>0 DEF TaskType, Finished
    <2>2. Update(k, u)
        BY <1>8, <2>1 DEF Abort
    <2> QED
        BY <1>8, <2>2 DEF Abort
<1> QED
    BY <1>1, <1>2, <1>3, <1>4, <1>5, <1>6, <1>7, <1>8 DEF DecodeAndPublish, Publish

----------------------------------------------------------------------------
(* Types *)

\* A task step keeps the types: only publishing touches a channel outside.
LEMMA TaskStepTypeOK ==
    ASSUME TypeOK, NEW k \in DOMAIN tasks, DecodeAndPublish(k)
    PROVE  TypeOK'
<1>1. PICK u : Update(k, u)
    BY TaskUpdate
<1>2. tasks' \in Seq(TaskType) /\ DOMAIN tasks' = DOMAIN tasks
    BY <1>1, ReplaceTask DEF TypeOK, Update
<1>3. requests' \in Seq(OutputType) /\ Len(requests') <= ReqCap
    <2>1. CASE PublishAccepted(k)
        <3>1. InHand(k) \in OutputType
            <4>1. k \in Nat
                BY DEF TypeOK
            <4>2. tasks[k].script.emits + 1 \in Nat /\ tasks[k].received \in Nat
                BY TaskRecord DEF TaskType, ScriptType
            <4> QED
                BY <4>1, <4>2 DEF InHand, OutputType
        <3> QED
            BY <2>1, <3>1, EngineAssumption, AppendProperties
               DEF PublishAccepted, HasRoom, TypeOK
    <2>2. CASE ~PublishAccepted(k)
        <3>1. requests' = requests
            BY <2>2 DEF DecodeAndPublish, Emit, DecodeReturn, DecodePanic, Receive,
                        Publish, PublishFailed, Join, Abort, channels
        <3> QED
            BY <3>1 DEF TypeOK
    <2> QED
        BY <2>1, <2>2
<1> QED
    BY <1>1, <1>2, <1>3 DEF TypeOK, Update, control

LEMMA RunTypeOK ==
    ASSUME TypeOK, Run
    PROVE  TypeOK'
<1> USE DEF channels, control
<1>1. CASE Skip
    <2>1. incoming' \in Seq(TopicType) /\ Len(incoming') <= InCap
        BY <1>1, EngineAssumption, HeadTailProperties DEF TypeOK, Skip
    <2> QED
        BY <1>1, <2>1 DEF TypeOK, Skip
<1>2. ASSUME NEW s \in AllScripts, Spawn(s) PROVE TypeOK'
    <2> DEFINE t == NewTask(Head(incoming), s)
    <2>1. /\ Head(incoming) \in TopicType
          /\ incoming' \in Seq(TopicType) /\ Len(incoming') <= InCap
        BY <1>2, EngineAssumption, HeadTailProperties DEF TypeOK, Spawn
    <2>2. s \in ScriptType
        BY EngineAssumption DEF AllScripts
    <2>3. t \in TaskType
        BY <2>1, <2>2 DEF NewTask, TaskType, Working
    <2>4. /\ tasks' \in Seq(TaskType)
          /\ DOMAIN tasks' = DOMAIN tasks \cup {Len(tasks) + 1}
        BY <1>2, <2>3, AppendProperties, LenProperties DEF TypeOK, Spawn
    <2>5. joinset' \subseteq DOMAIN tasks'
        BY <1>2, <2>4 DEF TypeOK, Spawn
    <2> QED
        BY <1>2, <2>1, <2>4, <2>5 DEF TypeOK, Spawn
<1>3. CASE IntakeClosed
    BY <1>3 DEF TypeOK, IntakeClosed, Phases
<1>4. CASE ObserveCancel
    BY <1>4 DEF TypeOK, ObserveCancel, Phases
<1>5. ASSUME NEW k \in joinset, Reap(k) PROVE TypeOK'
    BY <1>5 DEF TypeOK, Reap
<1>6. CASE Drained
    BY <1>6, EngineAssumption, EmptySeq DEF TypeOK, Drained, Phases
<1>7. CASE DrainTimeout
    BY <1>7, EngineAssumption, EmptySeq DEF TypeOK, DrainTimeout, Phases
<1> QED
    BY <1>1, <1>2, <1>3, <1>4, <1>5, <1>6, <1>7 DEF Run, Intake

LEMMA EnvironmentTypeOK ==
    ASSUME TypeOK, Environment
    PROVE  TypeOK'
<1> USE DEF channels, control
<1>1. ASSUME NEW t \in Topics, Deliver(t) PROVE TypeOK'
    <2>1. t \in TopicType
        BY EngineAssumption
    <2> QED
        BY <1>1, <2>1, EngineAssumption, AppendProperties DEF TypeOK, Deliver
<1>2. CASE TakeRequest
    <2>1. requests' \in Seq(OutputType) /\ Len(requests') <= ReqCap
        BY <1>2, EngineAssumption, HeadTailProperties DEF TypeOK, TakeRequest
    <2> QED
        BY <1>2, <2>1 DEF TypeOK, TakeRequest
<1>3. CASE Disconnect
    <2>1. requests' \in Seq(OutputType) /\ Len(requests') <= ReqCap
        BY <1>3, EngineAssumption, EmptySeq DEF Disconnect
    <2>2. connected' \in BOOLEAN
        BY <1>3, Zenon DEF Disconnect
    <2> QED
        BY <1>3, <2>1, <2>2 DEF TypeOK, Disconnect
<1>4. CASE Cancel
    BY <1>4 DEF TypeOK, Cancel
<1> QED
    BY <1>1, <1>2, <1>3, <1>4 DEF Environment

LEMMA InitTypeOK == Init => TypeOK
<1> SUFFICES ASSUME Init PROVE TypeOK
    OBVIOUS
<1>1. /\ incoming \in Seq(TopicType) /\ Len(incoming) <= InCap
      /\ requests \in Seq(OutputType) /\ Len(requests) <= ReqCap
      /\ tasks \in Seq(TaskType)
    BY EmptySeq, EngineAssumption DEF Init
<1>2. connected \in BOOLEAN /\ cancelled \in BOOLEAN /\ timedOut \in BOOLEAN
    BY Zenon DEF Init
<1>3. delivered \in Nat /\ phase \in Phases /\ joinset \subseteq DOMAIN tasks
    BY DEF Init, Phases
<1> QED
    BY <1>1, <1>2, <1>3 DEF TypeOK

LEMMA NextTypeOK == TypeOK /\ [Next]_vars => TypeOK'
<1>1. TypeOK /\ UNCHANGED vars => TypeOK'
    BY DEF TypeOK, vars, channels, control
<1> QED
    BY <1>1, TaskStepTypeOK, RunTypeOK, EnvironmentTypeOK DEF Next

\* Every channel stays within its capacity and the state keeps its type,
\* whatever the registry, the decoders and the environment do.
THEOREM EngineTypeOK == Spec => []TypeOK
    BY InitTypeOK, NextTypeOK, PTL DEF Spec

----------------------------------------------------------------------------
(* The concurrency budget *)

\* A step that starts no task keeps the budget.
LEMMA BudgetShrink ==
    ASSUME BudgetInv, InFlight' \subseteq InFlight,
           IsFiniteSet(joinset'), Cardinality(joinset') <= MaxConcurrent,
           phase' # "returned" => InFlight' \subseteq joinset'
    PROVE  BudgetInv'
<1>1. IsFiniteSet(InFlight) /\ Cardinality(InFlight) <= MaxConcurrent
    BY DEF BudgetInv, Budget
<1>2. /\ IsFiniteSet(InFlight')
      /\ Cardinality(InFlight') <= Cardinality(InFlight)
      /\ Cardinality(InFlight') \in Nat /\ Cardinality(InFlight) \in Nat
    BY <1>1, FS_Subset, FS_CardinalityType
<1>3. Budget'
    BY <1>1, <1>2, EngineAssumption DEF Budget
<1> QED
    BY <1>2, <1>3 DEF BudgetInv

LEMMA TaskStepInFlight ==
    ASSUME TypeOK, NEW k \in DOMAIN tasks, DecodeAndPublish(k)
    PROVE  k \in InFlight /\ InFlight' \subseteq InFlight
<1>1. tasks[k].stage \in Working /\ \E u : Update(k, u)
    BY TaskUpdate
<1>2. PICK u : Update(k, u)
    BY <1>1
<1>3. /\ DOMAIN tasks' = DOMAIN tasks
      /\ \A j \in DOMAIN tasks : j # k => tasks'[j] = tasks[j]
    BY <1>2, ReplaceTask DEF TypeOK, Update
<1> QED
    BY <1>1, <1>3 DEF InFlight

LEMMA SpawnBudget ==
    ASSUME TypeOK, BudgetInv, NEW s \in AllScripts, Spawn(s)
    PROVE  BudgetInv'
<1> DEFINE n == Len(tasks) + 1
<1>1. /\ DOMAIN tasks' = DOMAIN tasks \cup {n}
      /\ \A j \in DOMAIN tasks : tasks'[j] = tasks[j]
    BY DEF TypeOK, Spawn
<1>2. phase # "returned" /\ phase' = phase /\ joinset' = joinset \cup {n}
    BY DEF Spawn, control
<1>3. n \notin joinset
    BY DEF TypeOK
<1>4. IsFiniteSet(joinset) /\ Cardinality(joinset) \in Nat
    BY FS_CardinalityType DEF BudgetInv
<1>5. IsFiniteSet(joinset') /\ Cardinality(joinset') = Cardinality(joinset) + 1
    BY <1>2, <1>3, <1>4, FS_AddElement
<1>6. Cardinality(joinset') <= MaxConcurrent
    BY <1>4, <1>5, EngineAssumption DEF Spawn, HasBudget
<1>7. InFlight' \subseteq joinset'
    BY <1>1, <1>2 DEF InFlight, BudgetInv
<1>8. /\ IsFiniteSet(InFlight')
      /\ Cardinality(InFlight') <= Cardinality(joinset')
      /\ Cardinality(InFlight') \in Nat
    BY <1>5, <1>7, FS_Subset, FS_CardinalityType
<1>9. Budget'
    BY <1>4, <1>5, <1>6, <1>8, EngineAssumption DEF Budget
<1> QED
    BY <1>5, <1>6, <1>7, <1>8, <1>9 DEF BudgetInv

LEMMA RunBudget ==
    ASSUME TypeOK, BudgetInv, Run
    PROVE  BudgetInv'
<1> USE DEF channels, control
<1>1. CASE Skip
    <2>1. UNCHANGED <<tasks, joinset, phase>>
        BY <1>1 DEF Skip
    <2> QED
        BY <2>1 DEF BudgetInv, Budget, InFlight
<1>2. ASSUME NEW s \in AllScripts, Spawn(s) PROVE BudgetInv'
    BY <1>2, SpawnBudget
<1>3. CASE IntakeClosed \/ ObserveCancel
    <2>1. UNCHANGED <<tasks, joinset>> /\ phase # "returned"
        BY <1>3 DEF IntakeClosed, ObserveCancel
    <2> QED
        BY <2>1 DEF BudgetInv, Budget, InFlight
<1>4. ASSUME NEW k \in joinset, Reap(k) PROVE BudgetInv'
    <2>1. UNCHANGED <<tasks, phase>> /\ joinset' = joinset \ {k}
        BY <1>4 DEF Reap
    <2>2. k \notin InFlight
        BY <1>4 DEF Reap, InFlight, Working, Finished
    <2>3. /\ IsFiniteSet(joinset) /\ Cardinality(joinset) \in Nat
          /\ IsFiniteSet(joinset') /\ Cardinality(joinset') = Cardinality(joinset) - 1
        BY <2>1, FS_RemoveElement, FS_CardinalityType DEF BudgetInv
    <2>4. Cardinality(joinset') <= MaxConcurrent
        BY <2>3, EngineAssumption DEF BudgetInv
    <2>5. InFlight' = InFlight
        BY <2>1 DEF InFlight
    <2> QED
        BY <2>1, <2>2, <2>3, <2>4, <2>5, BudgetShrink DEF BudgetInv
<1>5. CASE Drained
    <2>1. UNCHANGED <<tasks, joinset>> /\ phase' = "returned"
        BY <1>5 DEF Drained
    <2> QED
        BY <2>1 DEF BudgetInv, Budget, InFlight
<1>6. CASE DrainTimeout
    <2>1. UNCHANGED tasks /\ joinset' = {} /\ phase' = "returned"
        BY <1>6 DEF DrainTimeout
    <2>2. IsFiniteSet(joinset') /\ Cardinality(joinset') <= MaxConcurrent
        BY <2>1, FS_EmptySet, EngineAssumption
    <2> QED
        BY <2>1, <2>2 DEF BudgetInv, Budget, InFlight
<1> QED
    BY <1>1, <1>2, <1>3, <1>4, <1>5, <1>6 DEF Run, Intake

LEMMA InitBudget == Init => BudgetInv
<1> SUFFICES ASSUME Init PROVE BudgetInv
    OBVIOUS
<1>1. joinset = {} /\ InFlight = {}
    BY DEF Init, InFlight
<1> QED
    BY <1>1, FS_EmptySet, EngineAssumption DEF BudgetInv, Budget

LEMMA NextBudget == TypeOK /\ BudgetInv /\ [Next]_vars => BudgetInv'
<1> SUFFICES ASSUME TypeOK, BudgetInv, [Next]_vars PROVE BudgetInv'
    OBVIOUS
<1>1. ASSUME NEW k \in DOMAIN tasks, DecodeAndPublish(k) PROVE BudgetInv'
    <2>1. joinset' = joinset /\ phase' = phase
        BY <1>1, TaskUpdate DEF Update, control
    <2> QED
        BY <1>1, <2>1, TaskStepInFlight, BudgetShrink DEF BudgetInv
<1>2. CASE Environment \/ UNCHANGED vars
    <2>1. UNCHANGED <<tasks, joinset, phase>>
        BY <1>2 DEF Environment, Deliver, TakeRequest, Disconnect, Cancel, vars, control
    <2> QED
        BY <2>1 DEF BudgetInv, Budget, InFlight
<1> QED
    BY <1>1, <1>2, RunBudget DEF Next

\* No more than max_concurrent_decodes messages are ever decoded at once,
\* though the loop only counts its join set (src/engine.rs:61, :82).
THEOREM EngineBudget == Spec => []Budget
<1>1. Spec => []BudgetInv
    BY InitBudget, NextBudget, EngineTypeOK, PTL DEF Spec
<1>2. BudgetInv => Budget
    BY DEF BudgetInv
<1> QED
    BY <1>1, <1>2, PTL

----------------------------------------------------------------------------
(* The two halves of a task *)

LEMMA TaskInvStep ==
    ASSUME TypeOK, NEW k \in DOMAIN tasks, TaskInv(k), DecodeAndPublish(k)
    PROVE  TaskInv(k)'
<1> DEFINE t == tasks[k]
<1>0. t \in TaskType /\ tasks \in Seq(TaskType) /\ connected' = connected
    BY TaskRecord, TaskUpdate DEF TypeOK, Update
<1>t. /\ t.emitted \in Nat /\ t.received \in Nat
      /\ t.accepted \in Nat /\ t.failed \in Nat
      /\ t.script.emits \in Nat
    BY <1>0 DEF TaskType, ScriptType
<1>1. CASE Emit(k)
    <2>1. tasks'[k] = [t EXCEPT !.emitted = @ + 1]
        BY <1>1, <1>0 DEF Emit
    <2>2. /\ tasks'[k].script = t.script /\ tasks'[k].emitted = t.emitted + 1
          /\ tasks'[k].received = t.received /\ tasks'[k].accepted = t.accepted
          /\ tasks'[k].failed = t.failed /\ tasks'[k].stage = t.stage
        BY <1>0, <2>1 DEF TaskType
    <2>3. Handled(k)' = Handled(k) /\ Owed(k)' = Owed(k)
        BY <2>2 DEF Handled, Owed
    <2> QED
        BY <1>1, <1>0, <1>t, <2>2, <2>3 DEF Emit, TaskInv
<1>2. CASE DecodeReturn(k)
    <2>1. tasks'[k] = [t EXCEPT !.stage = "draining"]
        BY <1>2, <1>0 DEF DecodeReturn
    <2>2. /\ tasks'[k].script = t.script /\ tasks'[k].emitted = t.emitted
          /\ tasks'[k].received = t.received /\ tasks'[k].accepted = t.accepted
          /\ tasks'[k].failed = t.failed /\ tasks'[k].stage = "draining"
        BY <1>0, <2>1 DEF TaskType
    <2> QED
        BY <1>2, <1>0, <1>t, <2>2 DEF DecodeReturn, TaskInv, Handled, Owed
<1>3. CASE DecodePanic(k)
    <2>1. tasks'[k] = [t EXCEPT !.stage = "panicked"]
        BY <1>3, <1>0 DEF DecodePanic
    <2>2. /\ tasks'[k].script = t.script /\ tasks'[k].emitted = t.emitted
          /\ tasks'[k].received = t.received /\ tasks'[k].accepted = t.accepted
          /\ tasks'[k].failed = t.failed /\ tasks'[k].stage = "panicked"
        BY <1>0, <2>1 DEF TaskType
    <2> QED
        BY <1>3, <1>0, <1>t, <2>2 DEF DecodePanic, TaskInv, Handled, Owed
<1>4. CASE Receive(k)
    <2>1. tasks'[k] = [t EXCEPT !.received = @ + 1]
        BY <1>4, <1>0 DEF Receive
    <2>2. /\ tasks'[k].script = t.script /\ tasks'[k].emitted = t.emitted
          /\ tasks'[k].received = t.received + 1 /\ tasks'[k].accepted = t.accepted
          /\ tasks'[k].failed = t.failed /\ tasks'[k].stage = t.stage
        BY <1>0, <2>1 DEF TaskType
    <2> QED
        BY <1>4, <1>0, <1>t, <2>2 DEF Receive, TaskInv, Handled, Owed
<1>5. CASE PublishAccepted(k)
    <2>1. tasks'[k] = [t EXCEPT !.accepted = @ + 1, !.stage = AfterPublish(k)]
        BY <1>5, <1>0 DEF PublishAccepted
    <2>2. /\ tasks'[k].script = t.script /\ tasks'[k].emitted = t.emitted
          /\ tasks'[k].received = t.received /\ tasks'[k].accepted = t.accepted + 1
          /\ tasks'[k].failed = t.failed /\ tasks'[k].stage = AfterPublish(k)
        BY <1>0, <2>1 DEF TaskType
    <2> QED
        <3>1. t.failed = 0
            BY <1>5 DEF PublishAccepted, TaskInv
        <3>2. CASE t.stage = "reporting"
            BY <1>5, <1>t, <2>2, <3>1, <3>2
               DEF PublishAccepted, TaskInv, Handled, Owed, AfterPublish
        <3>3. CASE t.stage # "reporting"
            BY <1>5, <1>t, <2>2, <3>1, <3>3
               DEF PublishAccepted, TaskInv, Handled, Owed, AfterPublish, Publishing
        <3> QED
            BY <3>2, <3>3
<1>6. CASE PublishFailed(k)
    <2>1. tasks'[k] = [t EXCEPT !.failed = @ + 1, !.stage = AfterPublish(k)]
        BY <1>6, <1>0 DEF PublishFailed
    <2>2. /\ tasks'[k].script = t.script /\ tasks'[k].emitted = t.emitted
          /\ tasks'[k].received = t.received /\ tasks'[k].accepted = t.accepted
          /\ tasks'[k].failed = t.failed + 1 /\ tasks'[k].stage = AfterPublish(k)
        BY <1>0, <2>1 DEF TaskType
    <2> QED
        <3>1. ~connected'
            BY <1>6, <1>0 DEF PublishFailed, PublishFails
        <3>2. CASE t.stage = "reporting"
            BY <1>6, <1>t, <2>2, <3>1, <3>2
               DEF PublishFailed, TaskInv, Handled, Owed, AfterPublish
        <3>3. CASE t.stage # "reporting"
            BY <1>6, <1>t, <2>2, <3>1, <3>3
               DEF PublishFailed, TaskInv, Handled, Owed, AfterPublish, Publishing
        <3> QED
            BY <3>2, <3>3
<1>7. CASE Join(k)
    <2>1. tasks'[k] = [t EXCEPT !.stage =
                          IF t.script.verdict = "err" THEN "reporting" ELSE "done"]
        BY <1>7, <1>0 DEF Join
    <2>2. /\ tasks'[k].script = t.script /\ tasks'[k].emitted = t.emitted
          /\ tasks'[k].received = t.received /\ tasks'[k].accepted = t.accepted
          /\ tasks'[k].failed = t.failed
          /\ tasks'[k].stage = IF t.script.verdict = "err" THEN "reporting" ELSE "done"
        BY <1>0, <2>1 DEF TaskType
    <2> QED
        <3>1. t.stage = "draining" /\ t.received = t.emitted /\ t.received = Handled(k)
            BY <1>7 DEF Join, Joined
        <3>2. Handled(k) = t.script.emits /\ Handled(k)' = Handled(k)
            BY <2>2, <3>1 DEF TaskInv, Handled, Owed
        <3>3. CASE t.script.verdict = "err"
            <4>1. Owed(k)' = t.script.emits + 1
                BY <1>t, <2>2, <3>3 DEF Owed
            <4> QED
                BY <1>0, <1>t, <2>2, <3>1, <3>2, <3>3, <4>1 DEF TaskInv
        <3>4. CASE t.script.verdict # "err"
            <4>1. Owed(k)' = t.script.emits
                BY <1>t, <2>2, <3>4 DEF Owed
            <4> QED
                BY <1>0, <2>2, <3>1, <3>2, <3>4, <4>1 DEF TaskInv
        <3> QED
            BY <3>3, <3>4
<1>8. CASE Abort(k)
    <2>1. tasks'[k] = [t EXCEPT !.stage = "aborted"]
        BY <1>8, <1>0 DEF Abort
    <2>2. /\ tasks'[k].script = t.script /\ tasks'[k].emitted = t.emitted
          /\ tasks'[k].received = t.received /\ tasks'[k].accepted = t.accepted
          /\ tasks'[k].failed = t.failed /\ tasks'[k].stage = "aborted"
        BY <1>0, <2>1 DEF TaskType
    <2> QED
        BY <1>8, <1>0, <1>t, <2>2 DEF Abort, TaskInv, Handled, Owed
<1> QED
    BY <1>1, <1>2, <1>3, <1>4, <1>5, <1>6, <1>7, <1>8 DEF DecodeAndPublish, Publish

LEMMA InitTasks == Init => AllTasksInv
<1> SUFFICES ASSUME Init PROVE AllTasksInv
    OBVIOUS
<1>1. DOMAIN tasks = {}
    BY DEF Init
<1> QED
    BY <1>1 DEF AllTasksInv

LEMMA NextTasks == TypeOK /\ AllTasksInv /\ [Next]_vars => AllTasksInv'
<1> SUFFICES ASSUME TypeOK, AllTasksInv, [Next]_vars PROVE AllTasksInv'
    OBVIOUS
<1>1. ASSUME NEW k \in DOMAIN tasks, DecodeAndPublish(k) PROVE AllTasksInv'
    <2>1. PICK u : Update(k, u)
        BY <1>1, TaskUpdate
    <2>2. /\ DOMAIN tasks' = DOMAIN tasks
          /\ \A j \in DOMAIN tasks : j # k => tasks'[j] = tasks[j]
        BY <2>1, ReplaceTask DEF TypeOK, Update
    <2>3. connected' = connected
        BY <2>1 DEF Update
    <2>4. \A j \in DOMAIN tasks : j # k => TaskInv(j)'
        BY <2>2, <2>3 DEF AllTasksInv, TaskInv, Handled, Owed
    <2>5. TaskInv(k)'
        BY <1>1, TaskInvStep DEF AllTasksInv
    <2> QED
        BY <2>2, <2>4, <2>5 DEF AllTasksInv
<1>2. ASSUME NEW s \in AllScripts, Spawn(s) PROVE AllTasksInv'
    <2> DEFINE t == NewTask(Head(incoming), s)
    <2>0. PICK n \in Nat : n = Len(tasks) + 1
        BY LenProperties DEF TypeOK
    <2>1. /\ DOMAIN tasks' = DOMAIN tasks \cup {n}
          /\ \A j \in DOMAIN tasks : tasks'[j] = tasks[j]
          /\ tasks'[n] = t
        BY <1>2, <2>0 DEF TypeOK, Spawn
    <2>2. connected' = connected
        BY <1>2 DEF Spawn
    <2>3. \A j \in DOMAIN tasks : TaskInv(j)'
        BY <2>1, <2>2 DEF AllTasksInv, TaskInv, Handled, Owed
    <2>4. s.emits \in Nat
        BY EngineAssumption DEF AllScripts, ScriptType
    <2>5. TaskInv(n)'
        BY <2>1, <2>4 DEF TaskInv, Handled, Owed, NewTask
    <2> QED
        BY <2>1, <2>3, <2>5 DEF AllTasksInv
<1>3. CASE \/ Skip \/ IntakeClosed \/ ObserveCancel \/ Drained \/ DrainTimeout
           \/ (\E k \in joinset : Reap(k)) \/ Environment \/ UNCHANGED vars
    <2>1. tasks' = tasks /\ (connected' => connected)
        BY <1>3 DEF Skip, IntakeClosed, ObserveCancel, Drained, DrainTimeout, Reap,
                    Environment, Deliver, TakeRequest, Disconnect, Cancel, vars, channels
    <2> QED
        BY <2>1 DEF AllTasksInv, TaskInv, Handled, Owed
<1> QED
    BY <1>1, <1>2, <1>3 DEF Next, Run, Intake

\* A task that ran to its end tried each of its outputs once, and none failed
\* while the connection lived (src/engine.rs:52, :159).
THEOREM EngineOutputsComplete == Spec => []OutputsComplete
<1>1. Spec => []AllTasksInv
    BY InitTasks, NextTasks, EngineTypeOK, PTL DEF Spec
<1>2. TypeOK /\ AllTasksInv => OutputsComplete
    <2> SUFFICES ASSUME TypeOK, AllTasksInv, NEW k \in DOMAIN tasks,
                        tasks[k].stage = "done"
                 PROVE  /\ Handled(k) = Owed(k)
                        /\ connected => tasks[k].accepted = Owed(k)
        BY DEF OutputsComplete
    <2>1. TaskInv(k)
        BY DEF AllTasksInv
    <2>2. tasks[k].accepted \in Nat
        BY TaskRecord DEF TaskType
    <2> QED
        BY <2>1, <2>2 DEF TaskInv, Handled
<1> QED
    BY <1>1, <1>2, EngineTypeOK, PTL

----------------------------------------------------------------------------
(* The drain *)

LEMMA InitDrain == Init => DrainInv
<1> SUFFICES ASSUME Init PROVE DrainInv
    OBVIOUS
<1>1. DOMAIN tasks = {} /\ ~timedOut /\ phase = "running"
    BY DEF Init
<1> QED
    BY <1>1 DEF DrainInv

LEMMA NextDrain == TypeOK /\ BudgetInv /\ DrainInv /\ [Next]_vars => DrainInv'
<1> SUFFICES ASSUME TypeOK, BudgetInv, DrainInv, [Next]_vars PROVE DrainInv'
    OBVIOUS
<1>1. ASSUME NEW k \in DOMAIN tasks, DecodeAndPublish(k) PROVE DrainInv'
    <2>1. PICK u : Update(k, u)
        BY <1>1, TaskUpdate
    <2>2. /\ DOMAIN tasks' = DOMAIN tasks /\ tasks'[k] = u
          /\ \A j \in DOMAIN tasks : j # k => tasks'[j] = tasks[j]
        BY <2>1, ReplaceTask DEF TypeOK, Update
    <2>3. phase' = phase /\ timedOut' = timedOut
        BY <2>1 DEF Update, control
    <2>4. k \in InFlight /\ InFlight' \subseteq InFlight
        BY <1>1, TaskStepInFlight
    <2>5. ~timedOut => phase # "returned"
        BY <2>4 DEF DrainInv
    <2>6. ~timedOut => u.stage # "aborted"
        BY <2>1, <2>5 DEF Update
    <2> QED
        BY <2>2, <2>3, <2>5, <2>6 DEF DrainInv
<1>2. ASSUME NEW s \in AllScripts, Spawn(s) PROVE DrainInv'
    <2>1. /\ DOMAIN tasks' = DOMAIN tasks \cup {Len(tasks) + 1}
          /\ \A j \in DOMAIN tasks : tasks'[j] = tasks[j]
          /\ tasks'[Len(tasks) + 1].stage = "decoding"
        BY <1>2 DEF TypeOK, Spawn, NewTask
    <2>2. phase = "running" /\ phase' = phase /\ timedOut' = timedOut
        BY <1>2 DEF Spawn, control
    <2> QED
        BY <2>1, <2>2 DEF DrainInv
<1>3. CASE Drained
    <2>1. InFlight = {}
        BY <1>3 DEF Drained, AllReaped, BudgetInv
    <2>2. tasks' = tasks /\ timedOut' = timedOut /\ phase' = "returned"
        BY <1>3 DEF Drained
    <2> QED
        BY <2>1, <2>2 DEF DrainInv, InFlight
<1>4. CASE DrainTimeout
    <2>1. timedOut' /\ phase' = "returned"
        BY <1>4 DEF DrainTimeout
    <2> QED
        BY <2>1 DEF DrainInv
<1>5. CASE IntakeClosed \/ ObserveCancel
    <2>1. tasks' = tasks /\ timedOut' = timedOut /\ ~timedOut /\ phase' = "draining"
        BY <1>5 DEF IntakeClosed, ObserveCancel, DrainInv
    <2> QED
        BY <2>1 DEF DrainInv
<1>6. CASE Skip \/ (\E k \in joinset : Reap(k)) \/ Environment \/ UNCHANGED vars
    <2>1. UNCHANGED <<tasks, phase, timedOut>>
        BY <1>6 DEF Skip, Reap, Environment, Deliver, TakeRequest, Disconnect, Cancel,
                    vars, control
    <2> QED
        BY <2>1 DEF DrainInv, InFlight
<1> QED
    BY <1>1, <1>2, <1>3, <1>4, <1>5, <1>6 DEF Next, Run, Intake

\* run returns without a timeout only after every task it accepted has run to
\* its end (src/engine.rs:65, :97).
THEOREM EngineDrainedMeansFinished == Spec => []DrainedMeansFinished
<1>1. Spec => []BudgetInv
    BY InitBudget, NextBudget, EngineTypeOK, PTL DEF Spec
<1>2. Spec => []DrainInv
    BY <1>1, InitDrain, NextDrain, EngineTypeOK, PTL DEF Spec
<1>3. TypeOK /\ DrainInv => DrainedMeansFinished
    <2> SUFFICES ASSUME TypeOK, DrainInv, phase = "returned", ~timedOut,
                        NEW k \in DOMAIN tasks
                 PROVE  tasks[k].stage \in {"done", "panicked"}
        BY DEF DrainedMeansFinished
    <2>1. tasks[k].stage \in Working \cup Finished
        BY TaskRecord DEF TaskType
    <2>2. tasks[k].stage \notin Working /\ tasks[k].stage # "aborted"
        BY DEF DrainInv, InFlight
    <2> QED
        BY <2>1, <2>2 DEF Finished
<1> QED
    BY <1>2, <1>3, EngineTypeOK, PTL

----------------------------------------------------------------------------
(* The order of the outputs *)

\* A step that leaves the queue alone, and the count of what each task behind
\* it has handed over.
LEMMA QueueKept ==
    ASSUME QueueInv, requests' = requests, ~connected' => ~connected,
           \A j \in DOMAIN tasks :
               j \in DOMAIN tasks' /\ tasks'[j].accepted = tasks[j].accepted
    PROVE  QueueInv'
<1>1. \A p \in DOMAIN requests : requests[p].task \in DOMAIN tasks
    BY DEF QueueInv
<1>2. OutputsInOrder'
    BY <1>1 DEF QueueInv, OutputsInOrder
<1> QED
    BY <1>1, <1>2 DEF QueueInv

\* The output in hand is the next one in the order of the decode call.
LEMMA NextInOrder ==
    ASSUME TypeOK, NEW k \in DOMAIN tasks, TaskInv(k), PublishAccepted(k)
    PROVE  /\ InHand(k) = [task |-> k, seq |-> tasks[k].accepted + 1]
           /\ tasks'[k].accepted = tasks[k].accepted + 1
<1> DEFINE t == tasks[k]
<1>1. t \in TaskType
    BY TaskRecord
<1>2. /\ t.received \in Nat /\ t.accepted \in Nat /\ t.failed = 0
      /\ t.script.emits \in Nat
    BY <1>1 DEF TaskType, ScriptType, PublishAccepted, TaskInv
<1>3. tasks' = [tasks EXCEPT ![k] = [t EXCEPT !.accepted = @ + 1, !.stage = AfterPublish(k)]]
    BY DEF PublishAccepted
<1>4. tasks'[k].accepted = t.accepted + 1
    BY <1>1, <1>3 DEF TaskType, TypeOK
<1>5. CASE t.stage = "reporting"
    BY <1>2, <1>4, <1>5 DEF InHand, TaskInv, Handled
<1>6. CASE t.stage # "reporting"
    BY <1>2, <1>4, <1>6 DEF InHand, TaskInv, Handled, PublishAccepted, Publishing
<1> QED
    BY <1>5, <1>6

LEMMA AcceptedOrder ==
    ASSUME TypeOK, AllTasksInv, QueueInv, NEW k \in DOMAIN tasks, PublishAccepted(k)
    PROVE  QueueInv'
<1> DEFINE m == tasks[k].accepted + 1
<1>0. PICK L \in Nat : L = Len(requests)
    BY LenProperties DEF TypeOK
<1>1. PICK o : o = [task |-> k, seq |-> m]
    OBVIOUS
<1>2. /\ InHand(k) = o /\ tasks'[k].accepted = m /\ tasks[k].accepted \in Nat
    BY <1>1, NextInOrder, TaskRecord DEF AllTasksInv, TaskType
<1>3. /\ DOMAIN tasks' = DOMAIN tasks
      /\ \A j \in DOMAIN tasks : j # k => tasks'[j].accepted = tasks[j].accepted
    <2>1. PICK u : Update(k, u)
        BY TaskUpdate DEF DecodeAndPublish, Publish
    <2> QED
        BY <2>1, ReplaceTask DEF TypeOK, Update
<1>4. /\ DOMAIN requests = 1 .. L /\ DOMAIN requests' = 1 .. (L + 1)
      /\ Len(requests') = L + 1
      /\ requests'[L + 1] = o
      /\ \A p \in 1 .. L : requests'[p] = requests[p]
      /\ connected' /\ connected
    BY <1>0, <1>2 DEF TypeOK, PublishAccepted
<1>5. \A p \in 1 .. L : requests[p] \in OutputType
    BY <1>4 DEF TypeOK
<1>6. \A p \in 1 .. (L + 1) : requests'[p].task \in DOMAIN tasks'
    BY <1>1, <1>3, <1>4 DEF QueueInv
<1>7. ASSUME NEW p \in DOMAIN requests', NEW j, j = requests'[p].task
      PROVE  /\ requests'[p].seq <= tasks'[j].accepted
             /\ \A n \in requests'[p].seq .. tasks'[j].accepted :
                   \E q \in p .. Len(requests') : requests'[q] = [task |-> j, seq |-> n]
             /\ \A q \in (p + 1) .. Len(requests') :
                   requests'[q].task = j => requests'[p].seq < requests'[q].seq
    <2>1. CASE p = L + 1
        <3>1. j = k /\ requests'[p].seq = m
            BY <1>1, <1>4, <1>7, <2>1
        <3> QED
            BY <1>0, <1>1, <1>2, <1>4, <2>1, <3>1
    <2>2. CASE p # L + 1
        <3>1. p \in 1 .. L /\ requests'[p] = requests[p]
            BY <1>0, <1>4, <2>2
        <3>2. requests[p].seq \in Nat /\ j \in DOMAIN tasks
            BY <1>4, <1>5, <1>7, <3>1 DEF OutputType, QueueInv
        <3>3. /\ requests[p].seq <= tasks[j].accepted
              /\ \A n \in requests[p].seq .. tasks[j].accepted :
                    \E q \in p .. L : requests[q] = [task |-> j, seq |-> n]
              /\ \A q \in (p + 1) .. L :
                    requests[q].task = j => requests[p].seq < requests[q].seq
            BY <1>0, <1>4, <1>7, <3>1 DEF QueueInv, OutputsInOrder
        <3>4. tasks[j].accepted \in Nat
            BY <3>2, TaskRecord DEF TaskType
        <3>5. CASE j # k
            <4>1. tasks'[j].accepted = tasks[j].accepted /\ o.task # j
                BY <1>1, <1>3, <3>2, <3>5
            <4> QED
                BY <1>0, <1>4, <3>1, <3>2, <3>3, <3>4, <4>1
        <3>6. CASE j = k
            <4>1. requests'[p].seq <= m
                BY <1>2, <3>1, <3>2, <3>3, <3>6
            <4>2. ASSUME NEW n \in requests'[p].seq .. m
                  PROVE  \E q \in p .. (L + 1) : requests'[q] = [task |-> k, seq |-> n]
                <5>1. CASE n = m
                    BY <1>0, <1>1, <1>4, <3>1, <5>1
                <5>2. CASE n # m
                    <6>1. n \in requests[p].seq .. tasks[j].accepted
                        BY <1>2, <3>1, <3>2, <3>6, <4>2, <5>2
                    <6>2. PICK q \in p .. L : requests[q] = [task |-> j, seq |-> n]
                        BY <3>3, <6>1
                    <6> QED
                        BY <1>0, <1>4, <3>1, <3>6, <6>2
                <5> QED
                    BY <5>1, <5>2
            <4>3. ASSUME NEW q \in (p + 1) .. (L + 1), requests'[q].task = k
                  PROVE  requests'[p].seq < requests'[q].seq
                <5>1. CASE q = L + 1
                    BY <1>1, <1>2, <1>4, <3>1, <3>2, <3>3, <3>6, <5>1
                <5>2. CASE q # L + 1
                    BY <1>0, <1>4, <3>1, <3>3, <3>6, <4>3, <5>2
                <5> QED
                    BY <5>1, <5>2
            <4> QED
                BY <1>2, <1>4, <3>6, <4>1, <4>2, <4>3
        <3> QED
            BY <3>5, <3>6
    <2> QED
        BY <2>1, <2>2
<1>8. OutputsInOrder'
    BY <1>7 DEF OutputsInOrder
<1> QED
    BY <1>4, <1>6, <1>8 DEF QueueInv

LEMMA TakenOrder ==
    ASSUME TypeOK, QueueInv, TakeRequest
    PROVE  QueueInv'
<1>0. PICK L \in Nat : L = Len(requests)
    BY LenProperties DEF TypeOK
<1>1. /\ L >= 1 /\ DOMAIN requests = 1 .. L
      /\ DOMAIN requests' = 1 .. (L - 1) /\ Len(requests') = L - 1
      /\ \A p \in 1 .. (L - 1) : requests'[p] = requests[p + 1]
      /\ tasks' = tasks /\ connected /\ connected'
    BY <1>0 DEF TypeOK, TakeRequest
<1>2. \A p \in 1 .. (L - 1) : requests'[p].task \in DOMAIN tasks'
    BY <1>0, <1>1 DEF QueueInv
<1>3. ASSUME NEW p \in DOMAIN requests', NEW k, k = requests'[p].task
      PROVE  /\ requests'[p].seq <= tasks'[k].accepted
             /\ \A n \in requests'[p].seq .. tasks'[k].accepted :
                   \E q \in p .. Len(requests') : requests'[q] = [task |-> k, seq |-> n]
             /\ \A q \in (p + 1) .. Len(requests') :
                   requests'[q].task = k => requests'[p].seq < requests'[q].seq
    <2>1. p \in 1 .. (L - 1) /\ p + 1 \in 1 .. L /\ requests'[p] = requests[p + 1]
        BY <1>0, <1>1
    <2>2. /\ requests[p + 1].seq <= tasks[k].accepted
          /\ \A n \in requests[p + 1].seq .. tasks[k].accepted :
                \E q \in (p + 1) .. L : requests[q] = [task |-> k, seq |-> n]
          /\ \A q \in (p + 2) .. L :
                requests[q].task = k => requests[p + 1].seq < requests[q].seq
        BY <1>0, <1>1, <1>3, <2>1 DEF QueueInv, OutputsInOrder
    <2>3. ASSUME NEW n \in requests[p + 1].seq .. tasks[k].accepted
          PROVE  \E q \in p .. (L - 1) : requests'[q] = [task |-> k, seq |-> n]
        <3>1. PICK q \in (p + 1) .. L : requests[q] = [task |-> k, seq |-> n]
            BY <2>2, <2>3
        <3>2. q - 1 \in p .. (L - 1) /\ requests'[q - 1] = requests[q]
            BY <1>0, <1>1, <2>1
        <3> QED
            BY <3>1, <3>2
    <2>4. ASSUME NEW q \in (p + 1) .. (L - 1), requests'[q].task = k
          PROVE  requests'[p].seq < requests'[q].seq
        <3>1. q + 1 \in (p + 2) .. L /\ requests'[q] = requests[q + 1]
            BY <1>0, <1>1, <2>1
        <3> QED
            BY <2>1, <2>2, <2>4, <3>1
    <2> QED
        BY <1>1, <2>1, <2>2, <2>3, <2>4
<1>4. OutputsInOrder'
    BY <1>3 DEF OutputsInOrder
<1> QED
    BY <1>1, <1>2, <1>4 DEF QueueInv

LEMMA NextQueue == TypeOK /\ AllTasksInv /\ QueueInv /\ [Next]_vars => QueueInv'
<1> SUFFICES ASSUME TypeOK, AllTasksInv, QueueInv, [Next]_vars PROVE QueueInv'
    OBVIOUS
<1>1. ASSUME NEW k \in DOMAIN tasks, DecodeAndPublish(k) PROVE QueueInv'
    <2>1. PICK u : Update(k, u)
        BY <1>1, TaskUpdate
    <2>2. /\ DOMAIN tasks' = DOMAIN tasks
          /\ \A j \in DOMAIN tasks : j # k => tasks'[j] = tasks[j]
          /\ connected' = connected
        BY <2>1, ReplaceTask DEF TypeOK, Update
    <2>3. CASE PublishAccepted(k)
        BY <2>3, AcceptedOrder
    <2>4. CASE PublishFailed(k)
        <3>1. requests' = << >>
            BY <2>4 DEF PublishFailed, PublishFails, QueueInv, channels
        <3> QED
            BY <3>1 DEF QueueInv, OutputsInOrder
    <2>5. CASE ~PublishAccepted(k) /\ ~PublishFailed(k)
        <3>1. requests' = requests /\ tasks'[k].accepted = tasks[k].accepted
            <4>1. tasks[k] \in TaskType
                BY TaskRecord
            <4> QED
                BY <1>1, <2>5, <4>1
                   DEF DecodeAndPublish, Publish, Emit, DecodeReturn, DecodePanic,
                       Receive, Join, Abort, channels, TaskType, TypeOK
        <3> QED
            BY <2>2, <3>1, QueueKept
    <2> QED
        BY <2>3, <2>4, <2>5
<1>2. ASSUME NEW s \in AllScripts, Spawn(s) PROVE QueueInv'
    <2>1. /\ \A j \in DOMAIN tasks : j \in DOMAIN tasks' /\ tasks'[j] = tasks[j]
          /\ requests' = requests /\ connected' = connected
        BY <1>2 DEF TypeOK, Spawn
    <2> QED
        BY <2>1, QueueKept
<1>3. CASE TakeRequest
    BY <1>3, TakenOrder
<1>4. CASE Disconnect
    <2>1. requests' = << >>
        BY <1>4 DEF Disconnect
    <2> QED
        BY <2>1 DEF QueueInv, OutputsInOrder
<1>5. CASE \/ Skip \/ IntakeClosed \/ ObserveCancel \/ Drained \/ DrainTimeout
           \/ (\E k \in joinset : Reap(k)) \/ (\E t \in Topics : Deliver(t))
           \/ Cancel \/ UNCHANGED vars
    <2>1. UNCHANGED <<tasks, requests, connected>>
        BY <1>5 DEF Skip, IntakeClosed, ObserveCancel, Drained, DrainTimeout, Reap,
                    Deliver, Cancel, vars, channels
    <2> QED
        BY <2>1, QueueKept
<1> QED
    BY <1>1, <1>2, <1>3, <1>4, <1>5 DEF Next, Run, Intake, Environment

\* The outputs of one message enter the request channel in the order of the
\* decode call, each once and none left out, an error message last
\* (src/engine.rs:169, :176).
THEOREM EngineOutputsInOrder == Spec => []OutputsInOrder
<1>1. Init => QueueInv
    BY DEF Init, QueueInv, OutputsInOrder
<1>2. Spec => []AllTasksInv
    BY InitTasks, NextTasks, EngineTypeOK, PTL DEF Spec
<1>3. Spec => []QueueInv
    BY <1>1, <1>2, NextQueue, EngineTypeOK, PTL DEF Spec
<1>4. QueueInv => OutputsInOrder
    BY DEF QueueInv
<1> QED
    BY <1>3, <1>4, PTL

----------------------------------------------------------------------------
(* The parts together: what a module that composes the engine needs. *)

LEMMA InitEngine == Init => EngineInv
<1>1. Init => QueueInv
    BY DEF Init, QueueInv, OutputsInOrder
<1> QED
    BY <1>1, InitTypeOK, InitTasks, InitBudget, InitDrain DEF EngineInv

LEMMA NextEngine == EngineInv /\ [Next]_vars => EngineInv'
    BY NextTypeOK, NextTasks, NextBudget, NextDrain, NextQueue DEF EngineInv

\* EngineInv holds initially and each step keeps it: the lemmas of every part
\* hold together in every reachable state.
THEOREM EngineInductive == Spec => []EngineInv
    BY InitEngine, NextEngine, PTL DEF Spec
============================================================================
