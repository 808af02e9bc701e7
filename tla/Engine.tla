------------------------------- MODULE Engine -------------------------------
(***************************************************************************)
(* The decode/republish engine of src/engine.rs: the select! loop of run,  *)
(* the task it spawns for a message, and the bounded drain at shutdown.    *)
(* The environment fills `incoming`, empties `requests` (the channel of    *)
(* the MQTT client), may lose the connection and may cancel.               *)
(*                                                                         *)
(* An action is the code between two await points of one task, or one      *)
(* select! branch of the loop.                                             *)
(***************************************************************************)
EXTENDS Lookup, DecodePublish, FiniteSets

CONSTANTS
    Entries,         \* the registry the engine was given
    Topics,          \* topics of the messages delivered
    Scripts,         \* decoder -> what one call of its decode may do
    MaxConcurrent,   \* max_concurrent_decodes
    InCap,           \* capacity of the incoming channel
    ReqCap,          \* capacity of the client's request channel
    EmitCap,         \* DECODE_CHANNEL_CAPACITY
    MaxMessages      \* bound on the messages delivered

Verdicts == {"ok", "err", "panic", "hang"}

\* A call of decode sends `emits` messages, to the topic `to` if it names one,
\* then returns Ok or Err, panics, or never returns.
ScriptType == [emits : Nat, verdict : Verdicts, to : Optional(TopicType)]

ASSUME EngineAssumption ==
    /\ Entries \in Seq([filter : FilterType, decoder : DOMAIN Scripts])
    /\ NoDecoder \notin DOMAIN Scripts
    /\ \A d \in DOMAIN Scripts : Scripts[d] \subseteq ScriptType
    /\ Topics \subseteq TopicType
    /\ MaxConcurrent \in Nat \ {0}
    /\ InCap \in Nat \ {0}
    /\ ReqCap \in Nat \ {0}
    /\ EmitCap \in Nat \ {0}
    /\ MaxMessages \in Nat

VARIABLES
    incoming,    \* topics of the messages waiting in the incoming channel
    requests,    \* outputs queued in the client's request channel
    connected,   \* the client's event loop and the sender of incoming live
    delivered,   \* how many messages were put into incoming
    cancelled,   \* the shutdown token
    phase,       \* where run is
    timedOut,    \* the drain gave up
    tasks,       \* every decode task spawned, in the order of intake
    joinset      \* indices of the tasks not reaped yet

channels == <<incoming, requests, connected, delivered>>
control == <<cancelled, phase, timedOut>>
vars == <<channels, control, tasks, joinset>>

Phases == {"running", "draining", "returned"}
Working == {"decoding", "draining", "reporting"}
Finished == {"done", "panicked", "aborted"}

TaskType == [topic : TopicType, script : ScriptType,
             emitted : Nat,     \* sent into the emission channel
             received : Nat,    \* taken out of it by the drain half
             accepted : Nat,    \* outputs the request channel took
             failed : Nat,      \* outputs whose publish returned an error
             stage : Working \cup Finished]

\* The seq-th output of a task, on its way to the broker.
OutputType == [task : Nat, seq : Nat]

----------------------------------------------------------------------------
Ignored(t) == IsOwnOutput(t) \/ Resolve(Entries, t) = NoDecoder

NewTask(t, s) == [topic |-> t, script |-> s, emitted |-> 0, received |-> 0,
                  accepted |-> 0, failed |-> 0, stage |-> "decoding"]

\* One task too many (a mutant of HasBudget).
HasBudgetOffByOne == Cardinality(joinset) <= MaxConcurrent

\* tasks.len() counts the tasks that have finished and are not reaped, too.
HasBudget == Cardinality(joinset) < MaxConcurrent

Init ==
    /\ incoming = << >>
    /\ requests = << >>
    /\ connected = TRUE
    /\ delivered = 0
    /\ cancelled = FALSE
    /\ phase = "running"
    /\ timedOut = FALSE
    /\ tasks = << >>
    /\ joinset = {}

----------------------------------------------------------------------------
(* run: the select! loop.  It picks any branch that is ready.              *)

\* handle_incoming on our own output, or on a topic without a decoder.
Skip ==
    /\ phase = "running"
    /\ HasBudget
    /\ incoming # << >>
    /\ Ignored(Head(incoming))
    /\ incoming' = Tail(incoming)
    /\ UNCHANGED <<requests, connected, delivered, control, tasks, joinset>>

\* handle_incoming on a topic with a decoder.
Spawn(s) ==
    /\ phase = "running"
    /\ HasBudget
    /\ incoming # << >>
    /\ ~Ignored(Head(incoming))
    /\ s \in Scripts[Resolve(Entries, Head(incoming))]
    /\ incoming' = Tail(incoming)
    /\ tasks' = Append(tasks, NewTask(Head(incoming), s))
    /\ joinset' = joinset \cup {Len(tasks) + 1}
    /\ UNCHANGED <<requests, connected, delivered, control>>

\* recv returns None: the sender is gone and the channel is empty.
IntakeClosed ==
    /\ phase = "running"
    /\ HasBudget
    /\ incoming = << >>
    /\ ~connected
    /\ phase' = "draining"
    /\ UNCHANGED <<channels, cancelled, timedOut, tasks, joinset>>

ObserveCancel ==
    /\ phase = "running"
    /\ cancelled
    /\ phase' = "draining"
    /\ UNCHANGED <<channels, cancelled, timedOut, tasks, joinset>>

\* join_next offered only while there is budget (a mutant of Reap).
ReapWithinBudget(k) ==
    /\ HasBudget
    /\ phase # "returned"
    /\ k \in joinset
    /\ tasks[k].stage \in Finished
    /\ joinset' = joinset \ {k}
    /\ UNCHANGED <<channels, control, tasks>>

\* join_next, in the loop and in drain.
Reap(k) ==
    /\ phase # "returned"
    /\ k \in joinset
    /\ tasks[k].stage \in Finished
    /\ joinset' = joinset \ {k}
    /\ UNCHANGED <<channels, control, tasks>>

\* A drain that does not join (a mutant of AllReaped).
AllReapedAtOnce == TRUE

AllReaped == joinset = {}

\* Returning drops the receiver of incoming, with what is left in it.
Drained ==
    /\ phase = "draining"
    /\ AllReaped
    /\ phase' = "returned"
    /\ incoming' = << >>
    /\ UNCHANGED <<requests, connected, delivered, cancelled, timedOut, tasks, joinset>>

\* No bound on the drain (a mutant of Overdue).
OverdueNever == FALSE

\* Time is not modelled: the timeout may fire whenever some task still works.
Overdue == \E k \in joinset : tasks[k].stage \in Working

DrainTimeout ==
    /\ phase = "draining"
    /\ Overdue
    /\ phase' = "returned"
    /\ timedOut' = TRUE
    /\ incoming' = << >>
    /\ joinset' = {}
    /\ UNCHANGED <<requests, connected, delivered, cancelled, tasks>>

----------------------------------------------------------------------------
(* decode_and_publish: the decoder and the drain half run interleaved      *)
(* (join!), joined by a bounded emission channel; an error comes last.     *)

Handled(k) == tasks[k].accepted + tasks[k].failed

\* The decoder's k-th tx.send, when the channel has room.
Emit(k) ==
    /\ tasks[k].stage = "decoding"
    /\ tasks[k].emitted < tasks[k].script.emits
    /\ tasks[k].emitted - tasks[k].received < EmitCap
    /\ tasks' = [tasks EXCEPT ![k].emitted = @ + 1]
    /\ UNCHANGED <<channels, control, joinset>>

\* decode returns and drops its sender.
DecodeReturn(k) ==
    /\ tasks[k].stage = "decoding"
    /\ tasks[k].emitted = tasks[k].script.emits
    /\ tasks[k].script.verdict \in {"ok", "err"}
    /\ tasks' = [tasks EXCEPT ![k].stage = "draining"]
    /\ UNCHANGED <<channels, control, joinset>>

\* A panic of the decoder takes the drain half with it.
DecodePanic(k) ==
    /\ tasks[k].stage = "decoding"
    /\ tasks[k].emitted = tasks[k].script.emits
    /\ tasks[k].script.verdict = "panic"
    /\ tasks' = [tasks EXCEPT ![k].stage = "panicked"]
    /\ UNCHANGED <<channels, control, joinset>>

\* rx.recv in the drain half, which publishes one message before the next.
Receive(k) ==
    /\ tasks[k].stage \in {"decoding", "draining"}
    /\ tasks[k].received < tasks[k].emitted
    /\ tasks[k].received = Handled(k)
    /\ tasks' = [tasks EXCEPT ![k].received = @ + 1]
    /\ UNCHANGED <<channels, control, joinset>>

\* An await on client.publish is pending.
Publishing(k) ==
    \/ tasks[k].stage \in {"decoding", "draining"} /\ Handled(k) < tasks[k].received
    \/ tasks[k].stage = "reporting"

\* The output in hand: the message received last, or the error message.
InHand(k) == [task |-> k,
              seq |-> IF tasks[k].stage = "reporting"
                      THEN tasks[k].script.emits + 1 ELSE tasks[k].received]

AfterPublish(k) == IF tasks[k].stage = "reporting" THEN "done" ELSE tasks[k].stage

\* An unbounded request channel (a mutant of HasRoom).
HasRoomAlways == TRUE

HasRoom == Len(requests) < ReqCap

\* The request channel takes the output; the broker has not seen it yet.
PublishAccepted(k) ==
    /\ Publishing(k)
    /\ connected
    /\ HasRoom
    /\ requests' = Append(requests, InHand(k))
    /\ tasks' = [tasks EXCEPT ![k].accepted = @ + 1, ![k].stage = AfterPublish(k)]
    /\ UNCHANGED <<incoming, connected, delivered, control, joinset>>

\* A publish that does not wait for room (a mutant of PublishFails).
PublishFailsWhenFull == ~connected \/ ~HasRoom

\* publish awaits room; it fails once the event loop is gone.  Its other error,
\* for a topic with wildcards, is out of the way: ScriptType has no such topic.
PublishFails == ~connected

\* The failure is logged and the task goes on.
PublishFailed(k) ==
    /\ Publishing(k)
    /\ PublishFails
    /\ tasks' = [tasks EXCEPT ![k].failed = @ + 1, ![k].stage = AfterPublish(k)]
    /\ UNCHANGED <<channels, control, joinset>>

\* The first of the two futures to finish ends the task (a mutant of Joined).
JoinedByDecode(k) == tasks[k].received = Handled(k)

\* join! waits for the drain half, which ends when the channel is empty.
Joined(k) ==
    /\ tasks[k].received = tasks[k].emitted
    /\ tasks[k].received = Handled(k)

Join(k) ==
    /\ tasks[k].stage = "draining"
    /\ Joined(k)
    /\ tasks' = [tasks EXCEPT ![k].stage =
                    IF tasks[k].script.verdict = "err" THEN "reporting" ELSE "done"]
    /\ UNCHANGED <<channels, control, joinset>>

\* Dropping the JoinSet aborts a task at its next await, not at once.
Abort(k) ==
    /\ phase = "returned"
    /\ tasks[k].stage \in Working
    /\ tasks' = [tasks EXCEPT ![k].stage = "aborted"]
    /\ UNCHANGED <<channels, control, joinset>>

----------------------------------------------------------------------------
(* The environment: the client's driver and main.                          *)

Deliver(t) ==
    /\ connected
    /\ phase # "returned"
    /\ Len(incoming) < InCap
    /\ delivered < MaxMessages
    /\ incoming' = Append(incoming, t)
    /\ delivered' = delivered + 1
    /\ UNCHANGED <<requests, connected, control, tasks, joinset>>

TakeRequest ==
    /\ connected
    /\ requests # << >>
    /\ requests' = Tail(requests)
    /\ UNCHANGED <<incoming, connected, delivered, control, tasks, joinset>>

\* The event loop is dropped, and with it what is queued in its channel.
Disconnect ==
    /\ connected
    /\ connected' = FALSE
    /\ requests' = << >>
    /\ UNCHANGED <<incoming, delivered, control, tasks, joinset>>

Cancel ==
    /\ ~cancelled
    /\ cancelled' = TRUE
    /\ UNCHANGED <<channels, phase, timedOut, tasks, joinset>>

----------------------------------------------------------------------------
AllScripts == UNION {Scripts[d] : d \in DOMAIN Scripts}

Intake == Skip \/ \E s \in AllScripts : Spawn(s)

Run ==
    \/ Intake
    \/ IntakeClosed
    \/ ObserveCancel
    \/ \E k \in joinset : Reap(k)
    \/ Drained
    \/ DrainTimeout

Publish(k) == PublishAccepted(k) \/ PublishFailed(k)

DecodeAndPublish(k) ==
    \/ Emit(k)
    \/ DecodeReturn(k)
    \/ DecodePanic(k)
    \/ Receive(k)
    \/ Publish(k)
    \/ Join(k)
    \/ Abort(k)

Environment ==
    \/ \E t \in Topics : Deliver(t)
    \/ TakeRequest
    \/ Disconnect
    \/ Cancel

Next ==
    \/ Run
    \/ \E k \in DOMAIN tasks : DecodeAndPublish(k)
    \/ Environment

Spec == Init /\ [][Next]_vars

----------------------------------------------------------------------------
(* Properties *)

\* The state has its type, and no channel ever holds more than its capacity.
TypeOK ==
    /\ incoming \in Seq(TopicType) /\ Len(incoming) <= InCap
    /\ requests \in Seq(OutputType) /\ Len(requests) <= ReqCap
    /\ connected \in BOOLEAN
    /\ delivered \in Nat
    /\ cancelled \in BOOLEAN
    /\ phase \in Phases
    /\ timedOut \in BOOLEAN
    /\ tasks \in Seq(TaskType)
    /\ joinset \subseteq DOMAIN tasks

InFlight == {k \in DOMAIN tasks : tasks[k].stage \in Working}

\* engine.rs:61: at most max_concurrent_decodes messages are decoded and
\* republished at a time.  The loop only ever counts the join set, so this
\* needs every working task to be in it.
Budget == Cardinality(InFlight) <= MaxConcurrent

\* The outputs a decode call owes: its emissions, and an error message behind
\* them if it failed.
Owed(k) == tasks[k].script.emits + (IF tasks[k].script.verdict = "err" THEN 1 ELSE 0)

\* engine.rs:52: a task that ran to its end has tried to publish each of its
\* outputs exactly once, whatever the interleaving of the decoder, the drain
\* half and the two bounded channels; with the connection up every one of them
\* was taken, however full the request channel had been.
OutputsComplete ==
    \A k \in DOMAIN tasks :
        tasks[k].stage = "done" =>
            /\ Handled(k) = Owed(k)
            /\ connected => tasks[k].accepted = Owed(k)

\* The outputs of one message reach the request channel in the order of the
\* decode call, none twice, none missing before the last one handed over, and
\* an error message behind every emission.
OutputsInOrder ==
    \A p \in DOMAIN requests :
        LET k == requests[p].task
        IN  /\ requests[p].seq <= tasks[k].accepted
            /\ \A n \in requests[p].seq .. tasks[k].accepted :
                  \E q \in p .. Len(requests) : requests[q] = [task |-> k, seq |-> n]
            /\ \A q \in (p + 1) .. Len(requests) :
                  requests[q].task = k => requests[p].seq < requests[q].seq

\* engine.rs:65: unless the drain timed out, run returns only after every task
\* it accepted has run to its end; no message it took is dropped half-way.
DrainedMeansFinished ==
    phase = "returned" /\ ~timedOut
        => \A k \in DOMAIN tasks : tasks[k].stage \in {"done", "panicked"}

\* engine.rs:65: "Cancelling `shutdown` stops intake immediately".
IntakeStopsOnCancel == [][cancelled => Len(tasks') = Len(tasks)]_vars
============================================================================
