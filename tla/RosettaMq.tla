----------------------------- MODULE RosettaMq -----------------------------
(***************************************************************************)
(* The running program: the engine, the driver task that polls the MQTT    *)
(* event loop (src/client.rs), main's wait for the end (src/main.rs), and  *)
(* a broker that sends back every message that matches a subscription, the *)
(* program's own outputs included.  It starts where main has subscribed    *)
(* and spawned the engine.  The connection may go at any time; the program *)
(* learns of it only from the event loop, when the driver polls.           *)
(***************************************************************************)
EXTENDS Engine

CONSTANTS
    Subscriptions,   \* the topic filters subscribed to
    ForeignTopics,   \* topics other clients publish on, of those delivered
    MaxForeign       \* bound on the messages other clients publish

Subscribed(t) == \E f \in Subscriptions : Matches(f, t)

\* The topics decoders name for their outputs.
NamedTopics == UNION {s.to : s \in AllScripts}

\* The topics a message may be decoded on: those other clients publish on,
\* and those decoders name and the broker sends back.
Inputs == ForeignTopics \cup {t \in NamedTopics : Subscribed(t)}

\* Topics holds what the broker may deliver: subscribed foreign topics, and
\* the outputs that are subscribed too.
ASSUME RosettaAssumption ==
    /\ Inputs \subseteq Topics
    /\ \A t \in Topics : Subscribed(t)
    /\ \A t \in Inputs :
        \A out \in {DecodedTopic(t), ErrorTopic(t)} : Subscribed(out) => out \in Topics
    /\ Subscriptions \subseteq FilterType
    /\ \A i \in DOMAIN Entries : Entries[i].filter \in Subscriptions
    /\ MaxForeign \in Nat

VARIABLES
    driver,    \* where the driver task is
    held,      \* the topic it holds while it forwards; << >> otherwise
    main,      \* where main is
    foreign,   \* how many foreign messages have been read
    echo,      \* topics of our own outputs the broker will send back
    wire,      \* history: the outputs the event loop wrote to the connection
    lost       \* the connection to the broker is gone, noticed or not

system == <<driver, held, main, foreign, echo, wire, lost>>
allVars == <<vars, system>>

NoTopic == << >>

SystemInit ==
    /\ Init
    /\ driver = "polling"
    /\ held = NoTopic
    /\ main = "selecting"
    /\ foreign = 0
    /\ echo = << >>
    /\ wire = << >>
    /\ lost = FALSE

\* Once main returns, the runtime drops every task where it stands.
Alive == main # "exited"

----------------------------------------------------------------------------
(* The driver: poll the event loop, forward what it received.              *)

\* The event loop reads a message some other client published.
PollForeign(t) ==
    /\ Alive
    /\ driver = "polling"
    /\ foreign < MaxForeign
    /\ foreign' = foreign + 1
    /\ held' = t
    /\ driver' = "forwarding"
    /\ UNCHANGED <<vars, main, echo, wire, lost>>

\* The event loop reads one of our own outputs.
PollEcho ==
    /\ Alive
    /\ driver = "polling"
    /\ echo # << >>
    /\ held' = Head(echo)
    /\ echo' = Tail(echo)
    /\ driver' = "forwarding"
    /\ UNCHANGED <<vars, main, foreign, wire, lost>>

\* tx.send into incoming with no wait for room (a mutant of Forward).
ForwardUnbounded ==
    /\ Alive
    /\ driver = "forwarding"
    /\ phase # "returned"
    /\ incoming' = Append(incoming, held)
    /\ delivered' = delivered + 1
    /\ held' = NoTopic
    /\ driver' = "polling"
    /\ UNCHANGED <<requests, connected, control, tasks, joinset>>
    /\ UNCHANGED <<main, foreign, echo, wire, lost>>

\* tx.send waits for room in incoming; nothing is polled meanwhile.
Forward ==
    /\ Alive
    /\ driver = "forwarding"
    /\ Deliver(held)
    /\ held' = NoTopic
    /\ driver' = "polling"
    /\ UNCHANGED <<main, foreign, echo, wire, lost>>

\* tx.send fails: run has returned and dropped the receiver.
ForwardClosed ==
    /\ Alive
    /\ driver = "forwarding"
    /\ phase = "returned"
    /\ Disconnect
    /\ held' = NoTopic
    /\ driver' = "stopped"
    /\ UNCHANGED <<main, foreign, echo, wire, lost>>

\* Where an output is published.
OutputTopic(o) ==
    LET task == tasks[o.task]
    IN  IF o.seq > task.script.emits THEN ErrorTopic(task.topic)
        ELSE Or(task.script.to, DecodedTopic(task.topic))

\* The event loop writes a queued output to the connection; while there is
\* one, the broker receives it, and sends it back if it is subscribed to.
PollRequest ==
    /\ Alive
    /\ driver = "polling"
    /\ TakeRequest
    /\ wire' = Append(wire, Head(requests))
    /\ echo' = IF ~lost /\ Subscribed(OutputTopic(Head(requests)))
               THEN Append(echo, OutputTopic(Head(requests))) ELSE echo
    /\ UNCHANGED <<driver, held, main, foreign, lost>>

\* The broker or the network drops the connection.  What was read before may
\* still be delivered, and what is written from now on is lost.
LoseConnection ==
    /\ Alive
    /\ driver # "stopped"
    /\ ~lost
    /\ lost' = TRUE
    /\ UNCHANGED <<vars, driver, held, main, foreign, echo, wire>>

\* An error of poll goes unreported (a mutant of PollError).
PollErrorIgnored == FALSE /\ UNCHANGED allVars

\* poll returns an error, because the connection is lost or for a reason of
\* its own: the driver ends, there is no reconnection.
PollError ==
    /\ Alive
    /\ driver = "polling"
    /\ Disconnect
    /\ driver' = "stopped"
    /\ UNCHANGED <<held, main, foreign, echo, wire, lost>>

----------------------------------------------------------------------------
(* main: wait for Ctrl+C or the driver's end, cancel, wait for the engine. *)

\* On Ctrl+C the driver is detached, not stopped.
CtrlC ==
    /\ main = "selecting"
    /\ Cancel
    /\ main' = "stopping"
    /\ UNCHANGED <<driver, held, foreign, echo, wire, lost>>

\* main waits for Ctrl+C only (a mutant of DriverEnded).
DriverEndedIgnored == FALSE /\ UNCHANGED allVars

\* main awaits the engine without cancelling it (a mutant of DriverEnded).
DriverEndedNoCancel ==
    /\ main = "selecting"
    /\ driver = "stopped"
    /\ main' = "stopping"
    /\ UNCHANGED <<vars, driver, held, foreign, echo, wire, lost>>

DriverEnded ==
    /\ main = "selecting"
    /\ driver = "stopped"
    /\ Cancel
    /\ main' = "stopping"
    /\ UNCHANGED <<driver, held, foreign, echo, wire, lost>>

\* main returns; what is still queued for the broker is lost.
Exit ==
    /\ main = "stopping"
    /\ phase = "returned"
    /\ main' = "exited"
    /\ UNCHANGED <<vars, driver, held, foreign, echo, wire, lost>>

----------------------------------------------------------------------------
RunIntake == Alive /\ Intake /\ UNCHANGED system
RunReap == Alive /\ (\E k \in joinset : Reap(k)) /\ UNCHANGED system
RunLeave == Alive /\ (IntakeClosed \/ ObserveCancel) /\ UNCHANGED system
RunReturn == Alive /\ (Drained \/ DrainTimeout) /\ UNCHANGED system
TaskStep(k) == Alive /\ DecodeAndPublish(k) /\ UNCHANGED system

Driver ==
    \/ \E t \in ForeignTopics : PollForeign(t)
    \/ PollEcho
    \/ Forward
    \/ ForwardClosed
    \/ PollRequest
    \/ PollError

Main == CtrlC \/ DriverEnded \/ Exit

SystemNext ==
    \/ RunIntake
    \/ RunReap
    \/ RunLeave
    \/ RunReturn
    \/ \E k \in DOMAIN tasks : TaskStep(k)
    \/ Driver
    \/ LoseConnection
    \/ Main

SystemSpec == SystemInit /\ [][SystemNext]_allVars

\* Every task of the runtime is scheduled again while it can make progress,
\* and select! picks each of its ready branches with the same probability.
\* poll reports a connection that is lost: reading from it fails, or the
\* keep-alive gets no answer.  Nothing obliges a client to publish, the user to
\* press Ctrl+C or the connection to fail.
Fairness ==
    /\ WF_allVars(RunIntake)
    /\ WF_allVars(RunReap)
    /\ WF_allVars(RunLeave)
    /\ WF_allVars(RunReturn)
    /\ \A k \in 1..MaxForeign : WF_allVars(k \in DOMAIN tasks /\ TaskStep(k))
    /\ WF_allVars(Forward \/ ForwardClosed)
    /\ WF_allVars(PollRequest)
    /\ WF_allVars(PollEcho)
    /\ WF_allVars(lost /\ PollError)
    /\ WF_allVars(DriverEnded)
    /\ WF_allVars(Exit)

FairSpec == SystemSpec /\ Fairness

----------------------------------------------------------------------------
(* Properties *)

\* The driver, main and the history have their types, and the driver holds a
\* message exactly while it forwards and is gone exactly when the engine sees
\* the connection closed.
SystemTypeOK ==
    /\ driver \in {"polling", "forwarding", "stopped"}
    /\ held \in TopicType \cup {NoTopic}
    /\ held = NoTopic <=> driver # "forwarding"
    /\ connected <=> driver # "stopped"
    /\ main \in {"selecting", "stopping", "exited"}
    /\ cancelled <=> main # "selecting"
    /\ foreign \in 0..MaxForeign
    /\ echo \in Seq(TopicType)
    /\ wire \in Seq(OutputType)
    /\ lost \in BOOLEAN

\* Every output handed over that the program did not drop: written, or queued.
Sent == wire \o requests

\* The positions among the first n of the outputs of task k.
OutputsOf(k, n) == {q \in 1..n : Sent[q].task = k}

\* What was written to the connection, of which the broker receives a prefix,
\* and what is queued for it are, for each message, its outputs from the first
\* one on, in order and without a gap or a repeat; while there is an event loop
\* they are all the outputs its task has handed over.
RelayedInOrder ==
    /\ \A p \in DOMAIN Sent : Sent[p].seq = Cardinality(OutputsOf(Sent[p].task, p))
    /\ connected =>
          \A k \in DOMAIN tasks : tasks[k].accepted = Cardinality(OutputsOf(k, Len(Sent)))

\* The outputs written to the broker on a topic that the decoder named and that
\* has a decoder.
Reentered ==
    {i \in DOMAIN wire :
        LET script == tasks[wire[i].task].script
        IN  /\ wire[i].seq <= script.emits
            /\ \E t \in script.to : Resolve(Entries, t) # NoDecoder}

\* engine.rs:131, mod.rs:213: a subscription that covers the output topics does
\* not make the engine decode its own outputs: every task was caused by a
\* different foreign message, or by an output whose decoder named a topic that
\* is decoded.
NoFeedback == Len(tasks) <= foreign + Cardinality(Reentered)

\* With max_concurrent_decodes = 1, outputs leave in the order in which the
\* messages arrived.  (With more, they may overtake one another.)
SequentialKeepsOrder ==
    MaxConcurrent = 1 =>
        \A p, q \in DOMAIN Sent : p < q => Sent[p].task <= Sent[q].task

\* engine.rs:65, main.rs:93: when main exits after a drain that ran to its
\* end, with the connection up, no output was left behind in the queue.
QueuedOutputsReachBroker ==
    main = "exited" /\ ~timedOut /\ connected /\ ~lost => requests = << >>

\* The abstract relay: tasks are its calls, the history is what it published.
R == INSTANCE Relay WITH
        Calls <- AllScripts,
        Reentrant <- {t \in NamedTopics : ~Ignored(t)},
        received <- foreign,
        calls <- [k \in DOMAIN tasks |-> tasks[k].script],
        published <- wire

\* engine.rs:52: channels, concurrent tasks, echoes, a lost connection and a
\* shutdown in any state are invisible from outside: the program is a relay.
RelaySpec == R!Spec

\* Nothing is waiting anywhere in the pipeline.
Quiet ==
    /\ driver = "polling"
    /\ incoming = << >>
    /\ requests = << >>
    /\ echo = << >>
    /\ InFlight = {}

\* engine.rs:55, client.rs:90: as long as the program is connected and not
\* asked to stop, it always gets through the messages it has received.
AllAnswered == []<>(Quiet \/ lost \/ ~connected \/ cancelled)

\* The messages read so far have room in the channels and the tasks together.
Fits == foreign <= InCap + ReqCap + MaxConcurrent

\* A decode call that never returns keeps its place.
Hung == \E k \in InFlight : tasks[k].stage = "decoding" /\ tasks[k].script.verdict = "hang"

\* engine.rs:55: it does so if they fit, echoes not counted, and every call of a
\* decoder returns.
BurstAnswered == []<>(Quiet \/ lost \/ ~connected \/ cancelled \/ ~Fits \/ Hung)

\* engine.rs:19: once it is asked to stop, the program exits, whether a
\* decoder hangs or the driver is stuck on a full channel.
Terminates == main = "stopping" ~> main = "exited"

\* main.rs:84, client.rs:111: once the driver ended, because poll failed or the
\* engine is gone, the program exits; it does not stay around without a driver.
DriverEndExits == ~connected ~> main = "exited"

\* client.rs:90: under the same conditions the driver polls again and again, so it
\* notices when the connection is lost, and the program exits.  (Without them it
\* may wait in tx.send for ever, and poll is all that reports a loss.)
LostConnectionExits == lost ~> (main = "exited" \/ ~Fits \/ Hung)
============================================================================
