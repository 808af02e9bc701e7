-------------------------------- MODULE Relay --------------------------------
(***************************************************************************)
(* What the program promises its broker, without channels, tasks or an     *)
(* event loop: every message taken for decoding is a different one of      *)
(* those received, and what is published for it is what the decode call    *)
(* sent, in that order, and an error message last if it failed.            *)
(*                                                                         *)
(* A decoder may send to a topic that is decoded itself; such an output,   *)
(* once published, is a message like any other.                            *)
(***************************************************************************)
EXTENDS Naturals, Sequences, FiniteSets

CONSTANTS
    Calls,       \* what one call of a decoder may do: [emits, verdict, to]
    Reentrant    \* the topics a decoder may name that are decoded in turn

VARIABLES
    received,   \* how many messages of other clients were received
    calls,      \* the decode calls made, in order
    published   \* what was written to the broker: the seq-th output of a call

relayVars == <<received, calls, published>>

\* The outputs a call owes.
Due(c) == c.emits + (IF c.verdict = "err" THEN 1 ELSE 0)

\* The publishes that come back to be decoded.
Returning ==
    {i \in DOMAIN published :
        LET c == calls[published[i].task]
        IN  published[i].seq <= c.emits /\ c.to \cap Reentrant # {}}

Of(k) == {i \in DOMAIN published : published[i].task = k}

RelayInit == received = 0 /\ calls = << >> /\ published = << >>

Hear ==
    /\ received' = received + 1
    /\ UNCHANGED <<calls, published>>

Call(c) ==
    /\ Len(calls) < received + Cardinality(Returning)
    /\ calls' = Append(calls, c)
    /\ UNCHANGED <<received, published>>

Publish(k) ==
    /\ Cardinality(Of(k)) < Due(calls[k])
    /\ published' = Append(published, [task |-> k, seq |-> Cardinality(Of(k)) + 1])
    /\ UNCHANGED <<received, calls>>

RelayNext ==
    \/ Hear
    \/ \E c \in Calls : Call(c)
    \/ \E k \in DOMAIN calls : Publish(k)

Spec == RelayInit /\ [][RelayNext]_relayVars
============================================================================
