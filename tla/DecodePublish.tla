---------------------------- MODULE DecodePublish ----------------------------
(***************************************************************************)
(* How a decoder's message becomes a publish (DecodePublish in             *)
(* src/decoder/mod.rs) and which topics are the program's own              *)
(* (handle_incoming and decode_and_publish in src/engine.rs).  An optional *)
(* field is a set of at most one value.                                    *)
(***************************************************************************)
EXTENDS Naturals, Sequences

Optional(S) == {o \in SUBSET S : \A x, y \in o : x = y}

Or(field, default) == IF field = {} THEN default ELSE CHOOSE x \in field : TRUE

----------------------------------------------------------------------------
(* Output topics *)

\* format!("{}/decoded", incoming.topic)
DecodedTopic(t) == Append(t, "decoded")

\* format!("{}/decode_error", message.topic)
ErrorTopic(t) == Append(t, "decode_error")

\* Neither half of the guard against decoding our own output is enough alone:
\* the error topic forgotten (a mutant of IsOwnOutput).
IsOwnOutputDecodedOnly(t) == Len(t) > 1 /\ t[Len(t)] = "decoded"

\* topic.ends_with("/decoded") || topic.ends_with("/decode_error")
IsOwnOutput(t) == Len(t) > 1 /\ t[Len(t)] \in {"decoded", "decode_error"}

----------------------------------------------------------------------------
(* DecodePublish and what it resolves to *)

\* ..Default::default()
Plainly(payload) == [topic |-> {}, qos |-> {}, retain |-> {}, payload |-> payload]

\* The message published when decode returned an error.
ErrorPublish(incoming, payload) ==
    [Plainly(payload) EXCEPT !.topic = {ErrorTopic(incoming.topic)}]

\* Outputs always retained, or never (mutants of Resolved).
ResolvedRetained(out, incoming) ==
    [topic |-> Or(out.topic, DecodedTopic(incoming.topic)),
     qos |-> Or(out.qos, incoming.qos),
     retain |-> Or(out.retain, TRUE),
     payload |-> out.payload]

ResolvedLive(out, incoming) ==
    [topic |-> Or(out.topic, DecodedTopic(incoming.topic)),
     qos |-> Or(out.qos, incoming.qos),
     retain |-> Or(out.retain, FALSE),
     payload |-> out.payload]

\* What a decoder leaves out is taken from the message it decoded.
Resolved(out, incoming) ==
    [topic |-> Or(out.topic, DecodedTopic(incoming.topic)),
     qos |-> Or(out.qos, incoming.qos),
     retain |-> Or(out.retain, incoming.retain),
     payload |-> out.payload]
============================================================================
