------------------------------ MODULE MCRetained ------------------------------
(* Two decoded sources, "dev" under two overlapping filters, the one that  *)
(* decodes it covering its outputs too.                                    *)
EXTENDS Retained, DecoderTests, TLC

MCLiterals == {"dev", "lamp", "decoded", "decode_error"}
MCMixed == {}
MCFilters == <<<<"+">>, <<"dev", "#">>>>
MCEntries == <<[filter |-> <<"dev", "#">>, decoder |-> "text"],
               [filter |-> <<"+">>, decoder |-> "name"]>>
MCSources == {<<"dev">>, <<"lamp">>}

\* The lenient template {{ payload.name }} renders nothing for a payload without
\* a name.
NameTemplate ==
    [kind |-> "template", parses |-> TRUE, literal |-> FALSE, undefined |-> "lenient",
     uses |-> {[path |-> <<"payload", "name">>, how |-> "print"]}]
MCDecoderConfigs == "text" :> Utf8 @@ "name" :> NameTemplate

Payload(form, empty, fields) == [form |-> form, empty |-> empty, fields |-> fields, wire |-> {}]
MCPayloads == {Payload("text", TRUE, {}), Payload("json", FALSE, {<<"name">>}),
               Payload("binary", FALSE, {})}
============================================================================
