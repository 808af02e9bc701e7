------------------------------ MODULE MCEngine ------------------------------
(* The engine on two topics that are decoded and two that are not.          *)
EXTENDS Engine, TLC

MCLiterals == {"dev", "log", "decoded", "decode_error"}
MCMixed == {}

\* "dev" is decoded by whatever decoder the scripts stand for; "log" has a
\* filter of its own but no decoder, so it is not in the registry.
MCEntries == <<[filter |-> <<"dev", "#">>, decoder |-> "any"]>>
MCTopics == {<<"dev">>, <<"log">>, <<"dev", "decode_error">>}

Script(n, v) == [emits |-> n, verdict |-> v, to |-> {}]

\* None, one or two messages, and each way a call can end.
MCScripts == "any" :> {Script(2, "ok"), Script(1, "err"), Script(1, "panic"), Script(0, "hang")}
============================================================================
