---------------------------- MODULE MCRosettaMq ----------------------------
(* The program with one decoded subtree "dev/#", which the broker echoes,   *)
(* and a subscribe-only topic "log".                                        *)
EXTENDS RosettaMq, TLC

MCLiterals == {"dev", "log", "decoded", "decode_error"}
MCMixed == {}

Dev == <<"dev", "#">>
MCEntries == <<[filter |-> Dev, decoder |-> "any"]>>
MCSubscriptions == {Dev, <<"log">>}
MCForeign == {<<"dev">>, <<"log">>}
MCTopics == MCForeign \cup {<<"dev", "decoded">>, <<"dev", "decode_error">>}

\* A filter that does not cover the outputs: nothing is echoed.
NarrowEntries == <<[filter |-> <<"dev">>, decoder |-> "any"]>>
NarrowSubscriptions == {<<"dev">>}
NarrowTopics == {<<"dev">>}

Script(n, v) == [emits |-> n, verdict |-> v, to |-> {}]
To(t) == [emits |-> 1, verdict |-> "ok", to |-> {t}]
OkScripts == "any" :> {Script(1, "ok")}
\* A decoder that streams, fails half-way, or names a topic of its own: one
\* that is not subscribed to, one that is and is not decoded, and one that is
\* decoded.
MixedScripts ==
    "any" :> {Script(2, "ok"), Script(1, "err"),
              To(<<"decoded">>), To(<<"log">>), To(<<"dev">>)}
SlowScripts == "any" :> {Script(1, "ok"), Script(0, "err"), Script(0, "hang")}
============================================================================
