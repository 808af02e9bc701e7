----------------------------- MODULE MCRegistry -----------------------------
(* The registry over every text of at most two levels on two literals, and  *)
(* a few longer ones.                                                       *)
EXTENDS Registry

\* "" is a level of its own: "a/" is a topic, only the empty text is refused.
MCLiterals == {"a", "b", ""}
MCMixed == {"a+"}

\* Texts of one or two levels over a set of levels.
Short(levels) == {<<l>> : l \in levels} \cup (levels \X levels)

MCTexts ==
    Short({"a", "b", "+", "#", "a+"}) \cup {<<"">>, <<"a", "+", "#">>}
MCTopics == Short({"a", "b"}) \cup {<<"a", "b", "a">>, <<"b", "b", "b">>}
============================================================================
