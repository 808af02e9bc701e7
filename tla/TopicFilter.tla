---------------------------- MODULE TopicFilter ----------------------------
(***************************************************************************)
(* MQTT topic filters as src/topic.rs parses and orders them.  A topic or  *)
(* a filter is the non-empty sequence of the levels that "/" separates, so *)
(* "devices/+/raw" is <<"devices", "+", "raw">> and the empty text is the  *)
(* one-level sequence <<"">>.                                              *)
(***************************************************************************)
EXTENDS Naturals, Sequences

CONSTANTS
    Literals,   \* levels without a wildcard character
    Mixed       \* levels that mix '+' or '#' with other characters ("a+")

Wildcards == {"+", "#"}

\* A level is of one kind only.
ASSUME LevelsAssumption ==
    /\ Wildcards \cap (Literals \cup Mixed) = {}
    /\ Literals \cap Mixed = {}

Levels == Literals \cup Mixed \cup Wildcards

\* Concrete topics, and the texts a configuration may offer as filters.
TopicType == Seq(Literals) \ {<< >>}
FilterText == Seq(Levels) \ {<< >>}

----------------------------------------------------------------------------
\* Mixed levels taken for literals (a mutant of Offends).
OffendsHashOnly(f, i) == f[i] = "#" /\ i # Len(f)

\* Level i of f makes `parse` return an error.
Offends(f, i) == (f[i] = "#" /\ i # Len(f)) \/ f[i] \in Mixed

\* TopicFilter::parse reports the first level that offends.
Parse(f) ==
    IF f = <<"">> THEN "Empty"
    ELSE IF \A i \in DOMAIN f : ~Offends(f, i) THEN "Ok"
    ELSE LET first == CHOOSE i \in DOMAIN f :
                        Offends(f, i) /\ \A j \in 1..(i - 1) : ~Offends(f, j)
         IN  IF f[first] = "#" THEN "HashNotLast" ELSE "InvalidWildcardSegment"

\* The TopicFilter values that exist: what parse accepted.
FilterType == {f \in FilterText : Parse(f) = "Ok"}

\* The rank of a level with '+' and '#' exchanged (a mutant of Rank).
RankSwapped(level) == IF level = "+" THEN 0 ELSE IF level = "#" THEN 1 ELSE 2

Rank(level) == IF level = "#" THEN 0 ELSE IF level = "+" THEN 1 ELSE 2

\* A specificity that only counts the literal levels (a mutant of Specificity).
SpecificityCount(f) ==
    [i \in 1..1 |-> Len(SelectSeq(f, LAMBDA level : level \notin Wildcards))]

Specificity(f) == [i \in DOMAIN f |-> Rank(f[i])]

\* rumqttc's `matches`: '+' stands for one level, a final '#' for the parent
\* level and everything below it.  Topics starting with '$' are left out.
Matches(f, t) ==
    LET hash == f[Len(f)] = "#"
        fixed == IF hash THEN Len(f) - 1 ELSE Len(f)
    IN  /\ IF hash THEN fixed <= Len(t) ELSE fixed = Len(t)
        /\ \A i \in 1..fixed : f[i] \in {"+", t[i]}

\* Ord on Vec<u8>: the first difference decides, a proper prefix is smaller.
LexLess(s, u) ==
    \E k \in DOMAIN u :
        /\ k <= Len(s) + 1
        /\ \A i \in 1..(k - 1) : s[i] = u[i]
        /\ k <= Len(s) => s[k] < u[k]
============================================================================
