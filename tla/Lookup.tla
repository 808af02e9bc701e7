------------------------------- MODULE Lookup -------------------------------
(***************************************************************************)
(* DecoderRegistry::resolve (src/decoder/registry.rs): the decoder of the  *)
(* most specific entry whose filter matches a topic.  A registry is a      *)
(* sequence of entries [filter, decoder].                                  *)
(***************************************************************************)
EXTENDS TopicFilter

\* What resolve returns for a topic that no entry matches.
NoDecoder == "none"

Candidates(es, t) == {i \in DOMAIN es : Matches(es[i].filter, t)}

\* max_by_key keeps the last of the entries whose key is greatest.
Outranks(es, i, j) ==
    LET si == Specificity(es[i].filter)
        sj == Specificity(es[j].filter)
    IN  LexLess(sj, si) \/ (si = sj /\ j <= i)

Winner(es, t) ==
    CHOOSE i \in Candidates(es, t) :
        \A j \in Candidates(es, t) : Outranks(es, i, j)

Resolve(es, t) ==
    IF Candidates(es, t) = {} THEN NoDecoder ELSE es[Winner(es, t)].decoder
============================================================================
