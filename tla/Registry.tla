------------------------------ MODULE Registry ------------------------------
(***************************************************************************)
(* The builder of the decoder registry (src/decoder/registry.rs), which    *)
(* main fills with one topic filter at a time.  Its entries, once built,   *)
(* are what Lookup searches for every message.                             *)
(***************************************************************************)
EXTENDS Lookup

CONSTANTS
    Texts,        \* the topic_filter texts of the configuration
    Topics,       \* the topics looked up
    Decoders,     \* the decoders registered
    MaxEntries    \* bound on the length of the registry

ASSUME RegistryAssumption ==
    /\ Texts \subseteq FilterText
    /\ Topics \subseteq TopicType
    /\ NoDecoder \notin Decoders
    /\ MaxEntries \in Nat

VARIABLES
    entries,   \* DecoderRegistryBuilder.entries, then DecoderRegistry.entries
    built      \* the builder has been consumed by build()

vars == <<entries, built>>

EntryType == [filter : Texts, decoder : Decoders]

----------------------------------------------------------------------------
(* The builder *)

\* The duplicate test dropped (a mutant of Duplicate).
DuplicateNever(f) == FALSE

Duplicate(f) == \E i \in DOMAIN entries : entries[i].filter = f

Init == entries = << >> /\ built = FALSE

\* The filter is parsed first: register takes a TopicFilter.
Register(f, d) ==
    /\ ~built
    /\ Len(entries) < MaxEntries
    /\ Parse(f) = "Ok"
    /\ ~Duplicate(f)
    /\ entries' = Append(entries, [filter |-> f, decoder |-> d])
    /\ UNCHANGED built

\* parse or register returns an error and leaves the builder as it was.
Reject(f) ==
    /\ ~built
    /\ Parse(f) # "Ok" \/ Duplicate(f)
    /\ UNCHANGED vars

Build ==
    /\ ~built
    /\ built' = TRUE
    /\ UNCHANGED entries

Next ==
    \/ \E f \in Texts, d \in Decoders : Register(f, d)
    \/ \E f \in Texts : Reject(f)
    \/ Build

Spec == Init /\ [][Next]_vars

----------------------------------------------------------------------------
(* Properties *)

\* MQTT's rule for a topic filter: '#' is the last level or absent, and a
\* wildcard character stands alone in its level.
ValidFilter(f) ==
    /\ f # <<"">>
    /\ \A i \in DOMAIN f :
        /\ f[i] \in Literals \cup Wildcards
        /\ f[i] = "#" => i = Len(f)

\* The registry is a sequence of entries, and whatever texts it was offered
\* their filters are valid ones.
TypeOK ==
    /\ entries \in Seq(EntryType)
    /\ \A i \in DOMAIN entries : ValidFilter(entries[i].filter)
    /\ Len(entries) <= MaxEntries
    /\ built \in BOOLEAN

\* TopicFilter's Ord says that two different filters may compare as Equal.  No
\* two entries that match the same topic do, so the tie rule of max_by_key
\* (the last entry wins) never chooses a decoder.
Unambiguous ==
    \A i, j \in DOMAIN entries :
        /\ i # j
        /\ \E t \in Topics : {i, j} \subseteq Candidates(entries, t)
        => Specificity(entries[i].filter) # Specificity(entries[j].filter)

\* The order of the [[topic]] blocks in the file does not matter: a topic
\* resolves to the same decoder however the entries are permuted.
OrderIndependent ==
    LET n == Len(entries)
        Permutation == {p \in [1..n -> 1..n] :
                          \A i, j \in 1..n : p[i] = p[j] => i = j}
    IN  \A p \in Permutation, t \in Topics :
            Resolve([i \in 1..n |-> entries[p[i]]], t) = Resolve(entries, t)

\* The topics of the model a filter matches.
Language(f) == {t \in Topics : Matches(f, t)}

\* "The most specific one wins": no matching entry has a language strictly
\* inside the winner's.  The one exception is a filter against itself with
\* "/#" behind it, which ExactMatchWins is about.
MostSpecificWins ==
    \A t \in Topics : \A i \in Candidates(entries, t) :
        LET f == entries[i].filter
            w == entries[Winner(entries, t)].filter
        IN  /\ Language(f) \subseteq Language(w)
            /\ Language(f) # Language(w)
            => w = Append(f, "#")

\* registry.rs:54 and the README: "an exact-match filter beats a wildcard
\* filter that also matches".
ExactMatchWins ==
    \A t \in Topics : \A i \in Candidates(entries, t) :
        entries[i].filter = t => Winner(entries, t) = i
============================================================================
