--------------------------- MODULE RegistryProofs ---------------------------
(***************************************************************************)
(* For every set of filters and topics: the builder only holds valid       *)
(* filters, and the lookup never has to break a tie.                       *)
(***************************************************************************)
EXTENDS Registry, SequenceTheorems, TLAPS

----------------------------------------------------------------------------
(* Filters *)

\* What parse accepts is what MQTT calls a valid filter.
LEMMA ParseAcceptsValid ==
    ASSUME NEW f \in FilterText, Parse(f) = "Ok"
    PROVE  ValidFilter(f)
<1>1. f # <<"">> /\ \A i \in DOMAIN f : ~Offends(f, i)
    BY DEF Parse
<1>2. \A i \in DOMAIN f : f[i] \in Levels
    BY DEF FilterText
<1> QED
    BY <1>1, <1>2 DEF ValidFilter, Offends, Levels

\* Two valid filters that match one topic have the same level wherever they
\* have the same rank: the topic's level, '+' or '#'.
LEMMA SameRankSameLevel ==
    ASSUME NEW f \in FilterText, NEW g \in FilterText, NEW t \in TopicType,
           ValidFilter(f), ValidFilter(g), Matches(f, t), Matches(g, t),
           NEW i \in DOMAIN f, i \in DOMAIN g, Rank(f[i]) = Rank(g[i])
    PROVE  f[i] = g[i]
<1>1. ASSUME NEW h \in FilterText, ValidFilter(h), Matches(h, t), i \in DOMAIN h,
             h[i] # "#"
      PROVE  h[i] \in {"+", t[i]}
    <2>1. DOMAIN h = 1..Len(h) /\ Len(h) \in Nat
        BY DEF FilterText
    <2>2. CASE h[Len(h)] = "#"
        <3>1. i \in 1..(Len(h) - 1)
            BY <1>1, <2>1, <2>2
        <3> QED
            BY <1>1, <2>2, <3>1 DEF Matches
    <2>3. CASE h[Len(h)] # "#"
        BY <1>1, <2>1, <2>3 DEF Matches
    <2> QED
        BY <2>2, <2>3
<1>2. CASE f[i] = "#"
    BY <1>2 DEF Rank
<1>3. CASE f[i] # "#" /\ g[i] # "#"
    BY <1>1, <1>3 DEF Rank
<1> QED
    BY <1>2, <1>3 DEF Rank

\* Specificity tells apart any two filters that match the same topic.
LEMMA SpecificityDecides ==
    ASSUME NEW f \in FilterText, NEW g \in FilterText, NEW t \in TopicType,
           ValidFilter(f), ValidFilter(g), Matches(f, t), Matches(g, t),
           Specificity(f) = Specificity(g)
    PROVE  f = g
<1>1. DOMAIN f = DOMAIN g
    BY DEF Specificity
<1>2. \A i \in DOMAIN f : Rank(f[i]) = Rank(g[i])
    BY <1>1 DEF Specificity
<1>3. \A i \in DOMAIN f : f[i] = g[i]
    BY <1>1, <1>2, SameRankSameLevel
<1>4. f \in Seq(Levels) /\ g \in Seq(Levels)
    BY DEF FilterText
<1>5. Len(f) = Len(g)
    BY <1>1, <1>4
<1> QED
    BY <1>3, <1>4, <1>5

----------------------------------------------------------------------------
(* The builder *)

\* No filter is registered twice.
Distinct ==
    \A i, j \in DOMAIN entries : entries[i].filter = entries[j].filter => i = j

\* The builder's state has its type and its filters are valid, whatever texts
\* the configuration offers (src/main.rs:54, src/decoder/registry.rs:31).
THEOREM RegistryTypeOK == Spec => []TypeOK
<1>1. Init => TypeOK
    <2> SUFFICES ASSUME Init PROVE TypeOK
        OBVIOUS
    <2>1. entries \in Seq(EntryType)
        BY DEF Init
    <2>2. DOMAIN entries = {} /\ Len(entries) = 0
        BY DEF Init
    <2>3. Len(entries) <= MaxEntries
        BY <2>2, RegistryAssumption
    <2>4. built \in BOOLEAN
        BY Zenon DEF Init
    <2> QED
        BY <2>1, <2>2, <2>3, <2>4 DEF TypeOK
<1>2. TypeOK /\ [Next]_vars => TypeOK'
    <2> SUFFICES ASSUME TypeOK, [Next]_vars PROVE TypeOK'
        OBVIOUS
    <2>1. ASSUME NEW f \in Texts, NEW d \in Decoders, Register(f, d) PROVE TypeOK'
        <3> DEFINE e == [filter |-> f, decoder |-> d]
        <3>1. e \in EntryType
            BY DEF EntryType
        <3>2. entries \in Seq(EntryType) /\ entries' = Append(entries, e)
            BY <2>1 DEF TypeOK, Register
        <3>3. /\ entries' \in Seq(EntryType)
              /\ Len(entries') = Len(entries) + 1
              /\ \A i \in 1..Len(entries) : entries'[i] = entries[i]
              /\ entries'[Len(entries) + 1] = e
            BY <3>1, <3>2
        <3>4. ValidFilter(f)
            BY <2>1, ParseAcceptsValid, RegistryAssumption DEF Register
        <3>5. \A i \in DOMAIN entries' : ValidFilter(entries'[i].filter)
            BY <3>2, <3>3, <3>4 DEF TypeOK
        <3> QED
            BY <2>1, <3>3, <3>5, RegistryAssumption DEF TypeOK, Register
    <2>2. ASSUME NEW f \in Texts, Reject(f) PROVE TypeOK'
        BY <2>2 DEF TypeOK, Reject, vars
    <2>3. CASE Build
        BY <2>3 DEF TypeOK, Build
    <2>4. CASE UNCHANGED vars
        BY <2>4 DEF TypeOK, vars
    <2> QED
        BY <2>1, <2>2, <2>3, <2>4 DEF Next
<1> QED
    BY <1>1, <1>2, PTL DEF Spec

\* register refuses a filter it already holds (src/decoder/registry.rs:36).
LEMMA RegistryDistinct == Spec => []Distinct
<1>1. Init => Distinct
    BY DEF Init, Distinct
<1>2. TypeOK /\ Distinct /\ [Next]_vars => Distinct'
    <2> SUFFICES ASSUME TypeOK, Distinct, [Next]_vars PROVE Distinct'
        OBVIOUS
    <2>1. ASSUME NEW f \in Texts, NEW d \in Decoders, Register(f, d) PROVE Distinct'
        <3> DEFINE e == [filter |-> f, decoder |-> d]
        <3>1. e \in EntryType /\ entries \in Seq(EntryType)
            BY DEF EntryType, TypeOK
        <3>2. /\ DOMAIN entries = 1..Len(entries)
              /\ DOMAIN entries' = 1..(Len(entries) + 1)
              /\ \A i \in DOMAIN entries : entries'[i] = entries[i]
              /\ entries'[Len(entries) + 1] = e
            BY <2>1, <3>1 DEF Register
        <3>3. \A i \in DOMAIN entries : entries[i].filter # f
            BY <2>1 DEF Register, Duplicate
        <3> QED
            BY <3>2, <3>3 DEF Distinct
    <2>2. ASSUME NEW f \in Texts, Reject(f) PROVE Distinct'
        BY <2>2 DEF Distinct, Reject, vars
    <2>3. CASE Build
        BY <2>3 DEF Distinct, Build
    <2>4. CASE UNCHANGED vars
        BY <2>4 DEF Distinct, vars
    <2> QED
        BY <2>1, <2>2, <2>3, <2>4 DEF Next
<1> QED
    BY <1>1, <1>2, RegistryTypeOK, PTL DEF Spec

\* No two entries that match a topic compare as Equal, so the decoder of a
\* message never depends on the order of the registrations through a tie
\* (src/topic.rs:79, src/decoder/registry.rs:65).
THEOREM RegistryUnambiguous == Spec => []Unambiguous
<1>1. TypeOK /\ Distinct => Unambiguous
    <2> SUFFICES ASSUME TypeOK, Distinct,
                        NEW i \in DOMAIN entries, NEW j \in DOMAIN entries, i # j,
                        NEW t \in Topics, {i, j} \subseteq Candidates(entries, t)
                 PROVE  Specificity(entries[i].filter) # Specificity(entries[j].filter)
        BY DEF Unambiguous
    <2> DEFINE f == entries[i].filter
               g == entries[j].filter
    <2>1. entries[i] \in EntryType /\ entries[j] \in EntryType
        BY DEF TypeOK
    <2>2. f \in FilterText /\ g \in FilterText /\ t \in TopicType
        BY <2>1, RegistryAssumption DEF EntryType
    <2>3. ValidFilter(f) /\ ValidFilter(g)
        BY DEF TypeOK
    <2>4. Matches(f, t) /\ Matches(g, t)
        BY DEF Candidates
    <2>5. f # g
        BY DEF Distinct
    <2> QED
        BY <2>2, <2>3, <2>4, <2>5, SpecificityDecides
<1> QED
    BY <1>1, RegistryTypeOK, RegistryDistinct, PTL
============================================================================
