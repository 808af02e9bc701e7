---------------------------- MODULE LookupProofs ----------------------------
(***************************************************************************)
(* For every registry: the order resolve compares filters by is total, a   *)
(* topic has one winner, which neither the order of the registrations nor  *)
(* a tie decides, and no other entry that matches is more specific.        *)
(***************************************************************************)
EXTENDS RegistryProofs, FiniteSetTheorems, FunctionTheorems, WellFoundedInduction

----------------------------------------------------------------------------
(* Ord on Vec<u8> *)

LEMMA LeastNumber ==
    ASSUME NEW T \in SUBSET Nat, T # {}
    PROVE  \E x \in T : \A y \in T : x <= y
<1>1. PICK x \in T : \A y \in T : ~(<<y, x>> \in OpToRel(<, Nat))
    BY WFMin, NatLessThanWellFounded
<1>2. \A y \in T : ~(y < x)
    BY <1>1 DEF OpToRel
<1> QED
    BY <1>2

\* LexLess, decided at position k.
LessAt(s, u, k) ==
    /\ 1 <= k /\ k <= Len(u) /\ k <= Len(s) + 1
    /\ \A i \in Nat : 1 <= i /\ i < k => s[i] = u[i]
    /\ k <= Len(s) => s[k] < u[k]

LEMMA LexLessAt ==
    ASSUME NEW s \in Seq(Nat), NEW u \in Seq(Nat)
    PROVE  LexLess(s, u) <=> \E k \in Nat : LessAt(s, u, k)
<1>1. /\ Len(s) \in Nat /\ Len(u) \in Nat /\ DOMAIN u = 1..Len(u)
    OBVIOUS
<1>2. ASSUME LexLess(s, u) PROVE \E k \in Nat : LessAt(s, u, k)
    <2>1. PICK k \in DOMAIN u : /\ k <= Len(s) + 1
                                /\ \A i \in 1..(k - 1) : s[i] = u[i]
                                /\ k <= Len(s) => s[k] < u[k]
        BY <1>2 DEF LexLess
    <2>2. k \in Nat /\ 1 <= k /\ k <= Len(u)
        BY <1>1
    <2>3. \A i \in Nat : 1 <= i /\ i < k => i \in 1..(k - 1)
        BY <2>2
    <2> QED
        BY <2>1, <2>2, <2>3 DEF LessAt
<1>3. ASSUME NEW k \in Nat, LessAt(s, u, k) PROVE LexLess(s, u)
    <2>1. k \in DOMAIN u /\ \A i \in 1..(k - 1) : i \in Nat /\ 1 <= i /\ i < k
        BY <1>1, <1>3 DEF LessAt
    <2> QED
        BY <1>3, <2>1 DEF LessAt, LexLess
<1> QED
    BY <1>2, <1>3

LEMMA LexTotal ==
    ASSUME NEW s \in Seq(Nat), NEW u \in Seq(Nat)
    PROVE  LexLess(s, u) \/ LexLess(u, s) \/ s = u
<1> DEFINE D == {i \in Nat : 1 <= i /\ i <= Len(s) /\ i <= Len(u) /\ s[i] # u[i]}
<1>1. /\ Len(s) \in Nat /\ \A i \in Nat : 1 <= i /\ i <= Len(s) => s[i] \in Nat
      /\ Len(u) \in Nat /\ \A i \in Nat : 1 <= i /\ i <= Len(u) => u[i] \in Nat
    OBVIOUS
<1>2. CASE D # {}
    <2>1. PICK k \in D : \A i \in D : k <= i
        BY <1>2, LeastNumber
    <2>2. /\ k \in Nat /\ 1 <= k /\ k <= Len(s) /\ k <= Len(u)
          /\ s[k] \in Nat /\ u[k] \in Nat /\ s[k] # u[k]
        BY <1>1
    <2>3. ASSUME NEW i \in Nat, 1 <= i, i < k PROVE s[i] = u[i]
        <3>1. i <= Len(s) /\ i <= Len(u) /\ ~(k <= i)
            BY <1>1, <2>2, <2>3
        <3> QED
            BY <2>1, <2>3, <3>1
    <2>4. CASE s[k] < u[k]
        <3>1. LessAt(s, u, k)
            BY <1>1, <2>2, <2>3, <2>4 DEF LessAt
        <3> QED
            BY <2>2, <3>1, LexLessAt
    <2>5. CASE u[k] < s[k]
        <3>1. LessAt(u, s, k)
            BY <1>1, <2>2, <2>3, <2>5 DEF LessAt
        <3> QED
            BY <2>2, <3>1, LexLessAt
    <2> QED
        BY <2>2, <2>4, <2>5
<1>3. CASE D = {}
    <2>1. \A i \in Nat : 1 <= i /\ i <= Len(s) /\ i <= Len(u) => s[i] = u[i]
        BY <1>3
    <2>2. CASE Len(s) = Len(u)
        <3>1. \A i \in 1..Len(s) : s[i] = u[i]
            BY <1>1, <2>1, <2>2
        <3> QED
            BY <2>2, <3>1
    <2>3. CASE Len(s) < Len(u)
        <3>1. LessAt(s, u, Len(s) + 1)
            BY <1>1, <2>1, <2>3 DEF LessAt
        <3> QED
            BY <1>1, <3>1, LexLessAt
    <2>4. CASE Len(u) < Len(s)
        <3>1. ASSUME NEW i \in Nat, 1 <= i, i < Len(u) + 1 PROVE u[i] = s[i]
            <4>1. i <= Len(s) /\ i <= Len(u)
                BY <1>1, <2>4, <3>1
            <4> QED
                BY <2>1, <3>1, <4>1
        <3>2. Len(u) + 1 \in Nat /\ 1 <= Len(u) + 1 /\ Len(u) + 1 <= Len(s)
            BY <1>1, <2>4
        <3>3. LessAt(u, s, Len(u) + 1)
            BY <1>1, <3>1, <3>2 DEF LessAt
        <3> QED
            BY <3>2, <3>3, LexLessAt
    <2> QED
        BY <1>1, <2>2, <2>3, <2>4
<1> QED
    BY <1>2, <1>3

LEMMA LexTransitive ==
    ASSUME NEW s \in Seq(Nat), NEW u \in Seq(Nat), NEW v \in Seq(Nat),
           LexLess(s, u), LexLess(u, v)
    PROVE  LexLess(s, v)
<1>1. /\ Len(s) \in Nat /\ \A i \in Nat : 1 <= i /\ i <= Len(s) => s[i] \in Nat
      /\ Len(u) \in Nat /\ \A i \in Nat : 1 <= i /\ i <= Len(u) => u[i] \in Nat
      /\ Len(v) \in Nat /\ \A i \in Nat : 1 <= i /\ i <= Len(v) => v[i] \in Nat
    OBVIOUS
<1>2. PICK k \in Nat : LessAt(s, u, k)
    BY LexLessAt
<1>3. PICK m \in Nat : LessAt(u, v, m)
    BY LexLessAt
<1>4. /\ 1 <= k /\ k <= Len(u) /\ k <= Len(s) + 1 /\ (k <= Len(s) => s[k] < u[k])
      /\ 1 <= m /\ m <= Len(v) /\ m <= Len(u) + 1 /\ (m <= Len(u) => u[m] < v[m])
    BY <1>2, <1>3 DEF LessAt
<1>5. \A i \in Nat : 1 <= i /\ i < k => s[i] = u[i]
    BY <1>2 DEF LessAt
<1>6. \A i \in Nat : 1 <= i /\ i < m => u[i] = v[i]
    BY <1>3 DEF LessAt
<1>7. \A i \in Nat : 1 <= i /\ i < k /\ i < m => s[i] = v[i]
    BY <1>5, <1>6
<1>8. CASE k < m
    <2>1. u[k] = v[k] /\ \A i \in Nat : 1 <= i /\ i < k => s[i] = v[i]
        BY <1>4, <1>6, <1>7, <1>8
    <2>2. LessAt(s, v, k)
        BY <1>1, <1>4, <1>8, <2>1 DEF LessAt
    <2> QED
        BY <2>2, LexLessAt
<1>9. CASE k = m
    <2>1. ASSUME k <= Len(s) PROVE s[k] < v[k]
        <3>1. s[k] < u[k] /\ u[k] < v[k]
            BY <1>4, <1>9, <2>1
        <3>2. s[k] \in Nat /\ u[k] \in Nat /\ v[k] \in Nat
            BY <1>1, <1>4, <1>9, <2>1
        <3> QED
            BY <3>1, <3>2
    <2>2. LessAt(s, v, k)
        BY <1>4, <1>7, <1>9, <2>1 DEF LessAt
    <2> QED
        BY <2>2, LexLessAt
<1>10. CASE m < k
    <2>1. s[m] = u[m] /\ m <= Len(s) + 1 /\ u[m] < v[m]
        <3>1. m <= Len(u) /\ m <= Len(s) + 1
            BY <1>1, <1>4, <1>10
        <3> QED
            BY <1>4, <1>5, <1>10, <3>1
    <2>2. \A i \in Nat : 1 <= i /\ i < m => s[i] = v[i]
        BY <1>7, <1>10
    <2>3. LessAt(s, v, m)
        BY <1>4, <2>1, <2>2 DEF LessAt
    <2> QED
        BY <2>3, LexLessAt
<1> QED
    BY <1>8, <1>9, <1>10

LEMMA LexIrreflexive ==
    ASSUME NEW s \in Seq(Nat)
    PROVE  ~LexLess(s, s)
<1>1. \A k \in DOMAIN s : k <= Len(s) /\ s[k] \in Nat
    OBVIOUS
<1>2. \A k \in DOMAIN s : ~(s[k] < s[k])
    BY <1>1
<1> QED
    BY <1>1, <1>2 DEF LexLess

----------------------------------------------------------------------------
(* The winner *)

\* A registry, whatever its decoders.
IsRegistry(es) ==
    /\ es \in Seq([filter : FilterText, decoder : Decoders])
    /\ \A i \in DOMAIN es : ValidFilter(es[i].filter)
    /\ \A i, j \in DOMAIN es : es[i].filter = es[j].filter => i = j

LEMMA EntryOf ==
    ASSUME NEW es, IsRegistry(es), NEW i \in DOMAIN es
    PROVE  /\ i \in Nat
           /\ es[i].filter \in FilterText
           /\ ValidFilter(es[i].filter)
<1> DEFINE ET == [filter : FilterText, decoder : Decoders]
<1>1. es \in Seq(ET)
    BY DEF IsRegistry
<1> HIDE DEF ET
<1>2. es[i] \in ET /\ i \in Nat
    BY <1>1
<1>3. es[i].filter \in FilterText
    BY <1>2 DEF ET
<1> QED
    BY <1>2, <1>3 DEF IsRegistry

LEMMA SpecificityType ==
    ASSUME NEW f \in FilterText
    PROVE  /\ Specificity(f) \in Seq(Nat)
           /\ DOMAIN Specificity(f) = DOMAIN f
           /\ \A i \in DOMAIN f : Specificity(f)[i] = Rank(f[i])
<1>1. f \in Seq(Levels) /\ DOMAIN f = 1..Len(f) /\ Len(f) \in Nat
    BY DEF FilterText
<1>2. \A l : Rank(l) \in Nat
    BY DEF Rank
<1> QED
    BY <1>1, <1>2 DEF Specificity

\* One of any two entries outranks the other, and rank is transitive.
LEMMA OutranksOrder ==
    ASSUME NEW es, IsRegistry(es)
    PROVE  /\ \A i, j \in DOMAIN es : Outranks(es, i, j) \/ Outranks(es, j, i)
           /\ \A i, j, k \in DOMAIN es :
                 Outranks(es, i, j) /\ Outranks(es, j, k) => Outranks(es, i, k)
<1> DEFINE S(i) == Specificity(es[i].filter)
<1>1. \A i \in DOMAIN es : S(i) \in Seq(Nat) /\ i \in Nat
    BY EntryOf, SpecificityType
<1>2. \A i, j : Outranks(es, i, j) <=> LexLess(S(j), S(i)) \/ (S(i) = S(j) /\ j <= i)
    BY DEF Outranks
<1> HIDE DEF S
<1>3. \A i, j \in DOMAIN es : Outranks(es, i, j) \/ Outranks(es, j, i)
    BY <1>1, <1>2, LexTotal
<1>4. ASSUME NEW i \in DOMAIN es, NEW j \in DOMAIN es, NEW k \in DOMAIN es,
             Outranks(es, i, j), Outranks(es, j, k)
      PROVE  Outranks(es, i, k)
    <2>1. CASE S(i) = S(j)
        BY <1>1, <1>2, <1>4, <2>1
    <2>2. CASE S(j) = S(k)
        BY <1>1, <1>2, <1>4, <2>2
    <2>3. CASE LexLess(S(j), S(i)) /\ LexLess(S(k), S(j))
        BY <1>1, <1>2, <2>3, LexTransitive
    <2> QED
        BY <1>2, <1>4, <2>1, <2>2, <2>3
<1> QED
    BY <1>3, <1>4

\* max_by_key finds an entry if one matches: the least prefix of the registry
\* with a candidate and without a winner cannot be.
LEMMA WinnerExists ==
    ASSUME NEW es, IsRegistry(es), NEW t, Candidates(es, t) # {}
    PROVE  /\ Winner(es, t) \in Candidates(es, t)
           /\ \A j \in Candidates(es, t) : Outranks(es, Winner(es, t), j)
<1> DEFINE C == Candidates(es, t)
           Best(i, k) == i \in C /\ i <= k /\ \A j \in C : j <= k => Outranks(es, i, j)
           Bad == {k \in Nat : (\E i \in C : i <= k) /\ ~\E i \in C : Best(i, k)}
<1>1. C \subseteq DOMAIN es /\ DOMAIN es = 1..Len(es) /\ Len(es) \in Nat
    BY DEF Candidates, IsRegistry
<1>2. Bad = {}
    <2> SUFFICES ASSUME Bad # {} PROVE FALSE
        OBVIOUS
    <2>1. PICK k \in Bad : \A m \in Bad : k <= m
        BY LeastNumber
    <2>2. k \in Nat /\ (\E i \in C : i <= k) /\ ~\E i \in C : Best(i, k)
        OBVIOUS
    <2>3. k # 0
        BY <1>1, <2>2
    <2>4. k - 1 \in Nat /\ k - 1 \notin Bad
        BY <2>1, <2>2, <2>3
    <2>5. \A i \in C : i <= k <=> i <= k - 1 \/ i = k
        <3>1. \A i \in C : i \in Nat
            BY <1>1
        <3> HIDE DEF C
        <3> QED
            BY <2>2, <3>1
    <2>6. CASE \E i \in C : i <= k - 1
        <3>1. PICK i \in C : Best(i, k - 1)
            BY <2>4, <2>6
        <3>2. CASE k \notin C
            BY <2>2, <2>5, <3>1, <3>2
        <3>3. CASE k \in C /\ Outranks(es, i, k)
            BY <2>2, <2>5, <3>1, <3>3
        <3>4. CASE k \in C /\ Outranks(es, k, i)
            <4>1. \A j \in C : j <= k => Outranks(es, k, j)
                <5>1. Outranks(es, k, k)
                    BY <1>1, <3>4, OutranksOrder
                <5>2. ASSUME NEW j \in C, j <= k - 1 PROVE Outranks(es, k, j)
                    <6>1. Outranks(es, i, j)
                        BY <3>1, <5>2
                    <6> QED
                        BY <1>1, <3>4, <6>1, OutranksOrder
                <5> QED
                    BY <2>5, <5>1, <5>2
            <4>2. Best(k, k)
                BY <2>2, <3>4, <4>1
            <4> QED
                BY <2>2, <3>4, <4>2
        <3> QED
            BY <1>1, <3>2, <3>3, <3>4, OutranksOrder
    <2>7. CASE ~\E i \in C : i <= k - 1
        <3>1. k \in C
            BY <2>2, <2>5, <2>7
        <3>2. Outranks(es, k, k)
            BY <1>1, <3>1, OutranksOrder
        <3>3. Best(k, k)
            BY <2>2, <2>5, <2>7, <3>1, <3>2
        <3> QED
            BY <2>2, <3>1, <3>3
    <2> QED
        BY <2>6, <2>7
<1>3. PICK i \in C : Best(i, Len(es))
    BY <1>1, <1>2
<1>4. \A j \in C : Outranks(es, i, j)
    BY <1>1, <1>3
<1> QED
    BY <1>4 DEF Winner

\* The winner is the only entry as specific: the others are strictly less.
LEMMA WinnerStrict ==
    ASSUME NEW es, IsRegistry(es), NEW t \in TopicType, NEW i \in Candidates(es, t)
    PROVE  \/ i = Winner(es, t)
           \/ LexLess(Specificity(es[i].filter), Specificity(es[Winner(es, t)].filter))
<1> DEFINE w == Winner(es, t)
<1>1. w \in Candidates(es, t) /\ Outranks(es, w, i)
    BY WinnerExists
<1>2. CASE Specificity(es[w].filter) = Specificity(es[i].filter)
    <2>1. /\ i \in DOMAIN es /\ w \in DOMAIN es
          /\ Matches(es[i].filter, t) /\ Matches(es[w].filter, t)
        BY <1>1 DEF Candidates
    <2>2. es[i].filter = es[w].filter
        BY <1>2, <2>1, EntryOf, SpecificityDecides
    <2> QED
        BY <2>1, <2>2 DEF IsRegistry
<1> QED
    BY <1>1, <1>2 DEF Outranks

\* No other entry can take the winner's place.
LEMMA WinnerUnique ==
    ASSUME NEW es, IsRegistry(es), NEW t \in TopicType, NEW i \in Candidates(es, t),
           \A j \in Candidates(es, t) : Outranks(es, i, j)
    PROVE  i = Winner(es, t)
<1> DEFINE w == Winner(es, t)
           S(j) == Specificity(es[j].filter)
<1> SUFFICES ASSUME i # w PROVE FALSE
    OBVIOUS
<1>1. w \in Candidates(es, t) /\ LexLess(S(i), S(w))
    BY WinnerExists, WinnerStrict
<1>2. LexLess(S(w), S(i)) \/ S(w) = S(i)
    BY <1>1 DEF Outranks
<1>3. S(i) \in Seq(Nat) /\ S(w) \in Seq(Nat)
    BY <1>1, EntryOf, SpecificityType DEF Candidates
<1> HIDE DEF S
<1> QED
    BY <1>1, <1>2, <1>3, LexTransitive, LexIrreflexive

----------------------------------------------------------------------------
(* Permutations *)

Permutations(n) == {p \in [1..n -> 1..n] : \A i, j \in 1..n : p[i] = p[j] => i = j}

LEMMA PermutationOnto ==
    ASSUME NEW n \in Nat, NEW p \in Permutations(n)
    PROVE  \A i \in 1..n : \E j \in 1..n : p[j] = i
<1>1. IsFiniteSet(1..n)
    BY FS_Interval
<1>2. p \in Injection(1..n, 1..n)
    BY DEF Permutations, Injection, IsInjective
<1>3. p \in Surjection(1..n, 1..n)
    BY <1>1, <1>2, FS_Injection
<1> QED
    BY <1>3 DEF Surjection

\* A permuted registry is a registry, with the same candidates elsewhere.
LEMMA PermutedRegistry ==
    ASSUME NEW es, IsRegistry(es), NEW p \in Permutations(Len(es)), NEW t \in TopicType
    PROVE  LET ps == [i \in 1..Len(es) |-> es[p[i]]]
           IN  Resolve(ps, t) = Resolve(es, t)
<1> DEFINE n == Len(es)
           ps == [i \in 1..n |-> es[p[i]]]
           ET == [filter : FilterText, decoder : Decoders]
<1>1. es \in Seq(ET) /\ n \in Nat /\ DOMAIN es = 1..n
    BY DEF IsRegistry
<1>2. /\ p \in [1..n -> 1..n]
      /\ \A i, j \in 1..n : p[i] = p[j] => i = j
    BY DEF Permutations
<1>3. \A i \in 1..n : \E j \in 1..n : p[j] = i
    BY <1>1, PermutationOnto
<1>4. \A i \in 1..n : es[i] \in ET
    BY <1>1, ElementOfSeq
<1>5. DOMAIN ps = 1..n /\ \A i \in 1..n : ps[i] = es[p[i]] /\ p[i] \in 1..n
    BY <1>2
<1>6. ps \in Seq(ET)
    BY <1>1, <1>4, <1>5
<1>7. IsRegistry(ps)
    <2>1. \A i \in 1..n : ValidFilter(ps[i].filter)
        BY <1>1, <1>5 DEF IsRegistry
    <2>2. \A i, j \in 1..n : ps[i].filter = ps[j].filter => i = j
        BY <1>1, <1>2, <1>5 DEF IsRegistry
    <2> QED
        BY <1>5, <1>6, <2>1, <2>2 DEF IsRegistry
<1> HIDE DEF ps
<1>8. \A i \in 1..n : i \in Candidates(ps, t) <=> p[i] \in Candidates(es, t)
    BY <1>1, <1>5 DEF Candidates
<1>9. Candidates(ps, t) \subseteq 1..n /\ Candidates(es, t) \subseteq 1..n
    BY <1>1, <1>5 DEF Candidates
<1>10. CASE Candidates(es, t) = {}
    <2>1. Candidates(ps, t) = {}
        BY <1>8, <1>9, <1>10
    <2> QED
        BY <1>10, <2>1 DEF Resolve, ps
<1>11. CASE Candidates(es, t) # {}
    <2> DEFINE w == Winner(ps, t)
               v == Winner(es, t)
    <2>1. Candidates(ps, t) # {}
        BY <1>3, <1>8, <1>9, <1>11
    <2>2. w \in Candidates(ps, t) /\ w \in 1..n
        BY <1>7, <1>9, <2>1, WinnerExists
    <2>3. v \in Candidates(es, t) /\ v \in 1..n
        BY <1>9, <1>11, WinnerExists
    <2>4. PICK x \in 1..n : p[x] = v
        BY <1>3, <2>3
    <2>5. x \in Candidates(ps, t)
        BY <1>8, <2>3, <2>4
    <2> HIDE DEF w, v
    <2>6. p[w] = v
        <3> SUFFICES ASSUME p[w] # v PROVE FALSE
            OBVIOUS
        <3> DEFINE Se(i) == Specificity(es[i].filter)
        <3>1. p[w] \in Candidates(es, t) /\ w # x
            BY <1>8, <2>2, <2>4
        <3>2. LexLess(Se(p[w]), Se(v))
            BY <3>1, WinnerStrict DEF v
        <3>3. LexLess(Specificity(ps[x].filter), Specificity(ps[w].filter))
            BY <1>7, <2>5, <3>1, WinnerStrict DEF w
        <3>4. LexLess(Se(v), Se(p[w]))
            BY <1>5, <2>2, <2>4, <3>3
        <3>5. Se(v) \in Seq(Nat) /\ Se(p[w]) \in Seq(Nat)
            BY <1>1, <1>5, <2>2, <2>3, EntryOf, SpecificityType
        <3> QED
            BY <3>2, <3>4, <3>5, LexTransitive, LexIrreflexive
    <2>7. ps[w] = es[v]
        BY <1>5, <2>2, <2>6
    <2> QED
        BY <1>11, <2>1, <2>7 DEF Resolve, ps, w, v
<1> QED
    BY <1>10, <1>11

----------------------------------------------------------------------------
(* Languages *)

\* The levels of f that stand for one level each.
Fixed(f) == IF f[Len(f)] = "#" THEN Len(f) - 1 ELSE Len(f)

LEMMA FixedLevels ==
    ASSUME NEW f \in FilterText, ValidFilter(f)
    PROVE  /\ Len(f) \in Nat \ {0} /\ Fixed(f) \in Nat
           /\ \A i \in Nat : 1 <= i /\ i <= Len(f) =>
                 (i <= Fixed(f) <=> f[i] # "#") /\ i \in DOMAIN f
<1>1. f \in Seq(Levels) /\ f # << >>
    BY DEF FilterText
<1>2. Len(f) \in Nat \ {0} /\ DOMAIN f = 1..Len(f)
    BY <1>1
<1>3. \A i \in Nat : 1 <= i /\ i <= Len(f) => i \in DOMAIN f
    BY <1>2
<1>4. \A i \in DOMAIN f : f[i] = "#" => i = Len(f)
    BY DEF ValidFilter
<1>5. Fixed(f) \in Nat /\ Fixed(f) = IF f[Len(f)] = "#" THEN Len(f) - 1 ELSE Len(f)
    BY <1>2 DEF Fixed
<1> QED
    BY <1>2, <1>3, <1>4, <1>5

LEMMA MatchesFixed ==
    ASSUME NEW f \in FilterText, ValidFilter(f), NEW t \in TopicType
    PROVE  Matches(f, t) <=>
              /\ IF f[Len(f)] = "#" THEN Fixed(f) <= Len(t) ELSE Fixed(f) = Len(t)
              /\ \A i \in Nat : 1 <= i /\ i <= Fixed(f) => f[i] \in {"+", t[i]}
<1>1. Fixed(f) \in Nat
    BY FixedLevels
<1>2. \A i : i \in 1..Fixed(f) <=> i \in Nat /\ 1 <= i /\ i <= Fixed(f)
    BY <1>1
<1>3. Matches(f, t) <=>
         /\ IF f[Len(f)] = "#" THEN Fixed(f) <= Len(t) ELSE Fixed(f) = Len(t)
         /\ \A i \in 1..Fixed(f) : f[i] \in {"+", t[i]}
    BY DEF Matches, Fixed
<1> QED
    BY <1>2, <1>3

\* What a filter has with a greater specificity that matches the same topic: it
\* goes on with "#" where the other ends, or it is narrower at one level.
LEMMA NarrowerLevel ==
    ASSUME NEW f \in FilterText, NEW w \in FilterText, NEW t \in TopicType,
           ValidFilter(f), ValidFilter(w), Matches(f, t), Matches(w, t),
           LexLess(Specificity(f), Specificity(w)), w # Append(f, "#")
    PROVE  \E k \in Nat :
              /\ 1 <= k /\ k <= Len(f) /\ k <= Fixed(w)
              /\ Rank(f[k]) < Rank(w[k])
<1>1. /\ Len(f) \in Nat \ {0} /\ Fixed(f) \in Nat
      /\ Len(w) \in Nat \ {0} /\ Fixed(w) \in Nat
      /\ f \in Seq(Levels) /\ w \in Seq(Levels) /\ Len(t) \in Nat
    BY FixedLevels DEF FilterText, TopicType
<1>2. /\ Len(Specificity(f)) = Len(f) /\ Len(Specificity(w)) = Len(w)
      /\ \A i \in DOMAIN f : Specificity(f)[i] = Rank(f[i])
      /\ \A i \in DOMAIN w : Specificity(w)[i] = Rank(w[i])
    BY <1>1, SpecificityType
<1>3. PICK k \in Nat : LessAt(Specificity(f), Specificity(w), k)
    BY SpecificityType, LexLessAt
<1>4. /\ 1 <= k /\ k <= Len(w) /\ k <= Len(f) + 1
      /\ \A i \in Nat : 1 <= i /\ i < k => Specificity(f)[i] = Specificity(w)[i]
      /\ k <= Len(f) => Specificity(f)[k] < Specificity(w)[k]
    BY <1>2, <1>3 DEF LessAt
<1>5. \A i \in Nat : 1 <= i /\ i < k => f[i] = w[i]
    <2> SUFFICES ASSUME NEW i \in Nat, 1 <= i, i < k PROVE f[i] = w[i]
        OBVIOUS
    <2>1. i \in DOMAIN f /\ i \in DOMAIN w
        BY <1>1, <1>4
    <2>2. Rank(f[i]) = Rank(w[i])
        BY <1>2, <1>4, <2>1
    <2> QED
        BY <2>1, <2>2, SameRankSameLevel
<1>6. CASE k <= Len(f)
    <2>1. Rank(f[k]) < Rank(w[k])
        BY <1>1, <1>2, <1>4, <1>6
    <2>2. w[k] # "#"
        BY <2>1 DEF Rank
    <2>3. k <= Fixed(w)
        BY <1>4, <2>2, FixedLevels
    <2> QED
        BY <1>4, <1>6, <2>1, <2>3
<1>7. CASE k = Len(f) + 1
    <2> DEFINE n == Len(f)
    <2>1. f[n] = w[n] /\ n < Len(w)
        BY <1>1, <1>4, <1>5, <1>7
    <2>2. w[n] # "#"
        <3>1. n \in DOMAIN w /\ n # Len(w)
            BY <1>1, <2>1
        <3> QED
            BY <3>1 DEF ValidFilter
    <2>3. Len(t) = n
        BY <2>1, <2>2, MatchesFixed DEF Fixed
    <2>4. Len(w) = n + 1 /\ w[n + 1] = "#"
        BY <1>1, <2>1, <2>3, MatchesFixed DEF Fixed
    <2>5. "#" \in Levels
        BY DEF Levels, Wildcards
    <2>6. /\ Append(f, "#") \in Seq(Levels) /\ Len(Append(f, "#")) = n + 1
          /\ \A i \in 1..n : Append(f, "#")[i] = f[i]
          /\ Append(f, "#")[n + 1] = "#"
        BY <1>1, <2>5
    <2>7. \A i \in 1..(n + 1) : w[i] = Append(f, "#")[i]
        <3>1. \A i \in 1..n : f[i] = w[i]
            BY <1>1, <1>5, <1>7
        <3>2. \A i \in 1..(n + 1) : i \in 1..n \/ i = n + 1
            BY <1>1
        <3> QED
            BY <2>4, <2>6, <3>1, <3>2
    <2>8. w = Append(f, "#")
        BY <1>1, <2>4, <2>6, <2>7
    <2> QED
        BY <2>8
<1> QED
    BY <1>1, <1>4, <1>6, <1>7

\* With two literals to tell topics apart, the filter that is wider at that
\* level matches a topic the narrower one does not, or every topic.
LEMMA NotNarrower ==
    ASSUME NEW a \in Literals, NEW b \in Literals, a # b,
           NEW f \in FilterText, NEW w \in FilterText, NEW t \in TopicType,
           ValidFilter(f), ValidFilter(w), Matches(f, t), Matches(w, t),
           NEW k \in Nat, 1 <= k, k <= Len(f), k <= Fixed(w), Rank(f[k]) < Rank(w[k])
    PROVE  \/ \E u \in TopicType : Matches(f, u) /\ ~Matches(w, u)
           \/ \A u \in TopicType : Matches(f, u)
<1>1. /\ Len(f) \in Nat \ {0} /\ Fixed(f) \in Nat /\ Fixed(w) \in Nat
      /\ t \in Seq(Literals) /\ Len(t) \in Nat /\ t # << >>
    BY FixedLevels DEF TopicType
<1>2. k <= Len(t) /\ (k <= Fixed(f) <=> f[k] # "#")
    BY <1>1, FixedLevels, MatchesFixed
<1>3. \A i \in Nat : 1 <= i /\ i <= Len(t) => t[i] \in Literals
    BY <1>1
<1>4. CASE w[k] # "+"
    <2>1. f[k] \in {"#", "+"}
        BY <1>4 DEF Rank
    <2>2. w[k] = t[k] /\ t[k] \in Literals
        BY <1>2, <1>3, <1>4, MatchesFixed
    <2>3. PICK c \in {a, b} : c # t[k]
        OBVIOUS
    <2> DEFINE u == [t EXCEPT ![k] = c]
    <2>4. /\ u \in Seq(Literals) /\ Len(u) = Len(t) /\ u[k] = c
          /\ \A i \in Nat : 1 <= i /\ i <= Len(t) /\ i # k => u[i] = t[i]
        BY <1>1, <1>2, <2>3
    <2> HIDE DEF u
    <2>5. u \in TopicType
        BY <1>1, <2>4 DEF TopicType
    <2>6. \A i \in Nat : 1 <= i /\ i <= Fixed(f) => f[i] \in {"+", u[i]}
        <3> SUFFICES ASSUME NEW i \in Nat, 1 <= i, i <= Fixed(f) PROVE f[i] \in {"+", u[i]}
            OBVIOUS
        <3>1. f[i] \in {"+", t[i]} /\ Fixed(f) <= Len(t)
            BY <1>1, MatchesFixed
        <3>2. CASE i = k
            BY <1>2, <2>1, <3>2
        <3>3. CASE i # k
            BY <1>1, <2>4, <3>1, <3>3
        <3> QED
            BY <3>2, <3>3
    <2>7. Matches(f, u)
        BY <2>4, <2>5, <2>6, MatchesFixed
    <2>8. ~Matches(w, u)
        <3>1. w[k] \notin {"+", u[k]}
            BY <1>4, <2>2, <2>3, <2>4
        <3> QED
            BY <2>5, <3>1, MatchesFixed
    <2> QED
        BY <2>5, <2>7, <2>8
<1>5. CASE w[k] = "+"
    <2>1. f[k] = "#" /\ f[Len(f)] = "#" /\ Fixed(f) = k - 1
        <3>1. f[k] = "#"
            BY <1>5 DEF Rank
        <3>2. k = Len(f)
            BY <3>1, FixedLevels DEF ValidFilter
        <3> QED
            BY <3>1, <3>2 DEF Fixed
    <2>2. CASE k = 1
        <3>1. ASSUME NEW u \in TopicType PROVE Matches(f, u)
            <4>1. Len(u) \in Nat
                BY DEF TopicType
            <4> QED
                BY <2>1, <2>2, <4>1, MatchesFixed
        <3> QED
            BY <3>1
    <2>3. CASE k # 1
        <3> DEFINE u == [i \in 1..(k - 1) |-> t[i]]
        <3>1. /\ u \in Seq(Literals) /\ Len(u) = k - 1 /\ u # << >>
              /\ \A i \in Nat : 1 <= i /\ i <= k - 1 => u[i] = t[i]
            <4>1. k - 1 \in Nat /\ k - 1 # 0
                BY <2>3
            <4>2. \A i \in 1..(k - 1) : t[i] \in Literals
                BY <1>1, <1>2, <1>3
            <4>3. u \in Seq(Literals) /\ Len(u) = k - 1
                BY <4>1, <4>2
            <4> QED
                BY <4>1, <4>3
        <3> HIDE DEF u
        <3>2. u \in TopicType
            BY <3>1 DEF TopicType
        <3>3. \A i \in Nat : 1 <= i /\ i <= Fixed(f) => f[i] \in {"+", u[i]}
            BY <2>1, <3>1, MatchesFixed
        <3>4. Matches(f, u)
            BY <2>1, <3>1, <3>2, <3>3, MatchesFixed
        <3>5. ~Matches(w, u)
            BY <1>1, <3>1, <3>2, MatchesFixed
        <3> QED
            BY <3>2, <3>4, <3>5
    <2> QED
        BY <2>2, <2>3
<1> QED
    BY <1>4, <1>5

----------------------------------------------------------------------------
(* The theorems *)

LEMMA EntriesRegistry == TypeOK /\ Distinct => IsRegistry(entries)
<1> SUFFICES ASSUME TypeOK, Distinct PROVE IsRegistry(entries)
    OBVIOUS
<1>1. Texts \subseteq FilterText
    BY RegistryAssumption
<1> DEFINE ET == [filter : FilterText, decoder : Decoders]
<1>2. EntryType \subseteq ET
    BY <1>1 DEF EntryType
<1> HIDE DEF ET
<1>3. entries \in Seq(ET)
    BY <1>2 DEF TypeOK
<1> QED
    BY <1>3 DEF IsRegistry, TypeOK, Distinct, ET

\* A topic resolves to the same decoder in whatever order the [[topic]] blocks
\* stand in the file (src/decoder/registry.rs:60-69): the greatest specificity
\* decides, and it is one entry's alone.
THEOREM RegistryOrderIndependent == Spec => []OrderIndependent
<1>1. TypeOK /\ Distinct => OrderIndependent
    <2> SUFFICES ASSUME TypeOK, Distinct PROVE OrderIndependent
        OBVIOUS
    <2>1. IsRegistry(entries)
        BY EntriesRegistry
    <2>2. \A t \in Topics : t \in TopicType
        BY RegistryAssumption
    <2> QED
        BY <2>1, <2>2, PermutedRegistry DEF OrderIndependent, Permutations
<1> QED
    BY <1>1, RegistryTypeOK, RegistryDistinct, PTL

\* The winner is a most specific entry (src/topic.rs:79,
\* src/decoder/registry.rs:54): of the filters that match a topic, none has a
\* language strictly inside the winner's, but for a filter against itself with
\* "/#" behind it.  Languages are over all topics, and there must be two levels
\* to tell topics apart by; over fewer topics a filter may seem wider than it is.
THEOREM RegistryMostSpecificWins ==
    ASSUME Topics = TopicType, \E a, b \in Literals : a # b
    PROVE  Spec => []MostSpecificWins
<1>1. TypeOK /\ Distinct => MostSpecificWins
    <2> SUFFICES ASSUME TypeOK, Distinct, NEW t \in Topics, NEW i \in Candidates(entries, t),
                        LET f == entries[i].filter
                            w == entries[Winner(entries, t)].filter
                        IN  /\ Language(f) \subseteq Language(w)
                            /\ Language(f) # Language(w)
                            /\ w # Append(f, "#")
                 PROVE  FALSE
        BY DEF MostSpecificWins
    <2> DEFINE j == Winner(entries, t)
               f == entries[i].filter
               w == entries[j].filter
    <2>1. IsRegistry(entries)
        BY EntriesRegistry
    <2>2. j \in Candidates(entries, t)
        BY <2>1, WinnerExists
    <2>3. /\ f \in FilterText /\ ValidFilter(f) /\ Matches(f, t)
          /\ w \in FilterText /\ ValidFilter(w) /\ Matches(w, t)
        BY <2>1, <2>2, EntryOf DEF Candidates
    <2>4. LexLess(Specificity(f), Specificity(w))
        BY <2>1, WinnerStrict
    <2> HIDE DEF f, w
    <2>5. PICK k \in Nat : /\ 1 <= k /\ k <= Len(f) /\ k <= Fixed(w)
                           /\ Rank(f[k]) < Rank(w[k])
        BY <2>3, <2>4, NarrowerLevel DEF f, w
    <2>6. \/ \E u \in TopicType : Matches(f, u) /\ ~Matches(w, u)
          \/ \A u \in TopicType : Matches(f, u)
        BY <2>3, <2>5, NotNarrower
    <2> QED
        BY <2>6 DEF Language, f, w
<1> QED
    BY <1>1, RegistryTypeOK, RegistryDistinct, PTL
============================================================================
