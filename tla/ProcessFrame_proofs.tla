------------------------- MODULE ProcessFrame_proofs -------------------------
(***************************************************************************)
(* Proofs about ProcessFrame, for any finite set of ids, any persons,      *)
(* places, regions and thresholds.                                         *)
(***************************************************************************)
EXTENDS ProcessFrame, SequenceTheorems, FiniteSetTheorems, WellFoundedInduction, TLAPS

-----------------------------------------------------------------------------
(* Loops *)

(* Induction, with a set for the predicate.                                *)
LEMMA UpToN ==
    ASSUME NEW N \in Nat, NEW S, 0 \in S, \A n \in 1..N : n - 1 \in S => n \in S
    PROVE  0..N \subseteq S
<1> DEFINE Bad == {n \in 0..N : n \notin S}
<1> SUFFICES ASSUME Bad # {} PROVE FALSE
  OBVIOUS
<1>1. Bad \subseteq Nat
  OBVIOUS
<1>2. PICK m \in Bad : \A k \in Bad : ~(<<k, m>> \in OpToRel(<, Nat))
  BY <1>1, NatLessThanWellFounded, WFMin
<1>3. m \in 1..N /\ m \notin S
  OBVIOUS
<1>4. m - 1 \in Bad
  <2>1. m - 1 \in 0..N /\ m - 1 \notin S
    BY <1>3
  <2> QED BY <2>1
<1> HIDE DEF Bad
<1>5. m - 1 \in Nat /\ m \in Nat /\ m - 1 < m
  BY <1>3
<1>6. <<m - 1, m>> \in OpToRel(<, Nat)
  BY ONLY <1>5 DEF OpToRel
<1> QED BY <1>2, <1>4, <1>6

(* r holds what a loop over N elements that starts with base has before it *)
(* and after each of its steps.                                            *)
IsRun(r, N, A, base, step) ==
    /\ r \in [0..N -> A]
    /\ r[0] = base
    /\ \A n \in 1..N : r[n] = step[n][r[n - 1]]

LEMMA LoopRuns ==
    ASSUME NEW N \in Nat, NEW A, NEW base \in A, NEW step \in [1..N -> [A -> A]]
    PROVE  \E r : IsRun(r, N, A, base, step)
<1> DEFINE S == {m \in 0..N : \E r : IsRun(r, m, A, base, step)}
<1>1. IsRun([n \in 0..0 |-> base], 0, A, base, step)
  BY DEF IsRun
<1>2. 0 \in S
  BY <1>1
<1>3. ASSUME NEW m \in 1..N, m - 1 \in S PROVE m \in S
  <2>1. PICK r : IsRun(r, m - 1, A, base, step)
    BY <1>3
  <2> DEFINE longer == [n \in 0..m |-> IF n = m THEN step[m][r[m - 1]] ELSE r[n]]
  <2>2. m - 1 \in 0..N /\ m - 1 \in 0..(m - 1)
    OBVIOUS
  <2>3. r[m - 1] \in A /\ step[m][r[m - 1]] \in A
    BY <2>1, <2>2 DEF IsRun
  <2>4. \A n \in 0..(m - 1) : n \in 0..m /\ n # m
    OBVIOUS
  <2>5. \A n \in 0..(m - 1) : longer[n] = r[n] /\ r[n] \in A
    BY <2>1, <2>4 DEF IsRun
  <2>6. longer \in [0..m -> A]
    <3>1. \A n \in 0..m : n = m \/ n \in 0..(m - 1)
      OBVIOUS
    <3> QED BY <2>3, <2>5, <3>1
  <2>7. longer[0] = base
    BY <2>1, <2>5 DEF IsRun
  <2>8. ASSUME NEW n \in 1..m PROVE longer[n] = step[n][longer[n - 1]]
    <3>1. n - 1 \in 0..(m - 1)
      OBVIOUS
    <3>2. longer[n - 1] = r[n - 1]
      BY <2>5, <3>1
    <3>3. CASE n = m
      BY <3>2, <3>3
    <3>4. CASE n # m
      <4>1. n \in 1..(m - 1) /\ n \in 0..(m - 1)
        BY <3>4
      <4> QED BY <2>1, <2>5, <3>2, <4>1 DEF IsRun
    <3> QED BY <3>3, <3>4
  <2> HIDE DEF longer
  <2>9. IsRun(longer, m, A, base, step)
    BY <2>6, <2>7, <2>8 DEF IsRun
  <2> QED BY <2>9
<1>4. N \in S
  <2> HIDE DEF S
  <2>1. 0..N \subseteq S
    BY <1>2, <1>3, UpToN
  <2> QED BY <2>1
<1> QED BY <1>4

(* What satisfies the loop's equations stays in A.                         *)
LEMMA LoopTyped ==
    ASSUME NEW N \in Nat, NEW A, NEW f, f[0] \in A, \A n \in 1..N : f[n - 1] \in A => f[n] \in A
    PROVE  f[N] \in A
<1> DEFINE S == {n \in 0..N : f[n] \in A}
<1>1. 0 \in S
  OBVIOUS
<1>2. ASSUME NEW n \in 1..N, n - 1 \in S PROVE n \in S
  BY <1>2
<1> HIDE DEF S
<1>3. 0..N \subseteq S
  BY <1>1, <1>2, UpToN
<1>4. N \in S
  BY <1>3
<1> QED BY <1>4 DEF S

-----------------------------------------------------------------------------
(* Listings: sequences that name every element of a set once *)

LEMMA EmptyListed == ListedOnce(<<>>, {})
<1>1. <<>> \in Seq({}) /\ ToSet(<<>>) = {} /\ IsInjective(<<>>)
  BY EmptySeq DEF ToSet, IsInjective
<1> QED BY <1>1 DEF ListedOnce

LEMMA AppendListed ==
    ASSUME NEW q, NEW R, ListedOnce(q, R), NEW x, x \notin R
    PROVE  ListedOnce(Append(q, x), R \cup {x})
<1> DEFINE U == R \cup {x}
           w == Append(q, x)
<1>1. q \in Seq(R) /\ ToSet(q) = R /\ IsInjective(q) /\ q \in Seq(U)
  BY DEF ListedOnce
<1>2. /\ Len(q) \in Nat /\ DOMAIN q = 1..Len(q)
      /\ w \in Seq(U) /\ Len(w) = Len(q) + 1 /\ DOMAIN w = 1..(Len(q) + 1)
      /\ w[Len(q) + 1] = x
      /\ \A i \in 1..Len(q) : w[i] = q[i]
  <2>1. x \in U /\ q \in Seq(U)
    BY <1>1
  <2> QED BY <2>1, AppendProperties, LenProperties
<1>3. \A i \in 1..Len(q) : q[i] \in R
  BY <1>1, ElementOfSeq
<1> HIDE DEF w, U
<1>4. ToSet(w) = U
  <2>1. \A y \in R : \E i \in 1..Len(q) : q[i] = y
    BY <1>1, <1>2 DEF ToSet
  <2>2. \A y \in R : \E i \in DOMAIN w : w[i] = y
    BY <1>2, <2>1
  <2>3. \E i \in DOMAIN w : w[i] = x
    BY <1>2
  <2>4. \A i \in DOMAIN w : i \in 1..Len(q) \/ i = Len(q) + 1
    BY <1>2
  <2>5. \A i \in DOMAIN w : w[i] \in U
    BY <1>2, <1>3, <2>4 DEF U
  <2> QED BY <2>2, <2>3, <2>5 DEF ToSet, U
<1>5. IsInjective(w)
  <2> SUFFICES ASSUME NEW i \in DOMAIN w, NEW j \in DOMAIN w, w[i] = w[j] PROVE i = j
    BY DEF IsInjective
  <2>1. (i \in 1..Len(q) \/ i = Len(q) + 1) /\ (j \in 1..Len(q) \/ j = Len(q) + 1)
    BY <1>2
  <2>2. CASE i \in 1..Len(q) /\ j \in 1..Len(q)
    BY <1>1, <1>2, <2>2 DEF IsInjective
  <2>3. CASE ~(i \in 1..Len(q) /\ j \in 1..Len(q))
    BY <1>2, <1>3, <2>1, <2>3
  <2> QED BY <2>2, <2>3
<1>6. w \in Seq(U)
  BY <1>2
<1>7. ListedOnce(w, U)
  BY <1>4, <1>5, <1>6 DEF ListedOnce
<1> QED BY <1>7 DEF w, U

LEMMA ConcatListed ==
    ASSUME NEW q, NEW R, ListedOnce(q, R), NEW r, NEW S, ListedOnce(r, S), R \cap S = {}
    PROVE  ListedOnce(q \o r, R \cup S)
<1> DEFINE U == R \cup S
           w == q \o r
<1>1. /\ q \in Seq(R) /\ ToSet(q) = R /\ IsInjective(q) /\ q \in Seq(U)
      /\ r \in Seq(S) /\ ToSet(r) = S /\ IsInjective(r) /\ r \in Seq(U)
  BY DEF ListedOnce
<1>2. /\ Len(q) \in Nat /\ DOMAIN q = 1..Len(q)
      /\ Len(r) \in Nat /\ DOMAIN r = 1..Len(r)
      /\ w \in Seq(U) /\ Len(w) = Len(q) + Len(r) /\ DOMAIN w = 1..(Len(q) + Len(r))
      /\ \A i \in 1..(Len(q) + Len(r)) : w[i] = IF i <= Len(q) THEN q[i] ELSE r[i - Len(q)]
  BY <1>1, ConcatProperties, LenProperties
<1>3. (\A i \in 1..Len(q) : q[i] \in R) /\ (\A i \in 1..Len(r) : r[i] \in S)
  BY <1>1, ElementOfSeq
<1> HIDE DEF w, U
<1>4. \A i \in DOMAIN w : \/ i \in 1..Len(q) /\ w[i] = q[i]
                          \/ i - Len(q) \in 1..Len(r) /\ w[i] = r[i - Len(q)]
  BY <1>2
<1>5. ToSet(w) = U
  <2>1. \A y \in R : \E i \in 1..Len(q) : q[i] = y
    BY <1>1, <1>2 DEF ToSet
  <2>2. \A i \in 1..Len(q) : i \in DOMAIN w /\ w[i] = q[i]
    BY <1>2
  <2>3. \A y \in S : \E i \in 1..Len(r) : r[i] = y
    BY <1>1, <1>2 DEF ToSet
  <2>4. \A i \in 1..Len(r) : /\ i + Len(q) \in 1..(Len(q) + Len(r)) /\ ~(i + Len(q) <= Len(q))
                             /\ i + Len(q) - Len(q) = i
    BY <1>2
  <2>5. \A i \in 1..Len(r) : i + Len(q) \in DOMAIN w /\ w[i + Len(q)] = r[i]
    BY <1>2, <2>4
  <2>6. \A i \in DOMAIN w : w[i] \in U
    BY <1>3, <1>4 DEF U
  <2>7. \A y \in U : \E i \in DOMAIN w : w[i] = y
    BY <2>1, <2>2, <2>3, <2>5 DEF U
  <2> QED BY <2>6, <2>7 DEF ToSet
<1>6. IsInjective(w)
  <2> SUFFICES ASSUME NEW i \in DOMAIN w, NEW j \in DOMAIN w, w[i] = w[j] PROVE i = j
    BY DEF IsInjective
  <2>1. CASE i \in 1..Len(q) /\ w[i] = q[i] /\ j \in 1..Len(q) /\ w[j] = q[j]
    BY <1>1, <1>2, <2>1 DEF IsInjective
  <2>2. CASE /\ i - Len(q) \in 1..Len(r) /\ w[i] = r[i - Len(q)]
             /\ j - Len(q) \in 1..Len(r) /\ w[j] = r[j - Len(q)]
    <3>1. i - Len(q) = j - Len(q)
      BY <1>1, <1>2, <2>2 DEF IsInjective
    <3>2. i \in Int /\ j \in Int
      BY <1>2
    <3> QED BY <1>2, <3>1, <3>2
  <2> QED BY <1>3, <1>4, <2>1, <2>2
<1>7. w \in Seq(U)
  BY <1>2
<1>8. ListedOnce(w, U)
  BY <1>5, <1>6, <1>7 DEF ListedOnce
<1> QED BY <1>8 DEF w, U

LEMMA SetListed ==
    ASSUME NEW S, IsFiniteSet(S), NEW q \in SetToSeqs(S)
    PROVE  ListedOnce(q, S)
<1> DEFINE n == Cardinality(S)
<1>1. n \in Nat /\ q \in [1..n -> S] /\ IsInjective(q)
  BY FS_CardinalityType DEF SetToSeqs, IsInjective
<1> HIDE DEF n
<1>2. q \in Seq(S)
  BY <1>1, SeqDef
<1>3. IsFiniteSet(1..n) /\ Cardinality(1..n) = n
  <2>1. 1 \in Int /\ n \in Int /\ (IF 1 > n THEN 0 ELSE n - 1 + 1) = n
    BY <1>1
  <2> QED BY <2>1, FS_Interval
<1>4. q \in Surjection(1..n, S)
  <2>1. q \in Injection(1..n, S)
    BY <1>1 DEF Injection
  <2> QED BY <1>3, <2>1, FS_Injection DEF n
<1>5. ToSet(q) = S
  BY <1>1, <1>4 DEF Surjection, ToSet
<1> QED BY <1>1, <1>2, <1>5 DEF ListedOnce

LEMMA MembersListed ==
    ASSUME NEW T, NEW s, ListedOnce(s, T), NEW S
    PROVE  ListedOnce(Members(s, S), T \cap S)
<1> DEFINE N == Len(s)
           A == Seq(T)
           Works(f) == f = [n \in 0..N |-> IF n = 0 THEN <<>> ELSE MembersAnd(S, f[n - 1], s[n])]
           kept == CHOOSE f : Works(f)
           step == [n \in 1..N |-> [a \in A |-> MembersAnd(S, a, s[n])]]
<1>0. s \in Seq(T) /\ ToSet(s) = T /\ IsInjective(s) /\ DOMAIN s = 1..N
  BY LenProperties DEF ListedOnce
<1>1. N \in Nat /\ <<>> \in A
  BY <1>0, LenProperties, EmptySeq
<1>2. ASSUME NEW n \in 1..N, NEW a \in A PROVE MembersAnd(S, a, s[n]) \in A
  BY <1>0, ElementOfSeq, AppendProperties DEF MembersAnd
<1>3. Members(s, S) = kept[N]
  BY DEF Members
<1> HIDE DEF A, N
<1>4. step \in [1..N -> [A -> A]]
  BY <1>2
<1>5. \A n \in 1..N, a \in A : step[n][a] = MembersAnd(S, a, s[n])
  OBVIOUS
<1> HIDE DEF step
<1>6. PICK r : IsRun(r, N, A, <<>>, step)
  BY <1>1, <1>4, LoopRuns
<1>7. ASSUME NEW n \in 0..N
      PROVE  r[n] = IF n = 0 THEN <<>> ELSE MembersAnd(S, r[n - 1], s[n])
  <2>1. CASE n = 0
    BY <1>6, <2>1 DEF IsRun
  <2>2. CASE n # 0
    <3>1. n \in 1..N /\ n - 1 \in 0..N
      BY <1>1, <2>2
    <3> QED BY <1>5, <1>6, <2>2, <3>1 DEF IsRun
  <2> QED BY <2>1, <2>2
<1>8. Works(r)
  BY <1>6, <1>7 DEF IsRun
<1>9. Works(kept)
  BY <1>8
<1> HIDE DEF kept
<1>10. kept[0] = <<>> /\ \A n \in 1..N : kept[n] = MembersAnd(S, kept[n - 1], s[n])
  BY <1>1, <1>9
<1> DEFINE First(n) == {s[k] : k \in 1..n}
           Good == {n \in 0..N : ListedOnce(kept[n], First(n) \cap S)}
<1>11. 0 \in Good
  <2>1. First(0) \cap S = {}
    OBVIOUS
  <2> HIDE DEF First
  <2>2. ListedOnce(kept[0], First(0) \cap S)
    BY <1>10, <2>1, EmptyListed, Zenon
  <2> QED BY <1>1, <2>2
<1>12. ASSUME NEW n \in 1..N, n - 1 \in Good PROVE n \in Good
  <2>0. n \in 0..N
    BY <1>1
  <2>1. First(n) = First(n - 1) \cup {s[n]}
    <3>1. \A k : k \in 1..n <=> k \in 1..(n - 1) \/ k = n
      BY <1>1
    <3> QED BY <3>1
  <2>2. s[n] \notin First(n - 1)
    <3>1. \A k \in 1..(n - 1) : k \in DOMAIN s /\ n \in DOMAIN s /\ k # n
      BY <1>0, <1>1
    <3> QED BY <1>0, <3>1 DEF IsInjective
  <2>3. ListedOnce(kept[n - 1], First(n - 1) \cap S)
    BY <1>12
  <2> HIDE DEF First
  <2>4. CASE s[n] \in S
    <3>1. kept[n] = Append(kept[n - 1], s[n])
      BY <1>10, <2>4 DEF MembersAnd
    <3>2. First(n) \cap S = (First(n - 1) \cap S) \cup {s[n]} /\ s[n] \notin First(n - 1) \cap S
      BY <2>1, <2>2, <2>4
    <3>3. ListedOnce(Append(kept[n - 1], s[n]), (First(n - 1) \cap S) \cup {s[n]})
      BY <2>3, <3>2, AppendListed
    <3>4. ListedOnce(kept[n], First(n) \cap S)
      BY <3>1, <3>2, <3>3, Zenon
    <3> QED BY <2>0, <3>4
  <2>5. CASE s[n] \notin S
    <3>1. kept[n] = kept[n - 1]
      BY <1>10, <2>5 DEF MembersAnd
    <3>2. First(n) \cap S = First(n - 1) \cap S
      BY <2>1, <2>5
    <3>3. ListedOnce(kept[n], First(n) \cap S)
      BY <2>3, <3>1, <3>2, Zenon
    <3> QED BY <2>0, <3>3
  <2> QED BY <2>4, <2>5
<1>13. ListedOnce(kept[N], First(N) \cap S)
  <2> HIDE DEF Good
  <2>1. 0..N \subseteq Good
    BY <1>1, <1>11, <1>12, UpToN
  <2>2. N \in Good
    BY <1>1, <2>1
  <2> QED BY <2>2 DEF Good
<1>14. First(N) = T
  BY <1>0 DEF ToSet
<1> QED BY <1>3, <1>13, <1>14

-----------------------------------------------------------------------------
(* Proposals *)

Item == [pos : Places, owner_hint : Persons \cup {None}]

LEMMA UniqueTyped ==
    ASSUME NEW T, NEW items \in Seq(T)
    PROVE  Unique(items) \in Seq(T)
<1> DEFINE N == Len(items)
           A == Seq(T)
           Works(f) == f = [n \in 0..N |-> IF n = 0 THEN <<>> ELSE UniqueAnd(f[n - 1], items[n])]
           works == CHOOSE f : Works(f)
           step == [n \in 1..N |-> [a \in A |-> UniqueAnd(a, items[n])]]
<1>1. N \in Nat /\ <<>> \in A
  BY LenProperties, EmptySeq
<1>2. ASSUME NEW n \in 1..N, NEW a \in A PROVE UniqueAnd(a, items[n]) \in A
  BY ElementOfSeq, AppendProperties DEF UniqueAnd
<1>3. Unique(items) = works[N]
  BY DEF Unique
<1> HIDE DEF A, N
<1>4. step \in [1..N -> [A -> A]]
  BY <1>2
<1>5. \A n \in 1..N, a \in A : step[n][a] = UniqueAnd(a, items[n])
  OBVIOUS
<1> HIDE DEF step
<1>6. PICK r : IsRun(r, N, A, <<>>, step)
  BY <1>1, <1>4, LoopRuns
<1>7. ASSUME NEW n \in 0..N
      PROVE  r[n] = IF n = 0 THEN <<>> ELSE UniqueAnd(r[n - 1], items[n])
  <2>1. CASE n = 0
    BY <1>6, <2>1 DEF IsRun
  <2>2. CASE n # 0
    <3>1. n \in 1..N /\ n - 1 \in 0..N
      BY <1>1, <2>2
    <3> QED BY <1>5, <1>6, <2>2, <3>1 DEF IsRun
  <2> QED BY <2>1, <2>2
<1>8. Works(r)
  BY <1>6, <1>7 DEF IsRun
<1>9. Works(works)
  BY <1>8
<1> HIDE DEF works
<1>10. works[0] = <<>> /\ \A n \in 1..N : works[n] = UniqueAnd(works[n - 1], items[n])
  BY <1>1, <1>9
<1>11. works[N] \in A
  <2>1. works[0] \in A
    BY <1>1, <1>10
  <2>2. \A n \in 1..N : works[n - 1] \in A => works[n] \in A
    BY <1>2, <1>10
  <2> QED BY <1>1, <2>1, <2>2, LoopTyped, Zenon
<1> QED BY <1>3, <1>11 DEF A

LEMMA VerifiedTyped ==
    ASSUME FrameTyped, NEW item \in Item
    PROVE  Verified(item) \subseteq Item
BY DEF Verified, Item, FrameTyped

LEMMA ValidTyped ==
    ASSUME FrameTyped, NEW items \in Seq(Item), NEW image \in BOOLEAN
    PROVE  Valid(items, image) \subseteq Seq(Item)
<1> DEFINE N == Len(items)
           base == {<<>>}
           A == SUBSET Seq(Item)
           Works(f) == f = [n \in 0..N |-> IF n = 0 THEN base ELSE ValidAnd(f[n - 1], items[n])]
           works == CHOOSE f : Works(f)
           step == [n \in 1..N |-> [a \in A |-> ValidAnd(a, items[n])]]
<1>1. N \in Nat /\ base \in A
  BY LenProperties, EmptySeq
<1>2. ASSUME NEW n \in 1..N, NEW a \in A PROVE ValidAnd(a, items[n]) \in A
  <2>1. Verified(items[n]) \subseteq Item
    BY ElementOfSeq, VerifiedTyped
  <2>2. ASSUME NEW v \in a, NEW i \in Verified(items[n]) PROVE Append(v, i) \in Seq(Item)
    BY <2>1, AppendProperties
  <2> QED BY <2>2 DEF ValidAnd
<1>3. Valid(items, image) = IF image THEN works[N] ELSE {items}
  BY DEF Valid
<1> HIDE DEF A, N, base
<1>4. step \in [1..N -> [A -> A]]
  BY <1>2
<1>5. \A n \in 1..N, a \in A : step[n][a] = ValidAnd(a, items[n])
  OBVIOUS
<1> HIDE DEF step
<1>6. PICK r : IsRun(r, N, A, base, step)
  BY <1>1, <1>4, LoopRuns
<1>7. ASSUME NEW n \in 0..N
      PROVE  r[n] = IF n = 0 THEN base ELSE ValidAnd(r[n - 1], items[n])
  <2>1. CASE n = 0
    BY <1>6, <2>1 DEF IsRun
  <2>2. CASE n # 0
    <3>1. n \in 1..N /\ n - 1 \in 0..N
      BY <1>1, <2>2
    <3> QED BY <1>5, <1>6, <2>2, <3>1 DEF IsRun
  <2> QED BY <2>1, <2>2
<1>8. Works(r)
  BY <1>6, <1>7 DEF IsRun
<1>9. Works(works)
  BY <1>8
<1> HIDE DEF works
<1>10. works[0] = base /\ \A n \in 1..N : works[n] = ValidAnd(works[n - 1], items[n])
  BY <1>1, <1>9
<1>11. works[N] \in A
  <2>1. works[0] \in A
    BY <1>1, <1>10
  <2>2. \A n \in 1..N : works[n - 1] \in A => works[n] \in A
    BY <1>2, <1>10
  <2> QED BY <1>1, <2>1, <2>2, LoopTyped, Zenon
<1> QED BY <1>3, <1>11 DEF A

-----------------------------------------------------------------------------
(* Blobs *)

Partial(S, T) == UNION {[D -> T] : D \in SUBSET S}

Blob == [pos : Places, hits : 1..StaticConfirm, age : 0..MaxMissed + 1]

History == [Persons -> [Places -> 0..HistoryWindow \cup {None}]]

Result == [pos : Places, static : BOOLEAN, owner_hint : Persons \cup {None}]

Work == [blobs : Partial(Objects, Blob), results : Partial(Objects, Result)]

LEMMA PartialIff ==
    ASSUME NEW S, NEW T, NEW f
    PROVE  f \in Partial(S, T) <=> DOMAIN f \subseteq S /\ f \in [DOMAIN f -> T]
BY DEF Partial

LEMMA WithTyped ==
    ASSUME NEW S, NEW T, NEW f \in Partial(S, T), NEW o \in S, NEW value \in T
    PROVE  With(f, o, value) \in Partial(S, T)
<1> DEFINE g == With(f, o, value)
<1>1. DOMAIN f \subseteq S /\ f \in [DOMAIN f -> T]
  BY PartialIff
<1>2. DOMAIN g = DOMAIN f \cup {o} /\ g \in [DOMAIN f \cup {o} -> T]
  BY <1>1 DEF With
<1> HIDE DEF g
<1>3. g \in Partial(S, T)
  BY <1>1, <1>2, PartialIff
<1> QED BY <1>3 DEF g

LEMMA AssignedTyped ==
    ASSUME NEW work \in Work, NEW item \in Item
    PROVE  Assigned(work, item) \subseteq Work
<1> SUFFICES ASSUME NEW new \in Assigned(work, item) PROVE new \in Work
  OBVIOUS
<1> DEFINE result(blob) == [pos |-> blob.pos, static |-> blob.hits >= StaticConfirm,
                            owner_hint |-> item.owner_hint]
<1>1. ASSUME NEW o \in Objects, NEW b \in Blob,
             new = [blobs |-> With(work.blobs, o, b), results |-> With(work.results, o, result(b))]
      PROVE  new \in Work
  <2>1. result(b) \in Result
    BY DEF Result, Blob, Item
  <2>2. work.blobs \in Partial(Objects, Blob) /\ work.results \in Partial(Objects, Result)
    BY DEF Work
  <2> HIDE DEF result
  <2>3. With(work.blobs, o, b) \in Partial(Objects, Blob)
    BY <2>2, WithTyped
  <2>4. With(work.results, o, result(b)) \in Partial(Objects, Result)
    BY <2>1, <2>2, WithTyped
  <2> QED BY <1>1, <2>3, <2>4 DEF Work
<1>2. CASE Nearest(work, item.pos) # {}
  <2>1. PICK o \in Nearest(work, item.pos) : \E b \in Hit(work.blobs[o], item.pos) :
          new = [blobs |-> With(work.blobs, o, b), results |-> With(work.results, o, result(b))]
    BY <1>2 DEF Assigned
  <2>2. PICK b \in Hit(work.blobs[o], item.pos) :
          new = [blobs |-> With(work.blobs, o, b), results |-> With(work.results, o, result(b))]
    BY <2>1
  <2>3. work.blobs \in Partial(Objects, Blob)
    BY DEF Work
  <2>4. o \in Objects /\ work.blobs[o] \in Blob
    BY <2>3, PartialIff DEF Nearest, Free
  <2>5. b \in Blob
    <3>1. UpTo(StaticConfirm, work.blobs[o].hits + 1) \in 1..StaticConfirm
      BY <2>4, ProcessFrameConstants DEF UpTo, Blob
    <3>2. 0 \in 0..MaxMissed + 1
      BY ProcessFrameConstants
    <3> QED BY <2>2, <3>1, <3>2 DEF Hit, Between, Blob
  <2> QED BY <1>1, <2>2, <2>4, <2>5
<1>3. CASE Nearest(work, item.pos) = {}
  <2> DEFINE first == [pos |-> item.pos, hits |-> 1, age |-> 0]
  <2>1. PICK o \in Unused(work) :
          new = [blobs |-> With(work.blobs, o, first), results |-> With(work.results, o, result(first))]
    BY <1>3 DEF Assigned
  <2>2. o \in Objects
    BY DEF Unused
  <2>3. first \in Blob
    BY ProcessFrameConstants DEF Blob, Item
  <2> HIDE DEF first
  <2> QED BY <1>1, <2>1, <2>2, <2>3
<1> QED BY <1>2, <1>3

LEMMA BlobsTyped ==
    ASSUME FrameTyped, NEW items \in Seq(Item)
    PROVE  Blobs(items) \subseteq Work
<1> DEFINE N == Len(items)
           base == {[blobs |-> blobs, results |-> <<>>]}
           A == SUBSET Work
           Works(f) == f = [n \in 0..N |-> IF n = 0 THEN base ELSE BlobsAnd(f[n - 1], items[n])]
           works == CHOOSE f : Works(f)
           step == [n \in 1..N |-> [a \in A |-> BlobsAnd(a, items[n])]]
<1>1. N \in Nat /\ base \in A
  <2>1. blobs \in Partial(Objects, Blob)
    BY PartialIff DEF FrameTyped, Blob
  <2>2. <<>> \in Partial(Objects, Result)
    <3>1. <<>> \in [{} -> Result]
      OBVIOUS
    <3> QED BY <3>1 DEF Partial
  <2> QED BY <2>1, <2>2, LenProperties DEF Work
<1>2. ASSUME NEW n \in 1..N, NEW a \in A PROVE BlobsAnd(a, items[n]) \in A
  <2>1. items[n] \in Item
    BY ElementOfSeq
  <2> QED BY <2>1, AssignedTyped DEF BlobsAnd
<1>3. Blobs(items) = works[N]
  BY DEF Blobs
<1> HIDE DEF A, N, base
<1>4. step \in [1..N -> [A -> A]]
  BY <1>2
<1>5. \A n \in 1..N, a \in A : step[n][a] = BlobsAnd(a, items[n])
  OBVIOUS
<1> HIDE DEF step
<1>6. PICK r : IsRun(r, N, A, base, step)
  BY <1>1, <1>4, LoopRuns
<1>7. ASSUME NEW n \in 0..N
      PROVE  r[n] = IF n = 0 THEN base ELSE BlobsAnd(r[n - 1], items[n])
  <2>1. CASE n = 0
    BY <1>6, <2>1 DEF IsRun
  <2>2. CASE n # 0
    <3>1. n \in 1..N /\ n - 1 \in 0..N
      BY <1>1, <2>2
    <3> QED BY <1>5, <1>6, <2>2, <3>1 DEF IsRun
  <2> QED BY <2>1, <2>2
<1>8. Works(r)
  BY <1>6, <1>7 DEF IsRun
<1>9. Works(works)
  BY <1>8
<1> HIDE DEF works
<1>10. works[0] = base /\ \A n \in 1..N : works[n] = BlobsAnd(works[n - 1], items[n])
  BY <1>1, <1>9
<1>11. works[N] \in A
  <2>1. works[0] \in A
    BY <1>1, <1>10
  <2>2. \A n \in 1..N : works[n - 1] \in A => works[n] \in A
    BY <1>2, <1>10
  <2> QED BY <1>1, <2>1, <2>2, LoopTyped, Zenon
<1> QED BY <1>3, <1>11 DEF A

-----------------------------------------------------------------------------
(* The state machine inside process_frame *)

(* The theorems about ObjectStateTracker, with the variables of the frame. *)
Tracked == INSTANCE ObjectStateTracker_proofs WITH Vehicles <- {}, DeferAbandonedEvent <- FALSE

LEMMA TrackedAssumed ==
    Tracked!DurationAssumption /\ Tracked!NoneAssumption /\ Tracked!DeferAssumption
BY DurationAssumption, NoneAssumption
   DEF Tracked!DurationAssumption, Tracked!NoneAssumption, Tracked!DeferAssumption

(* Both instances are of the same definitions.                             *)
LEMMA SameInit == Tracker!Init <=> Tracked!Init
BY DEF Tracker!Init, Tracked!Init, Tracker!NewTrack, Tracked!NewTrack

LEMMA SameTick == Tracker!Tick <=> Tracked!Tick
BY DEF Tracker!Tick, Tracked!Tick, Tracker!Aged, Tracked!Aged, Tracker!Older, Tracked!Older,
       Tracker!OlderOrNone, Tracked!OlderOrNone

LEMMA SameClear == Tracker!ClearCamera <=> Tracked!ClearCamera
BY DEF Tracker!ClearCamera, Tracked!ClearCamera, Tracker!NewTrack, Tracked!NewTrack

LEMMA SameTypeOK == Tracker!TypeOK <=> Tracked!TypeOK
BY DEF Tracker!TypeOK, Tracked!TypeOK, Tracker!ObjectTrack, Tracked!ObjectTrack,
       Tracker!EventRecord, Tracked!EventRecord, Tracker!Age, Tracked!Age,
       Tracker!TrackState, Tracked!TrackState, Tracker!Claimable, Tracked!Claimable,
       Tracker!Watched, Tracked!Watched

LEMMA SameObserve == \A o, b : Tracker!Observe(o, b) = Tracked!Observe(o, b)
<1>1. \A t, b : Tracker!Touched(t, b) = Tracked!Touched(t, b)
  BY DEF Tracker!Touched, Tracked!Touched, Tracker!Or, Tracked!Or
<1>2. \A t : Tracker!Reappeared(t) = Tracked!Reappeared(t)
  BY DEF Tracker!Reappeared, Tracked!Reappeared, Tracker!Or, Tracked!Or
<1>3. \A t, b : Tracker!Confirmed(t, b) = Tracked!Confirmed(t, b)
  BY DEF Tracker!Confirmed, Tracked!Confirmed, Tracker!Or, Tracked!Or
<1>4. \A t, b : Tracker!Judged(t, b) = Tracked!Judged(t, b)
  BY DEF Tracker!Judged, Tracked!Judged, Tracker!Or, Tracked!Or,
         Tracker!ActuallyNearby, Tracked!ActuallyNearby, Tracker!Presence, Tracked!Presence,
         Tracker!WithinGrace, Tracked!WithinGrace, Tracker!Attended, Tracked!Attended,
         Tracker!Unattended, Tracked!Unattended, Tracker!Escalated, Tracked!Escalated,
         Tracker!Confirm, Tracked!Confirm
<1>5. \A t, b : Tracker!Shown(t, b) = Tracked!Shown(t, b)
  BY <1>1, <1>2, <1>3, <1>4 DEF Tracker!Shown, Tracked!Shown, Tracker!Watched, Tracked!Watched
<1> QED BY <1>5 DEF Tracker!Observe, Tracked!Observe, Tracker!NewTrack, Tracked!NewTrack

LEMMA SameUpdate ==
    ASSUME NEW frame
    PROVE  Tracker!Update(frame) <=> Tracked!Update(frame)
<1> DEFINE shown == {o \in Objects : frame[o].shown}
           missing == DOMAIN tracks \ shown
           claimed == {o \in missing : Tracker!PickedUp(tracks[o])}
           claimed2 == {o \in missing : Tracked!PickedUp(tracks[o])}
           lost == {o \in missing : Tracker!LostFromView(tracks[o], frame[o])}
           lost2 == {o \in missing : Tracked!LostFromView(tracks[o], frame[o])}
           left(gone) == shown \cup (missing \ gone)
           updated(gone) == [o \in left(gone) |->
                                IF o \in shown THEN Tracker!Observe(o, frame[o])
                                               ELSE Tracker!Missed(tracks[o], frame[o])]
           updated2(gone) == [o \in left(gone) |->
                                IF o \in shown THEN Tracked!Observe(o, frame[o])
                                               ELSE Tracked!Missed(tracks[o], frame[o])]
<1>1. \A t, g : Tracker!Missed(t, g) = Tracked!Missed(t, g)
  BY DEF Tracker!Missed, Tracked!Missed, Tracker!Overlapped, Tracked!Overlapped,
         Tracker!Claimable, Tracked!Claimable, Tracker!Watched, Tracked!Watched
<1>2. \A t, g : Tracker!LostFromView(t, g) <=> Tracked!LostFromView(t, g)
  BY DEF Tracker!LostFromView, Tracked!LostFromView, Tracker!Overlapped, Tracked!Overlapped,
         Tracker!Claimable, Tracked!Claimable, Tracker!Watched, Tracked!Watched
<1>3. \A t : Tracker!PickedUp(t) <=> Tracked!PickedUp(t)
  BY DEF Tracker!PickedUp, Tracked!PickedUp
<1>4. claimed = claimed2 /\ lost = lost2
  BY <1>2, <1>3
<1>5. ASSUME NEW gone PROVE updated(gone) = updated2(gone)
  BY <1>1, SameObserve
<1> DEFINE fields ==
        /\ events' =
             {Tracker!Event("object_abandoned", o, tracks'[o]) : o \in
                 {p \in shown : tracks'[p].alerted
                                /\ ~(p \in DOMAIN tracks /\ tracks[p].alerted)}}
             \cup {Tracker!Event("target_verification_requested", o, tracks'[o]) : o \in
                 {p \in shown : tracks'[p].state = "AWAITING_TARGET"}}
             \cup Tracker!Closings("object_claimed", claimed)
             \cup Tracker!Closings("object_removed", lost)
        /\ seen' = shown
        /\ owner_by' = [o \in Objects |->
                          IF o \in shown /\ \/ o \notin DOMAIN tracks
                                            \/ /\ tracks'[o].owner_track_id # None
                                               /\ frame[o].distance[tracks'[o].owner_track_id] = "near"
                          THEN 0 ELSE owner_by[o]]
        /\ UNCHANGED baseline
           fields2 ==
        /\ events' =
             {Tracked!Event("object_abandoned", o, tracks'[o]) : o \in
                 {p \in shown : tracks'[p].alerted
                                /\ ~(p \in DOMAIN tracks /\ tracks[p].alerted)}}
             \cup {Tracked!Event("target_verification_requested", o, tracks'[o]) : o \in
                 {p \in shown : tracks'[p].state = "AWAITING_TARGET"}}
             \cup Tracked!Closings("object_claimed", claimed2)
             \cup Tracked!Closings("object_removed", lost2)
        /\ seen' = shown
        /\ owner_by' = [o \in Objects |->
                          IF o \in shown /\ \/ o \notin DOMAIN tracks
                                            \/ /\ tracks'[o].owner_track_id # None
                                               /\ frame[o].distance[tracks'[o].owner_track_id] = "near"
                          THEN 0 ELSE owner_by[o]]
        /\ UNCHANGED baseline
<1>6. Tracker!Update(frame) <=> tracks' = updated(claimed \cup lost) /\ fields
  BY DEF Tracker!Update
<1>7. Tracked!Update(frame) <=> tracks' = updated2(claimed2 \cup lost2) /\ fields2
  BY DEF Tracked!Update
<1> HIDE DEF claimed, claimed2, lost, lost2
<1>8. fields <=> fields2
  BY <1>4 DEF Tracker!Event, Tracked!Event, Tracker!Closings, Tracked!Closings
<1> HIDE DEF updated, updated2, fields, fields2
<1> QED BY <1>4, <1>5, <1>6, <1>7, <1>8

-----------------------------------------------------------------------------
(* A frame *)

FrameInv == Tracked!TrackerInv /\ FrameTyped

LEMMA TracksTyped ==
    ASSUME Tracked!TrackerInv
    PROVE  /\ DOMAIN tracks \subseteq Objects
           /\ \A o \in DOMAIN tracks :
                 /\ tracks[o] \in Tracked!ObjectTrack
                 /\ tracks[o].owner_track_id \in Persons \cup {None}
BY DEF Tracked!TrackerInv, Tracked!TypeOK, Tracked!ObjectTrack

LEMMA KeptTyped ==
    ASSUME FrameInv
    PROVE  Kept \in Seq(Item)
<1> DEFINE watched == {o \in DOMAIN tracks : tracks[o].state \notin {"BACKGROUND", "IGNORED"}}
           live == Members(order, watched)
<1>1. ListedOnce(order, DOMAIN tracks)
  BY DEF FrameInv, FrameTyped
<1>2. live \in Seq(DOMAIN tracks \cap watched)
  <2> HIDE DEF watched
  <2>1. ListedOnce(live, DOMAIN tracks \cap watched)
    BY <1>1, MembersListed
  <2> QED BY <2>1 DEF ListedOnce
<1>3. Kept = [i \in DOMAIN live |-> [pos |-> boxes[live[i]],
                                    owner_hint |-> tracks[live[i]].owner_track_id]]
  BY DEF Kept
<1> HIDE DEF live
<1>4. Len(live) \in Nat /\ DOMAIN live = 1..Len(live)
  BY <1>2, LenProperties
<1>5. ASSUME NEW i \in DOMAIN live
      PROVE  [pos |-> boxes[live[i]], owner_hint |-> tracks[live[i]].owner_track_id] \in Item
  <2>1. live[i] \in DOMAIN tracks
    BY <1>2, <1>4, ElementOfSeq
  <2>2. boxes[live[i]] \in Places
    BY <2>1 DEF FrameInv, FrameTyped
  <2>3. tracks[live[i]].owner_track_id \in Persons \cup {None}
    BY <2>1, TracksTyped DEF FrameInv
  <2> QED BY <2>2, <2>3 DEF Item
<1>6. Kept \in [1..Len(live) -> Item]
  BY <1>3, <1>4, <1>5
<1> QED BY <1>4, <1>6, SeqDef

LEMMA ProposalsTyped ==
    ASSUME FrameInv, NEW image \in BOOLEAN,
           NEW departed \in {<<>>} \cup {<<d>> : d \in Departures(image)},
           NEW items \in Valid(Unique(departed \o Kept), image)
    PROVE  items \in Seq(Item)
<1>1. Departures(image) \subseteq Item
  BY DEF Departures, Item
<1>2. departed \in Seq(Item)
  <2>1. CASE departed = <<>>
    BY <2>1, EmptySeq
  <2>2. CASE departed # <<>>
    <3>1. PICK d \in Departures(image) : departed = <<d>>
      BY <2>2
    <3>2. d \in Item
      BY <1>1
    <3> QED BY <3>1, <3>2
  <2> QED BY <2>1, <2>2
<1>3. departed \o Kept \in Seq(Item)
  BY <1>2, KeptTyped, ConcatProperties
<1>4. Unique(departed \o Kept) \in Seq(Item)
  BY <1>3, UniqueTyped
<1> QED BY <1>4, ValidTyped DEF FrameInv

LEMMA SightingTyped ==
    ASSUME NEW results \in Partial(Objects, Result),
           NEW lookup \in [DOMAIN results -> Persons \cup {None}]
    PROVE  /\ Sighting(results, lookup) \in [Objects -> Tracker!Sighting]
           /\ Sighting(results, lookup) \in [Objects -> Tracked!Sighting]
<1>1. results \in [DOMAIN results -> Result]
  BY PartialIff
<1>2. ASSUME NEW o \in Objects
      PROVE  Sighting(results, lookup)[o] \in Tracker!Sighting \cap Tracked!Sighting
  <2>1. CASE o \in DOMAIN results /\ InRoi(results[o].pos)
    <3>1. /\ results[o].static \in BOOLEAN
          /\ results[o].owner_hint \in Persons \cup {None}
          /\ lookup[o] \in Persons \cup {None}
      BY <1>1, <2>1 DEF Result
    <3>2. [p \in Persons |-> Reach(p, results[o].pos)] \in [Persons -> {"near", "margin", "far"}]
      BY DEF Reach
    <3>3. Sighting(results, lookup)[o] \in Tracker!Blob
      BY <2>1, <3>1, <3>2 DEF Sighting, Tracker!Blob, Tracker!Distance
    <3>4. Sighting(results, lookup)[o] \in Tracked!Blob
      BY <2>1, <3>1, <3>2 DEF Sighting, Tracked!Blob, Tracked!Distance
    <3> QED BY <3>3, <3>4 DEF Tracker!Sighting, Tracked!Sighting
  <2>2. CASE ~(o \in DOMAIN results /\ InRoi(results[o].pos))
    <3> DEFINE hidden == o \in DOMAIN boxes /\ \E p \in Persons : Seen(p, boxes[o])
    <3>1. Sighting(results, lookup)[o] = [shown |-> FALSE, overlapped |-> hidden]
      BY <2>2 DEF Sighting
    <3>2. hidden \in BOOLEAN
      OBVIOUS
    <3> HIDE DEF hidden
    <3> QED BY <3>1, <3>2 DEF Tracker!Sighting, Tracked!Sighting, Tracker!Gap, Tracked!Gap
  <2> QED BY <2>1, <2>2
<1>3. Sighting(results, lookup) = [o \in Objects |-> Sighting(results, lookup)[o]]
  BY DEF Sighting
<1> QED BY <1>2, <1>3

LEMMA PushedTyped ==
    ASSUME FrameTyped
    PROVE  Pushed \in History
BY ProcessFrameConstants DEF Pushed, FrameTyped, History

(* What a call of update leaves.                                           *)
LEMMA UpdateDomains ==
    ASSUME NEW results, NEW lookup, Tracked!Update(Sighting(results, lookup))
    PROVE  /\ seen' = {o \in Objects : o \in DOMAIN results /\ InRoi(results[o].pos)}
           /\ seen' \subseteq DOMAIN tracks' /\ DOMAIN tracks' \subseteq DOMAIN tracks \cup seen'
           /\ \A o \in seen' : tracks'[o] = Tracked!Observe(o, Sighting(results, lookup)[o])
           /\ \A o \in DOMAIN tracks' \ seen' :
                 tracks'[o] = Tracked!Missed(tracks[o], Sighting(results, lookup)[o])
<1> DEFINE frame == Sighting(results, lookup)
           shown == {o \in Objects : frame[o].shown}
<1>1. shown = {o \in Objects : o \in DOMAIN results /\ InRoi(results[o].pos)}
  BY DEF Sighting
<1> HIDE DEF frame
<1>2. seen' = shown
  BY DEF Tracked!Update, frame
<1>3. /\ shown \subseteq DOMAIN tracks' /\ DOMAIN tracks' \subseteq DOMAIN tracks \cup shown
      /\ \A o \in shown : tracks'[o] = Tracked!Observe(o, frame[o])
      /\ \A o \in DOMAIN tracks' \ shown : tracks'[o] = Tracked!Missed(tracks[o], frame[o])
  BY DEF Tracked!Update, frame
<1> QED BY <1>1, <1>2, <1>3 DEF frame

LEMMA TrackTyped ==
    ASSUME FrameInv, NEW results \in Partial(Objects, Result),
           NEW lookup \in [DOMAIN results -> Persons \cup {None}], Track(results, lookup),
           Tracked!TrackerInv', history' = Pushed, UNCHANGED <<roi, scene>>,
           DOMAIN blobs' \subseteq Objects, blobs' \in [DOMAIN blobs' -> Blob],
           DOMAIN detected' \subseteq Objects, detected' \in [DOMAIN detected' -> Box]
    PROVE  FrameTyped'
<1>1. Tracked!Update(Sighting(results, lookup))
  BY SameUpdate DEF Track
<1>2. results \in [DOMAIN results -> Result]
  BY PartialIff
<1>3. boxes' \in [DOMAIN tracks' -> Places]
  <2>1. ASSUME NEW o \in DOMAIN tracks'
        PROVE  (IF o \in seen' THEN results[o].pos ELSE boxes[o]) \in Places
    <3>1. CASE o \in seen'
      BY <1>1, <1>2, <3>1, UpdateDomains DEF Result
    <3>2. CASE o \notin seen'
      BY <1>1, <3>2, UpdateDomains DEF FrameInv, FrameTyped
    <3> QED BY <3>1, <3>2
  <2> QED BY <2>1 DEF Track
<1>4. ListedOnce(order', DOMAIN tracks')
  <2> DEFINE old == DOMAIN tracks
             ids == DOMAIN tracks'
  <2>1. PICK new \in SetToSeqs(ids \ old) : order' = Members(order, ids) \o new
    BY DEF Track
  <2>2. ListedOnce(order, old) /\ ids \subseteq Objects
    BY DEF FrameInv, FrameTyped, Tracked!TrackerInv, Tracked!TypeOK
  <2> HIDE DEF old, ids
  <2>3. ListedOnce(Members(order, ids), old \cap ids)
    BY <2>2, MembersListed
  <2>4. IsFiniteSet(ids \ old)
    BY <2>2, ProcessFrameConstants, FS_Subset
  <2>5. ListedOnce(new, ids \ old)
    BY <2>4, SetListed
  <2>6. (old \cap ids) \cap (ids \ old) = {} /\ (old \cap ids) \cup (ids \ old) = ids
    OBVIOUS
  <2>7. ListedOnce(Members(order, ids) \o new, (old \cap ids) \cup (ids \ old))
    BY <2>3, <2>5, <2>6, ConcatListed
  <2> QED BY <2>1, <2>6, <2>7 DEF ids
<1>5. attended' \in [DOMAIN tracks' -> SUBSET Persons]
  BY DEF Track, StandBy
<1>6. history' \in History
  BY PushedTyped DEF FrameInv
<1>7. roi' \in Rois /\ lying' \subseteq Places /\ crowd' \in [Persons -> Places \cup {None}]
  BY DEF FrameInv, FrameTyped, scene
<1> QED BY <1>3, <1>4, <1>5, <1>6, <1>7 DEF FrameTyped, Blob, History

(* Both modes hand the state machine results of the same kind, and look up *)
(* their owners in the history this frame has been pushed to.              *)
Handed(results, lookup) ==
    /\ results \in Partial(Objects, Result)
    /\ lookup \in Lookups(results)
    /\ Track(results, lookup)
    /\ history' = Pushed
    /\ UNCHANGED <<roi, scene>>
    /\ DOMAIN blobs' \subseteq Objects
    /\ blobs' \in [DOMAIN blobs' -> Blob]
    /\ DOMAIN detected' \subseteq Objects
    /\ detected' \in [DOMAIN detected' -> Box]

(* The detector's tracker has a box for every id it has.                   *)
LEMMA DetectedTyped ==
    ASSUME FrameInv, NEW m \in Matchings, NEW table \in Looked(m), NEW live \in Lasting(table),
           detected' = [o \in live |-> table[o]]
    PROVE  DOMAIN detected' \subseteq Objects /\ detected' \in [DOMAIN detected' -> Box]
<1>1. DOMAIN detected \subseteq Objects
  BY DEF FrameInv, FrameTyped
<1>2. Range(m) \subseteq Objects
  BY DEF Matchings, Range
<1>3. table \in [DOMAIN detected \cup Range(m) -> Box]
  BY DEF Looked
<1>4. live \subseteq DOMAIN table
  BY DEF Lasting
<1> QED BY <1>1, <1>2, <1>3, <1>4

LEMMA DetectorHands ==
    ASSUME FrameInv, NEW still \in SUBSET Objects, DetectorFrame(still)
    PROVE  \E results, lookup : Handed(results, lookup)
<1>1. PICK m \in Matchings :
        \E table \in Looked(m) : \E live \in Lasting(table) : detected' = [o \in live |-> table[o]]
  BY DEF DetectorFrame
<1>2. PICK table \in Looked(m) : \E live \in Lasting(table) : detected' = [o \in live |-> table[o]]
  BY <1>1
<1>3. DOMAIN detected' \subseteq Objects /\ detected' \in [DOMAIN detected' -> Box]
  BY <1>2, DetectedTyped
<1>4. PICK shown \in Unrivalled(detected') : \E owner \in Lookups(Results(shown, still)) :
        Track([o \in DOMAIN Results(shown, still) |->
                  [Results(shown, still)[o] EXCEPT !.owner_hint = owner[o]]], owner)
  BY DEF DetectorFrame
<1> DEFINE reports == Results(shown, still)
<1>5. PICK owner \in Lookups(reports) :
        Track([o \in DOMAIN reports |-> [reports[o] EXCEPT !.owner_hint = owner[o]]], owner)
  BY <1>4
<1>6. shown \subseteq DOMAIN detected'
  BY DEF Unrivalled
<1>7. DOMAIN reports = shown /\ reports \in [shown -> Result]
  BY <1>3, <1>6 DEF Results, Result, Box
<1>8. owner \in [DOMAIN reports -> Persons \cup {None}]
  BY DEF Lookups
<1> HIDE DEF reports
<1> DEFINE results == [o \in DOMAIN reports |-> [reports[o] EXCEPT !.owner_hint = owner[o]]]
<1>9. results \in Partial(Objects, Result)
  <2>1. results \in [DOMAIN reports -> Result]
    BY <1>7, <1>8 DEF Result
  <2>2. DOMAIN results = DOMAIN reports
    OBVIOUS
  <2> HIDE DEF results
  <2> QED BY <1>3, <1>6, <1>7, <2>1, <2>2, PartialIff
<1>10. DOMAIN results = DOMAIN reports /\ \A o \in DOMAIN reports : results[o].pos = reports[o].pos
  BY <1>7 DEF Result
<1>11. Track(results, owner)
  BY <1>5
<1> HIDE DEF results
<1>12. owner \in Lookups(results)
  BY <1>10 DEF Lookups
<1>13. DOMAIN blobs' \subseteq Objects /\ blobs' \in [DOMAIN blobs' -> Blob]
  BY DEF DetectorFrame, FrameInv, FrameTyped, Blob
<1>14. history' = Pushed /\ UNCHANGED <<roi, scene>>
  BY DEF DetectorFrame
<1> QED BY <1>3, <1>9, <1>11, <1>12, <1>13, <1>14 DEF Handed

LEMMA LegacyHands ==
    ASSUME FrameInv, NEW image \in BOOLEAN,
           NEW departed \in {<<>>} \cup {<<d>> : d \in Departures(image)},
           LegacyFrame(image, departed)
    PROVE  \E results, lookup : Handed(results, lookup)
<1>1. PICK items \in Valid(Unique(departed \o Kept), image) :
        \E work \in Blobs(items) :
          /\ blobs' = Fresh(work.blobs)
          /\ \E lookup \in Lookups(work.results) : Track(work.results, lookup)
  BY DEF LegacyFrame
<1>2. PICK work \in Blobs(items) :
          /\ blobs' = Fresh(work.blobs)
          /\ \E lookup \in Lookups(work.results) : Track(work.results, lookup)
  BY <1>1
<1>3. PICK lookup \in Lookups(work.results) : Track(work.results, lookup)
  BY <1>2
<1>4. items \in Seq(Item)
  BY ProposalsTyped
<1>5. work \in Work
  BY <1>4, BlobsTyped DEF FrameInv
<1>6. work.blobs \in Partial(Objects, Blob) /\ work.results \in Partial(Objects, Result)
  BY <1>5 DEF Work
<1>7. DOMAIN work.blobs \subseteq Objects /\ work.blobs \in [DOMAIN work.blobs -> Blob]
  BY <1>6, PartialIff
<1>8. DOMAIN blobs' \subseteq Objects /\ blobs' \in [DOMAIN blobs' -> Blob]
  BY <1>2, <1>7 DEF Fresh
<1>9. history' = Pushed /\ UNCHANGED <<roi, scene>>
  BY DEF LegacyFrame
<1>10. DOMAIN detected' \subseteq Objects /\ detected' \in [DOMAIN detected' -> Box]
  BY DEF LegacyFrame, FrameInv, FrameTyped
<1> QED BY <1>3, <1>6, <1>8, <1>9, <1>10 DEF Handed

LEMMA FrameHands ==
    ASSUME FrameInv, Frame
    PROVE  \E results, lookup : Handed(results, lookup)
BY DetectorHands, LegacyHands DEF Frame

LEMMA InitFrame == Init => FrameInv
<1> SUFFICES ASSUME Init PROVE FrameInv
  OBVIOUS
<1>1. Tracked!TrackerInv
  BY TrackedAssumed, SameInit, Tracked!InitInv DEF Init
<1>2. DOMAIN tracks = {}
  BY DEF Init, Tracker!Init
<1>3. \A T : <<>> \in [{} -> T] /\ <<>> \in Seq(T) /\ DOMAIN <<>> = {}
  OBVIOUS
<1>4. ListedOnce(<<>>, {})
  BY EmptyListed
<1>5. FrameTyped
  BY <1>2, <1>3, <1>4 DEF Init, FrameTyped
<1> QED BY <1>1, <1>5 DEF FrameInv

LEMMA HandedFrame ==
    ASSUME FrameInv, NEW results, NEW lookup, Handed(results, lookup)
    PROVE  FrameInv' /\ Tracker!Next /\ Tracked!Next
<1>1. /\ results \in Partial(Objects, Result) /\ Track(results, lookup)
      /\ history' = Pushed /\ UNCHANGED <<roi, scene>>
      /\ DOMAIN blobs' \subseteq Objects /\ blobs' \in [DOMAIN blobs' -> Blob]
      /\ DOMAIN detected' \subseteq Objects /\ detected' \in [DOMAIN detected' -> Box]
  BY DEF Handed
<1>2. lookup \in [DOMAIN results -> Persons \cup {None}]
  BY DEF Handed, Lookups
<1>3. Tracker!Update(Sighting(results, lookup)) /\ Tracked!Update(Sighting(results, lookup))
  BY <1>1, SameUpdate DEF Track
<1>4. Tracker!Next /\ Tracked!Next
  BY <1>1, <1>2, <1>3, SightingTyped DEF Tracker!Next, Tracked!Next
<1>5. Tracked!TrackerInv'
  BY <1>4, TrackedAssumed, Tracked!StepInv DEF FrameInv
<1>6. FrameTyped'
  BY <1>1, <1>2, <1>5, TrackTyped
<1> QED BY <1>4, <1>5, <1>6 DEF FrameInv

LEMMA StepFrame ==
    FrameInv /\ [Next]_vars =>
        FrameInv' /\ [Tracker!Next]_(Tracker!vars) /\ [Tracked!Next]_(Tracked!vars)
<1> SUFFICES ASSUME FrameInv, [Next]_vars
             PROVE  FrameInv' /\ [Tracker!Next]_(Tracker!vars) /\ [Tracked!Next]_(Tracked!vars)
  OBVIOUS
<1>1. CASE Frame
  BY <1>1, FrameHands, HandedFrame
<1>2. CASE Tick
  <2>1. Tracker!Next /\ Tracked!Next
    BY <1>2, SameTick DEF Tick, Tracker!Next, Tracked!Next
  <2>2. Tracked!TrackerInv'
    BY <2>1, TrackedAssumed, Tracked!StepInv DEF FrameInv
  <2>3. DOMAIN tracks' = DOMAIN tracks
    BY <1>2 DEF Tick, Tracker!Tick
  <2>4. history' \in History
    <3>1. \A n \in 0..HistoryWindow \cup {None} :
             (IF n \in {None, HistoryWindow} THEN None ELSE n + 1) \in 0..HistoryWindow \cup {None}
      BY ProcessFrameConstants
    <3>2. \A p \in Persons, x \in Places : history[p][x] \in 0..HistoryWindow \cup {None}
      BY DEF FrameInv, FrameTyped
    <3>3. history' = [p \in Persons |-> [x \in Places |->
             IF history[p][x] \in {None, HistoryWindow} THEN None ELSE history[p][x] + 1]]
      BY <1>2 DEF Tick
    <3> QED BY <3>1, <3>2, <3>3 DEF History
  <2>5. blobs' \in [DOMAIN blobs' -> Blob] /\ DOMAIN blobs' = DOMAIN blobs
    <3>1. blobs' = [o \in DOMAIN blobs |-> [blobs[o] EXCEPT !.age = UpTo(MaxMissed + 1, @ + 1)]]
      BY <1>2 DEF Tick
    <3>2. ASSUME NEW o \in DOMAIN blobs
          PROVE  [blobs[o] EXCEPT !.age = UpTo(MaxMissed + 1, @ + 1)] \in Blob
      <4>1. blobs[o] \in Blob
        BY DEF FrameInv, FrameTyped, Blob
      <4>2. MaxMissed \in Nat
        BY ProcessFrameConstants
      <4>3. UpTo(MaxMissed + 1, blobs[o].age + 1) \in 0..MaxMissed + 1
        BY <4>1, <4>2 DEF UpTo, Blob
      <4> QED BY <4>1, <4>3 DEF Blob
    <3> QED BY <3>1, <3>2
  <2>6. detected' \in [DOMAIN detected' -> Box] /\ DOMAIN detected' = DOMAIN detected
    <3>1. detected' = [o \in DOMAIN detected |->
                         [detected[o] EXCEPT !.age = UpTo(StrongMissed + 1, @ + 1)]]
      BY <1>2 DEF Tick
    <3>2. ASSUME NEW o \in DOMAIN detected
          PROVE  [detected[o] EXCEPT !.age = UpTo(StrongMissed + 1, @ + 1)] \in Box
      <4>1. detected[o] \in Box
        BY DEF FrameInv, FrameTyped
      <4>2. StrongMissed \in Nat
        BY ProcessFrameConstants
      <4>3. UpTo(StrongMissed + 1, detected[o].age + 1) \in 0..StrongMissed + 1
        BY <4>1, <4>2 DEF UpTo, Box
      <4> QED BY <4>1, <4>3 DEF Box
    <3> QED BY <3>1, <3>2
  <2>7. FrameTyped'
    BY <1>2, <2>3, <2>4, <2>5, <2>6 DEF Tick, FrameInv, FrameTyped, scene, Blob, History
  <2> QED BY <2>1, <2>2, <2>7 DEF FrameInv
<1>3. ASSUME NEW polygons \in Rois, UpdateRoi(polygons)
      PROVE  FrameInv' /\ Tracker!Next /\ Tracked!Next
  <2>1. Tracker!Next /\ Tracked!Next
    BY <1>3, SameClear DEF UpdateRoi, Tracker!Next, Tracked!Next
  <2>2. Tracked!TrackerInv'
    BY <2>1, TrackedAssumed, Tracked!StepInv DEF FrameInv
  <2>3. DOMAIN tracks' = {}
    BY <1>3 DEF UpdateRoi, Tracker!ClearCamera
  <2>4. \A T : <<>> \in [{} -> T] /\ <<>> \in Seq(T) /\ DOMAIN <<>> = {}
    OBVIOUS
  <2>5. FrameTyped'
    BY <1>3, <2>3, <2>4, EmptyListed DEF UpdateRoi, FrameInv, FrameTyped, scene
  <2> QED BY <2>1, <2>2, <2>5 DEF FrameInv
<1>4. CASE Move \/ UNCHANGED vars
  <2>1. UNCHANGED trackerVars /\ UNCHANGED <<blobs, detected, history, roi>>
    BY <1>4 DEF Move, vars
  <2>2. UNCHANGED Tracker!vars /\ UNCHANGED Tracked!vars
    BY <2>1 DEF trackerVars, Tracker!vars, Tracked!vars
  <2>3. Tracked!TrackerInv'
    BY <2>2, TrackedAssumed, Tracked!StepInv DEF FrameInv
  <2>4. lying' \subseteq Places /\ crowd' \in [Persons -> Places \cup {None}]
    BY <1>4 DEF Move, vars, scene, FrameInv, FrameTyped
  <2>5. FrameTyped'
    BY <2>1, <2>4 DEF trackerVars, FrameInv, FrameTyped
  <2> QED BY <2>2, <2>3, <2>5 DEF FrameInv
<1> QED BY <1>1, <1>2, <1>3, <1>4 DEF Next

-----------------------------------------------------------------------------
(* Who stands by *)

(* Something of a set is least.                                            *)
LEMMA Least ==
    ASSUME NEW S, S # {}, NEW f \in [S -> Nat]
    PROVE  \E m \in S : \A e \in S : f[m] <= f[e]
<1> DEFINE T == {f[e] : e \in S}
<1>1. T \subseteq Nat /\ T # {}
  OBVIOUS
<1>2. PICK n \in T : \A k \in T : ~(<<k, n>> \in OpToRel(<, Nat))
  BY <1>1, NatLessThanWellFounded, WFMin
<1>3. PICK m \in S : n = f[m]
  OBVIOUS
<1>4. ASSUME NEW e \in S PROVE f[m] <= f[e]
  <2>1. f[e] \in Nat /\ n \in Nat /\ f[e] \in T
    BY <1>1
  <2>2. ~(<<f[e], n>> \in OpToRel(<, Nat))
    BY <1>2, <2>1
  <2> HIDE DEF T
  <2>3. ~(f[e] < n)
    BY ONLY <2>1, <2>2 DEF OpToRel
  <2> QED BY ONLY <1>3, <2>1, <2>3
<1> QED BY <1>4

(* find_owner_at_location finds somebody wherever the history has somebody *)
(* within reach.                                                           *)
LEMMA OwnerFound ==
    ASSUME NEW h \in History, NEW x \in Places,
           NEW p \in Persons, NEW y \in Places, h[p][y] # None, Distance(x, y) <= OwnerReach
    PROVE  None \notin Owners(h, x)
<1> DEFINE nearest == {e \in Remembered(h) :
                          \A f \in Remembered(h) : Distance(x, e[2]) <= Distance(x, f[2])}
           latest == {e \in nearest : \A f \in nearest : h[e[1]][e[2]] <= h[f[1]][f[2]]}
           within == {e \in latest : Distance(x, e[2]) <= OwnerReach}
           far == [e \in Remembered(h) |-> Distance(x, e[2])]
           age == [e \in nearest |-> h[e[1]][e[2]]]
<1>1. \A z \in Places : Distance(x, z) \in Nat
  BY ProcessFrameConstants DEF Distance
<1>2. \A e \in Remembered(h) : e[1] \in Persons /\ e[2] \in Places /\ h[e[1]][e[2]] \in Nat
  <2> SUFFICES ASSUME NEW e \in Remembered(h)
               PROVE  e[1] \in Persons /\ e[2] \in Places /\ h[e[1]][e[2]] \in Nat
    OBVIOUS
  <2>1. e[1] \in Persons /\ e[2] \in Places /\ h[e[1]][e[2]] # None
    BY DEF Remembered
  <2>2. h[e[1]][e[2]] \in 0..HistoryWindow \cup {None}
    BY <2>1 DEF History
  <2> QED BY <2>1, <2>2
<1>3. <<p, y>> \in Remembered(h)
  BY DEF Remembered
<1>4. nearest # {}
  <2>1. far \in [Remembered(h) -> Nat]
    BY <1>1, <1>2
  <2>2. PICK m \in Remembered(h) : \A e \in Remembered(h) : far[m] <= far[e]
    BY <1>3, <2>1, Least
  <2>3. m \in nearest
    BY <2>2
  <2> QED BY <2>3
<1>5. latest # {}
  <2>1. age \in [nearest -> Nat]
    BY <1>2
  <2> HIDE DEF nearest
  <2>2. PICK m \in nearest : \A e \in nearest : age[m] <= age[e]
    BY <1>4, <2>1, Least
  <2>3. m \in latest
    BY <2>2
  <2> QED BY <2>3
<1>6. \A e \in latest : e \in within
  <2> SUFFICES ASSUME NEW e \in latest PROVE Distance(x, e[2]) <= OwnerReach
    OBVIOUS
  <2>1. Distance(x, e[2]) <= Distance(x, y)
    BY <1>3
  <2>2. Distance(x, e[2]) \in Nat /\ Distance(x, y) \in Nat /\ OwnerReach \in Nat
    BY <1>1, <1>2, ProcessFrameConstants
  <2> QED BY <2>1, <2>2
<1>7. within # {} /\ \A e \in within : e[1] \in Persons
  BY <1>2, <1>5, <1>6
<1>8. Owners(h, x) = IF within = {} THEN {None} ELSE {e[1] : e \in within}
  BY DEF Owners
<1> HIDE DEF within
<1> QED BY <1>7, <1>8, NoneAssumption

(* A frame, with the owner lookup of what it hands over: somebody who      *)
(* stands by a box in it is near the box, and then the lookup finds someone.*)
LEMMA StandingByIsFound ==
    ASSUME FrameInv, FrameTyped', NEW results, NEW lookup, Handed(results, lookup),
           NearReach <= OwnerReach,
           NEW o \in seen', NEW p \in StandBy(o)
    PROVE  /\ Sighting(results, lookup)[o].distance[p] = "near"
           /\ Sighting(results, lookup)[o].owner_lookup # None
<1>1. /\ o \in Objects /\ o \in DOMAIN results /\ InRoi(results[o].pos) /\ o \in DOMAIN tracks'
      /\ boxes'[o] = results[o].pos
  <2>1. Tracked!Update(Sighting(results, lookup))
    BY SameUpdate DEF Handed, Track
  <2> QED BY <2>1, UpdateDomains DEF Handed, Track
<1> DEFINE x == results[o].pos
           y == crowd[p]
           b == Sighting(results, lookup)[o]
<1>2. /\ p \in Persons /\ y # None /\ InRoi(y) /\ Distance(y, x) <= NearReach
  BY <1>1 DEF StandBy
<1>3. x \in Places /\ y \in Places /\ x \in Int /\ y \in Int
  <2>1. boxes'[o] \in Places
    BY <1>1 DEF FrameTyped
  <2>2. y \in Places
    BY <1>2 DEF FrameInv, FrameTyped
  <2> QED BY <1>1, <2>1, <2>2, ProcessFrameConstants
<1>4. b.owner_lookup = lookup[o] /\ b.distance[p] = Reach(p, x)
  BY <1>1, <1>2 DEF Sighting
<1>5. Distance(x, y) = Distance(y, x) /\ Distance(y, x) \in Nat
  BY <1>3 DEF Distance
<1>6. NearReach \in Nat /\ MarginReach \in Nat /\ OwnerReach \in Nat /\ NearReach <= MarginReach
  BY ProcessFrameConstants
<1>7. Reach(p, x) = "near"
  BY <1>2, <1>5, <1>6 DEF Reach
<1>8. Distance(x, y) <= OwnerReach
  BY <1>2, <1>5, <1>6
<1>9. history'[p][y] = 0
  BY <1>2, <1>3 DEF Handed, Pushed, Seen
<1>10. history' \in History /\ 0 # None
  BY NoneAssumption DEF FrameTyped, History
<1>11. None \notin Owners(history', x)
  BY <1>2, <1>3, <1>8, <1>9, <1>10, OwnerFound
<1>12. lookup[o] \in Owners(history', x)
  BY <1>1 DEF Handed, Lookups
<1> QED BY <1>4, <1>7, <1>11, <1>12

(* What a step may not do to who stands by.                                *)
AlertsSpareAttendants ==
    \A o \in Objects :
        ~Tracker!Alerted(o) /\ Tracker!Alerted(o)' =>
            \A p \in attended'[o] : tracks'[o].owner_track_id \notin {None, p}

LEMMA HandedAttended ==
    ASSUME FrameInv, FrameInv', NEW results, NEW lookup, Handed(results, lookup),
           NearReach <= OwnerReach, OwnerlessIsUnattended
    PROVE  OwnerlessIsUnattended' /\ AlertsSpareAttendants
<1> DEFINE frame == Sighting(results, lookup)
<1>1. Tracked!Update(frame)
  BY SameUpdate DEF Handed, Track
<1>2. /\ seen' \subseteq DOMAIN tracks' /\ DOMAIN tracks' \subseteq DOMAIN tracks \cup seen'
      /\ \A o \in seen' : tracks'[o] = Tracked!Observe(o, frame[o])
      /\ \A o \in DOMAIN tracks' \ seen' : tracks'[o] = Tracked!Missed(tracks[o], frame[o])
      /\ seen' \subseteq Objects
  BY <1>1, UpdateDomains
<1>3. \A o \in seen' : frame[o] \in Tracked!Blob
  <2>1. frame \in [Objects -> Tracked!Sighting]
    BY SightingTyped DEF Handed, Lookups
  <2>2. \A o \in seen' : frame[o].shown
    BY <1>1 DEF Tracked!Update
  <2> QED BY <1>2, <2>1, <2>2 DEF Tracked!Sighting, Tracked!Gap
<1>4. /\ \A o \in DOMAIN tracks : Tracked!TrackInv(tracks[o])
      /\ \A o \in DOMAIN tracks' : Tracked!TrackInv(tracks'[o])
  BY DEF FrameInv, Tracked!TrackerInv
<1>5. \A o \in DOMAIN tracks' :
         /\ attended'[o] \subseteq StandBy(o)
         /\ o \in DOMAIN tracks => attended'[o] \subseteq attended[o]
  BY DEF Handed, Track
<1>6. \A o \in seen', p \in Persons :
         p \in StandBy(o) => frame[o].distance[p] = "near" /\ frame[o].owner_lookup # None
  BY StandingByIsFound DEF FrameInv
<1>7. \A o \in DOMAIN tracks' : StandBy(o) \subseteq Persons
  BY DEF StandBy
<1> HIDE DEF frame
<1>8. ASSUME NEW o \in seen'
      PROVE  \E t : /\ Tracked!TrackInv(t)
                    /\ IF o \in DOMAIN tracks THEN t = tracks[o] ELSE t.state = "CONFIRMING" /\ ~t.alerted
                    /\ \/ tracks'[o] = Tracked!Shown(t, frame[o])
                       \/ tracks'[o].state = "BACKGROUND" /\ o \notin DOMAIN tracks
                          /\ ~tracks'[o].alerted
  <2>1. CASE o \in DOMAIN tracks
    BY <1>2, <1>4, <2>1 DEF Tracked!Observe
  <2>2. CASE o \notin DOMAIN tracks
    <3> DEFINE new == Tracked!NewTrack("CONFIRMING")
    <3>1. Tracked!TrackInv(new)
      BY TrackedAssumed, Tracked!NewTrackInv
    <3>2. new.state = "CONFIRMING" /\ ~new.alerted
      BY DEF Tracked!NewTrack
    <3>3. tracks'[o] = IF baseline THEN Tracked!NewTrack("BACKGROUND")
                       ELSE Tracked!Shown(new, frame[o])
      BY <1>2, <2>2 DEF Tracked!Observe
    <3>4. /\ Tracked!NewTrack("BACKGROUND").state = "BACKGROUND"
          /\ ~Tracked!NewTrack("BACKGROUND").alerted
      BY DEF Tracked!NewTrack
    <3> HIDE DEF new
    <3> QED BY <2>2, <3>1, <3>2, <3>3, <3>4
  <2> QED BY <2>1, <2>2
<1>9. ASSUME NEW o \in DOMAIN tracks', tracks'[o].state \notin {"CONFIRMING", "BACKGROUND"},
             tracks'[o].owner_track_id = None
      PROVE  attended'[o] = {}
  <2>1. CASE o \in seen'
    <3>1. PICK t : /\ Tracked!TrackInv(t)
                   /\ IF o \in DOMAIN tracks THEN t = tracks[o] ELSE t.state = "CONFIRMING" /\ ~t.alerted
                   /\ tracks'[o] = Tracked!Shown(t, frame[o])
      BY <1>8, <1>9, <2>1
    <3>2. Tracked!Continues(t, tracks'[o])
      BY <1>3, <2>1, <3>1, TrackedAssumed, Tracked!ShownContinues
    <3>3. t.state # "BACKGROUND" /\ t.owner_track_id = None
      BY <1>9, <3>2 DEF Tracked!Continues
    <3>4. CASE t.state = "CONFIRMING"
      <4>1. frame[o].owner_lookup = None
        BY <1>3, <1>9, <2>1, <3>1, <3>4, TrackedAssumed, Tracked!ShownOwner
      <4> QED BY <1>5, <1>6, <1>7, <2>1, <4>1
    <3>5. CASE t.state # "CONFIRMING"
      <4>1. o \in DOMAIN tracks /\ t = tracks[o]
        BY <3>1, <3>5
      <4>2. attended[o] = {}
        BY <3>3, <3>5, <4>1 DEF OwnerlessIsUnattended
      <4> QED BY <1>5, <4>1, <4>2
    <3> QED BY <3>4, <3>5
  <2>2. CASE o \notin seen'
    <3>1. o \in DOMAIN tracks /\ tracks'[o] = Tracked!Missed(tracks[o], frame[o])
      BY <1>2, <2>2
    <3>2. tracks[o] \in Tracked!ObjectTrack
      BY <1>4, <3>1 DEF Tracked!TrackInv
    <3>3. tracks[o].state \notin {"CONFIRMING", "BACKGROUND"} /\ tracks[o].owner_track_id = None
      BY <1>9, <3>1, <3>2
         DEF Tracked!Missed, Tracked!Overlapped, Tracked!Claimable, Tracked!Watched,
             Tracked!ObjectTrack
    <3> QED BY <1>5, <3>1, <3>3 DEF OwnerlessIsUnattended
  <2> QED BY <2>1, <2>2
<1>10. ASSUME NEW o \in Objects, ~Tracker!Alerted(o), Tracker!Alerted(o)', NEW p \in attended'[o]
       PROVE  tracks'[o].owner_track_id \notin {None, p}
  <2>1. o \in DOMAIN tracks' /\ tracks'[o].alerted /\ (o \in DOMAIN tracks => ~tracks[o].alerted)
    BY <1>10 DEF Tracker!Alerted
  <2>2. tracks'[o].owner_track_id # None
    <3>1. tracks'[o].state \notin {"CONFIRMING", "BACKGROUND"}
      BY <1>4, <2>1, NoneAssumption
         DEF Tracked!TrackInv, Tracked!AlertConsistent, Tracked!ClaimConsistent
    <3> QED BY <1>9, <2>1, <3>1
  <2>3. o \in seen'
    <3> SUFFICES ASSUME o \notin seen' PROVE FALSE
      OBVIOUS
    <3>1. o \in DOMAIN tracks /\ tracks'[o] = Tracked!Missed(tracks[o], frame[o])
      BY <1>2, <2>1
    <3>2. tracks'[o].alerted = tracks[o].alerted
      <4>1. tracks[o] \in Tracked!ObjectTrack
        BY <1>4, <3>1 DEF Tracked!TrackInv
      <4> QED BY <3>1, <4>1 DEF Tracked!Missed, Tracked!ObjectTrack
    <3> QED BY <2>1, <3>1, <3>2
  <2>4. PICK t : /\ Tracked!TrackInv(t)
                 /\ ~t.alerted
                 /\ tracks'[o] = Tracked!Shown(t, frame[o])
    BY <1>8, <2>1, <2>3
  <2>5. frame[o].distance[tracks'[o].owner_track_id] # "near"
    BY <1>3, <2>1, <2>2, <2>3, <2>4, TrackedAssumed, Tracked!ShownOwner
  <2>6. frame[o].distance[p] = "near"
    BY <1>5, <1>6, <1>7, <2>1, <2>3
  <2> QED BY <2>2, <2>5, <2>6
<1>11. OwnerlessIsUnattended'
  BY <1>9 DEF OwnerlessIsUnattended
<1>12. AlertsSpareAttendants
  BY <1>10 DEF AlertsSpareAttendants
<1> QED BY <1>11, <1>12

LEMMA StepAttended ==
    ASSUME NearReach <= OwnerReach
    PROVE  FrameInv /\ OwnerlessIsUnattended /\ [Next]_vars =>
              OwnerlessIsUnattended' /\ [AlertsSpareAttendants]_vars
<1> SUFFICES ASSUME FrameInv, OwnerlessIsUnattended, [Next]_vars
             PROVE  OwnerlessIsUnattended' /\ AlertsSpareAttendants
  OBVIOUS
<1>1. CASE Frame
  <2>1. PICK results, lookup : Handed(results, lookup)
    BY <1>1, FrameHands
  <2>2. FrameInv'
    BY StepFrame
  <2> QED BY <2>1, <2>2, HandedAttended
<1>2. CASE Tick
  <2>1. DOMAIN tracks' = DOMAIN tracks /\ \A o \in DOMAIN tracks : tracks'[o] = Tracked!Aged(tracks[o])
    BY <1>2, SameTick DEF Tick, Tracked!Tick
  <2>2. ASSUME NEW o \in DOMAIN tracks
        PROVE  /\ tracks'[o].state = tracks[o].state
               /\ tracks'[o].owner_track_id = tracks[o].owner_track_id
               /\ tracks'[o].alerted = tracks[o].alerted
    <3>1. tracks[o] \in Tracked!ObjectTrack
      BY TracksTyped DEF FrameInv
    <3> QED BY <2>1, <3>1 DEF Tracked!Aged, Tracked!ObjectTrack
  <2>3. attended' = attended
    BY <1>2 DEF Tick
  <2>4. OwnerlessIsUnattended'
    BY <2>1, <2>2, <2>3 DEF OwnerlessIsUnattended
  <2>5. AlertsSpareAttendants
    BY <2>1, <2>2 DEF AlertsSpareAttendants, Tracker!Alerted
  <2> QED BY <2>4, <2>5
<1>3. ASSUME NEW polygons \in Rois, UpdateRoi(polygons)
      PROVE  OwnerlessIsUnattended' /\ AlertsSpareAttendants
  BY <1>3 DEF UpdateRoi, Tracker!ClearCamera, OwnerlessIsUnattended, AlertsSpareAttendants,
              Tracker!Alerted
<1>4. CASE Move \/ UNCHANGED vars
  <2>1. UNCHANGED <<tracks, attended>>
    BY <1>4 DEF Move, vars, trackerVars
  <2> QED BY <2>1 DEF OwnerlessIsUnattended, AlertsSpareAttendants, Tracker!Alerted
<1> QED BY <1>1, <1>2, <1>3, <1>4 DEF Next

-----------------------------------------------------------------------------
(* Theorems *)

(* The types, and the invariant of the state machine, in every frame that  *)
(* process_frame puts together.                                            *)
THEOREM FrameInvariance == Spec => []FrameInv
BY InitFrame, StepFrame, PTL DEF Spec

(* Every variable has its type: each track a box and one place in the      *)
(* order of the dict, the counters of both trackers of boxes and of the    *)
(* person history within their limits.                                     *)
THEOREM TypeCorrect == Spec => []TypeOK
<1>1. FrameInv => TypeOK
  BY SameTypeOK DEF FrameInv, TypeOK, Tracked!TrackerInv
<1> QED BY <1>1, FrameInvariance, PTL

(* What process_frame does to the state machine are steps of the state     *)
(* machine: whatever the detector or the proposals, BlobTracker and the    *)
(* person history offer, it is in no state and makes no step that the      *)
(* theorems about ObjectStateTracker do not cover.                         *)
THEOREM FrameImplementsTracker == Spec => Tracker!Spec
<1>1. Init => Tracker!Init
  BY DEF Init
<1>2. FrameInv /\ [Next]_vars => [Tracker!Next]_(Tracker!vars)
  BY StepFrame
<1> QED BY <1>1, <1>2, FrameInvariance, PTL DEF Spec, Tracker!Spec

(* Test case 3 of README.md: whoever stands by an object from its first    *)
(* frame on sees no alert for it as ownerless or as theirs, in both modes  *)
(* and under any ROI, if the owner lookup reaches as far as the state      *)
(* machine's own distance (as configured: 200 and 150 pixels).             *)
THEOREM StandingBy ==
    ASSUME NearReach <= OwnerReach
    PROVE  Spec => StandingByIsNotReported
<1>1. Init => OwnerlessIsUnattended
  BY DEF Init, Tracker!Init, OwnerlessIsUnattended
<1>2. FrameInv /\ OwnerlessIsUnattended /\ [Next]_vars =>
        OwnerlessIsUnattended' /\ [AlertsSpareAttendants]_vars
  BY StepAttended
<1>3. Spec => [][AlertsSpareAttendants]_vars
  BY <1>1, <1>2, FrameInvariance, PTL DEF Spec
<1> QED BY <1>3 DEF StandingByIsNotReported, AlertsSpareAttendants

=============================================================================
