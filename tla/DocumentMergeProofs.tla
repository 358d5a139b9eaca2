------------------------- MODULE DocumentMergeProofs -------------------------
(***************************************************************************)
(* What a clean merge keeps, for documents of any size in any of the       *)
(* formats, edited and merged again and again.                             *)
(***************************************************************************)
EXTENDS DocumentMerge, SequenceTheorems, FiniteSetTheorems, TLAPS

-----------------------------------------------------------------------------
(* Numbers.                                                                 *)

\* Some numbers have a least one.
LEMMA LeastIn ==
  ASSUME NEW T \in SUBSET Nat, T # {}
  PROVE  \E n \in T : \A m \in T : n <= m
<1>1. IsWellFoundedOn(OpToRel(<, Nat), Nat)
  BY NatLessThanWellFounded
<1>2. \E n \in T : \A m \in T : <<m, n>> \notin OpToRel(<, Nat)
  BY <1>1, WFMin
<1>3. ASSUME NEW n \in T, NEW m \in T, <<m, n>> \notin OpToRel(<, Nat)
      PROVE  n <= m
  BY <1>3 DEF OpToRel
<1> QED
  BY <1>2, <1>3

\* And, if they are bounded, a greatest one.
LEMMA GreatestIn ==
  ASSUME NEW n \in Nat, NEW T \in SUBSET (0..n), T # {}
  PROVE  \E g \in T : \A m \in T : m <= g
<1> DEFINE gaps == {n - m : m \in T}
<1>1. gaps \in SUBSET Nat /\ gaps # {}
  <2>1. \A m \in T : n - m \in Nat
    OBVIOUS
  <2> QED
    BY <2>1
<1>2. PICK least \in gaps : \A k \in gaps : least <= k
  BY <1>1, LeastIn
<1>3. PICK g \in T : least = n - g
  BY <1>2
<1>4. ASSUME NEW m \in T PROVE m <= g
  <2>1. least <= n - m
    BY <1>2
  <2> QED
    BY <1>3, <2>1
<1> QED
  BY <1>4

-----------------------------------------------------------------------------
(* Picking from a sequence.                                                 *)

\* The place of one of some numbers among them, and the number at a place.
Rank(places, i) == Cardinality({j \in places : j <= i})
Nth(places, n) == CHOOSE i \in places : Rank(places, i) = n

\* A sequence of what is at some places.
LEMMA PickIs ==
  ASSUME NEW s, NEW places
  PROVE  Pick(s, places) = [n \in 1..Cardinality(places) |-> s[Nth(places, n)]]
BY DEF Pick, Nth, Rank

\* The greater number has the greater rank.
LEMMA RankGrows ==
  ASSUME NEW places \in SUBSET Nat, IsFiniteSet(places),
         NEW i \in places, NEW j \in places, i < j
  PROVE  Rank(places, i) < Rank(places, j)
<1> DEFINE A == {k \in places : k <= i}
           B == {k \in places : k <= j}
<1>0. i \in Nat /\ j \in Nat /\ \A k \in places : k \in Nat
  OBVIOUS
<1>1. A \subseteq B /\ j \in B /\ j \notin A /\ B \subseteq places
  <2>1. \A k \in places : k <= i => k <= j
    BY <1>0
  <2>2. ~(j <= i) /\ j <= j
    BY <1>0
  <2> QED
    BY <2>1, <2>2
<1>2. IsFiniteSet(B)
  BY <1>1, FS_Subset
<1>3. Cardinality(A) <= Cardinality(B) /\ Cardinality(A) # Cardinality(B)
  BY <1>1, <1>2, FS_Subset
<1>4. Cardinality(A) \in Nat /\ Cardinality(B) \in Nat
  BY <1>1, <1>2, FS_Subset, FS_CardinalityType
<1> HIDE DEF A, B
<1>5. Cardinality(A) < Cardinality(B)
  BY <1>3, <1>4
<1> QED
  BY <1>5 DEF Rank, A, B

\* Ranks count from one.
LEMMA RankType ==
  ASSUME NEW places \in SUBSET Nat, IsFiniteSet(places), NEW i \in places
  PROVE  Rank(places, i) \in 1..Cardinality(places)
<1> DEFINE A == {k \in places : k <= i}
<1>1. A \in SUBSET places /\ i \in A
  OBVIOUS
<1>2. IsFiniteSet(A) /\ Cardinality(A) <= Cardinality(places)
  BY <1>1, FS_Subset
<1>3. Cardinality(A) \in Nat /\ Cardinality(places) \in Nat /\ Cardinality(A) # 0
  BY <1>1, <1>2, FS_CardinalityType, FS_EmptySet
<1> HIDE DEF A
<1>4. Cardinality(A) \in 1..Cardinality(places)
  BY <1>2, <1>3
<1> QED
  BY <1>4 DEF Rank, A

\* Every rank up to their number is that of one of them.
LEMMA NthIs ==
  ASSUME NEW places \in SUBSET Nat, IsFiniteSet(places),
         NEW n \in 1..Cardinality(places)
  PROVE  Nth(places, n) \in places /\ Rank(places, Nth(places, n)) = n
<1> DEFINE N == 1..Cardinality(places)
           f == [i \in places |-> Rank(places, i)]
<1>1. f \in [places -> N]
  BY RankType
<1>2. \A i, j \in places : f[i] = f[j] => i = j
  <2> SUFFICES ASSUME NEW i \in places, NEW j \in places, i # j, f[i] = f[j]
               PROVE  FALSE
    OBVIOUS
  <2>1. i < j \/ j < i
    OBVIOUS
  <2>2. Rank(places, i) \in N /\ Rank(places, j) \in N
    BY RankType
  <2> QED
    BY <2>1, <2>2, RankGrows
<1>3. f \in Injection(places, N)
  BY <1>1, <1>2 DEF Injection, IsInjective
<1>4. IsFiniteSet(N) /\ Cardinality(N) = Cardinality(places)
  <2>1. Cardinality(places) \in Nat
    BY FS_CardinalityType
  <2> QED
    BY <2>1, FS_Interval
<1>5. f \in Surjection(places, N)
  BY <1>3, <1>4, FS_Injection
<1>6. \E i \in places : f[i] = n
  BY <1>5 DEF Surjection
<1>7. \E i \in places : Rank(places, i) = n
  BY <1>6
<1> QED
  BY <1>7 DEF Nth

\* What comes before what in a sequence, and that nothing comes twice.
Precedes(s, x, y) == \E i, j \in DOMAIN s : i < j /\ s[i] = x /\ s[j] = y
Once(s) == \A i, j \in DOMAIN s : s[i] = s[j] => i = j

\* The places that are picked from, in order.
LEMMA PickPlaces ==
  ASSUME NEW n \in Nat, NEW places \in SUBSET (1..n)
  PROVE  \E N \in Nat : \E f \in [1..N -> places] :
           /\ \A k, l \in 1..N : k < l => f[k] < f[l]
           /\ \A i \in places : \E k \in 1..N : f[k] = i
           /\ \A s : Pick(s, places) = [k \in 1..N |-> s[f[k]]]
<1> DEFINE N == Cardinality(places)
           f == [k \in 1..N |-> Nth(places, k)]
<1>1. places \in SUBSET Nat /\ IsFiniteSet(places) /\ IsFiniteSet(1..n)
  <2>1. IsFiniteSet(1..n)
    BY FS_Interval
  <2>2. IsFiniteSet(places)
    BY <2>1, FS_Subset
  <2>3. \A i \in places : i \in Nat
    OBVIOUS
  <2> QED
    BY <2>1, <2>2, <2>3
<1>2. N \in Nat
  BY <1>1, FS_CardinalityType
<1>3. \A k \in 1..N : Nth(places, k) \in places /\ Rank(places, Nth(places, k)) = k
  BY <1>1, NthIs
<1>4. f \in [1..N -> places]
  BY <1>3
<1>5. ASSUME NEW k \in 1..N, NEW l \in 1..N, k < l PROVE f[k] < f[l]
  <2>1. f[k] \in places /\ f[l] \in places /\ Rank(places, f[k]) = k /\ Rank(places, f[l]) = l
    BY <1>3
  <2>2. CASE f[l] < f[k]
    <3>1. Rank(places, f[l]) < Rank(places, f[k])
      BY <1>1, <2>1, <2>2, RankGrows
    <3> QED
      BY <1>2, <1>5, <2>1, <3>1
  <2>3. CASE f[l] = f[k]
    BY <1>2, <1>5, <2>1, <2>3
  <2>4. f[k] \in Nat /\ f[l] \in Nat
    BY <1>1, <2>1
  <2> QED
    BY <2>2, <2>3, <2>4
<1>6. ASSUME NEW i \in places PROVE \E k \in 1..N : f[k] = i
  <2> DEFINE k == Rank(places, i)
  <2>1. k \in 1..N
    BY <1>1, RankType
  <2>2. f[k] \in places /\ Rank(places, f[k]) = Rank(places, i)
    BY <1>3, <2>1
  <2>3. i \in Nat /\ f[k] \in Nat /\ k \in Nat
    <3>1. \A m \in places : m \in Nat
      BY <1>1
    <3>2. f[k] \in Nat
      <4> HIDE DEF f
      <4> QED
        BY <2>2, <3>1
    <3>3. k \in Nat
      <4> HIDE DEF k, N
      <4> QED
        BY <1>2, <2>1
    <3> QED
      BY <3>1, <3>2, <3>3
  <2>4. ~(i < f[k]) /\ ~(f[k] < i)
    <3>1. ASSUME i < f[k] PROVE FALSE
      <4>1. Rank(places, i) < Rank(places, f[k])
        BY <1>1, <2>2, <3>1, RankGrows
      <4> QED
        BY <2>2, <2>3, <4>1
    <3>2. ASSUME f[k] < i PROVE FALSE
      <4>1. Rank(places, f[k]) < Rank(places, i)
        BY <1>1, <2>2, <3>2, RankGrows
      <4> QED
        BY <2>2, <2>3, <4>1
    <3> QED
      BY <3>1, <3>2
  <2> HIDE DEF f
  <2> QED
    BY <2>1, <2>3, <2>4
<1>7. ASSUME NEW s PROVE Pick(s, places) = [k \in 1..N |-> s[f[k]]]
  BY PickIs
<1> HIDE DEF f
<1> QED
  BY <1>2, <1>4, <1>5, <1>6, <1>7

\* So the order is kept, and all of it is there.
LEMMA PickKeeps ==
  ASSUME NEW n \in Nat, NEW places \in SUBSET (1..n), NEW s, NEW S,
         \A i \in places : s[i] \in S
  PROVE  /\ Pick(s, places) \in Seq(S)
         /\ ToSet(Pick(s, places)) = {s[i] : i \in places}
         /\ \A x, y : Precedes(Pick(s, places), x, y) <=>
                        \E i, j \in places : i < j /\ s[i] = x /\ s[j] = y
         /\ (\A i, j \in places : s[i] = s[j] => i = j) => Once(Pick(s, places))
<1>0. PICK N \in Nat : \E f \in [1..N -> places] :
           /\ \A k, l \in 1..N : k < l => f[k] < f[l]
           /\ \A i \in places : \E k \in 1..N : f[k] = i
           /\ \A t : Pick(t, places) = [k \in 1..N |-> t[f[k]]]
  BY PickPlaces
<1>1. PICK f \in [1..N -> places] :
        /\ \A k, l \in 1..N : k < l => f[k] < f[l]
        /\ \A i \in places : \E k \in 1..N : f[k] = i
        /\ Pick(s, places) = [k \in 1..N |-> s[f[k]]]
  BY <1>0
<1> DEFINE p == Pick(s, places)
<1>2. p \in [1..N -> S] /\ DOMAIN p = 1..N /\ \A k \in 1..N : p[k] = s[f[k]]
  BY <1>1
<1>3. p \in Seq(S)
  BY <1>2, SeqDef
<1> HIDE DEF p
<1>4. ToSet(p) = {s[i] : i \in places}
  <2>1. ASSUME NEW k \in 1..N PROVE p[k] \in {s[i] : i \in places}
    BY <1>2
  <2>2. ASSUME NEW i \in places PROVE \E k \in DOMAIN p : p[k] = s[i]
    BY <1>1, <1>2
  <2> QED
    <3>1. ToSet(p) = {p[k] : k \in 1..N}
      BY <1>2 DEF ToSet
    <3>2. ASSUME NEW z \in ToSet(p) PROVE z \in {s[i] : i \in places}
      BY <2>1, <3>1
    <3>3. ASSUME NEW z \in {s[i] : i \in places} PROVE z \in ToSet(p)
      <4>1. PICK i \in places : z = s[i]
        OBVIOUS
      <4>2. PICK k \in DOMAIN p : p[k] = s[i]
        BY <2>2
      <4> QED
        BY <1>2, <3>1, <4>1, <4>2
    <3> QED
      BY <3>2, <3>3
<1>5. ASSUME NEW x, NEW y
      PROVE  Precedes(p, x, y) <=> \E i, j \in places : i < j /\ s[i] = x /\ s[j] = y
  <2>1. ASSUME Precedes(p, x, y)
        PROVE  \E i, j \in places : i < j /\ s[i] = x /\ s[j] = y
    <3>1. PICK k, l \in 1..N : k < l /\ p[k] = x /\ p[l] = y
      BY <1>2, <2>1 DEF Precedes
    <3>2. f[k] \in places /\ f[l] \in places /\ f[k] < f[l] /\ s[f[k]] = x /\ s[f[l]] = y
      BY <1>1, <1>2, <3>1
    <3> QED
      BY <3>2
  <2>2. ASSUME NEW i \in places, NEW j \in places, i < j, s[i] = x, s[j] = y
        PROVE  Precedes(p, x, y)
    <3>1. PICK k \in 1..N : f[k] = i
      BY <1>1
    <3>2. PICK l \in 1..N : f[l] = j
      BY <1>1
    <3>3. k < l
      <4>1. CASE l < k
        <5>1. j < i
          BY <1>1, <3>1, <3>2, <4>1
        <5>2. i \in Nat /\ j \in Nat
          OBVIOUS
        <5> QED
          BY <2>2, <5>1, <5>2
      <4>2. CASE k = l
        BY <2>2, <3>1, <3>2, <4>2
      <4> QED
        BY <4>1, <4>2
    <3>4. p[k] = x /\ p[l] = y
      BY <1>2, <2>2, <3>1, <3>2
    <3> QED
      BY <1>2, <3>3, <3>4 DEF Precedes
  <2> QED
    BY <2>1, <2>2
<1>6. ASSUME \A i, j \in places : s[i] = s[j] => i = j PROVE Once(p)
  <2>1. ASSUME NEW k \in 1..N, NEW l \in 1..N, p[k] = p[l] PROVE k = l
    <3>1. f[k] = f[l]
      <4>1. f[k] \in places /\ f[l] \in places /\ s[f[k]] = s[f[l]]
        BY <1>1, <1>2, <2>1
      <4> QED
        BY <1>6, <4>1
    <3>2. f[k] \in Nat /\ ~(f[k] < f[l]) /\ ~(f[l] < f[k])
      <4>1. f[k] \in 1..n /\ f[l] \in 1..n
        BY <1>1
      <4> QED
        BY <3>1, <4>1
    <3>3. ~(k < l) /\ ~(l < k)
      BY <1>1, <3>2
    <3> QED
      BY <3>3
  <2> QED
    BY <1>2, <2>1 DEF Once
<1> QED
  BY <1>3, <1>4, <1>5, <1>6 DEF p

-----------------------------------------------------------------------------
(* Lines, entries and items by their key.                                   *)

\* A sequence of what has keys, or none.
IsList(items) ==
  \E n \in Nat : /\ DOMAIN items = 1..n
                 /\ \A i \in 1..n : items[i].key \in Keys \cup {NoKey}

\* One key comes above another.
Above(items, x, y) ==
  \E i, j \in DOMAIN items : i < j /\ items[i].key = x /\ items[j].key = y

\* The keys in order.
LEMMA KeyOrderIs ==
  ASSUME NEW items, IsList(items)
  PROVE  /\ KeyOrder(items) \in Seq(Keys)
         /\ ToSet(KeyOrder(items)) = Names(items)
         /\ \A x, y \in Keys : Precedes(KeyOrder(items), x, y) <=> Above(items, x, y)
         /\ KeysOnce(items) => Once(KeyOrder(items))
<1>1. PICK n \in Nat : /\ DOMAIN items = 1..n
                       /\ \A i \in 1..n : items[i].key \in Keys \cup {NoKey}
  BY DEF IsList
<1> DEFINE places == Keyed(items)
           s == [i \in DOMAIN items |-> items[i].key]
<1>2. places \in SUBSET (1..n) /\ \A i \in places : s[i] \in Keys /\ s[i] = items[i].key
  BY <1>1 DEF Keyed
<1>3. KeyOrder(items) = Pick(s, places)
  BY DEF KeyOrder
<1>4. NoKey \notin Keys
  BY MergeAssumption
<1> HIDE DEF s
<1>5. /\ Pick(s, places) \in Seq(Keys)
      /\ ToSet(Pick(s, places)) = {s[i] : i \in places}
      /\ \A x, y : Precedes(Pick(s, places), x, y) <=>
                     \E i, j \in places : i < j /\ s[i] = x /\ s[j] = y
      /\ (\A i, j \in places : s[i] = s[j] => i = j) => Once(Pick(s, places))
  BY <1>2, PickKeeps
<1>6. {s[i] : i \in places} = Names(items)
  BY <1>1, <1>2 DEF Names, Keyed
<1>7. ASSUME NEW x \in Keys, NEW y \in Keys
      PROVE  (\E i, j \in places : i < j /\ s[i] = x /\ s[j] = y) <=> Above(items, x, y)
  BY <1>1, <1>2, <1>4 DEF Above, Keyed
<1>8. KeysOnce(items) => \A i, j \in places : s[i] = s[j] => i = j
  BY <1>2 DEF KeysOnce
<1> QED
  BY <1>3, <1>5, <1>6, <1>7, <1>8

\* What is found under a key.
LEMMA FindIs ==
  ASSUME NEW items, NEW k
  PROVE  /\ k \notin Names(items) => Find(items, k) = NoItem
         /\ k \in Names(items) => \E i \in Keyed(items) : items[i].key = k /\ Find(items, k) = items[i]
         /\ KeysOnce(items) => \A i \in Keyed(items) : Find(items, items[i].key) = items[i]
<1>1. ASSUME NEW x \in Names(items)
      PROVE  \E i \in Keyed(items) : items[i].key = x /\ Find(items, x) = items[i]
  <2>1. \E i \in DOMAIN items : items[i].key = x
    BY <1>1 DEF Names
  <2>2. x # NoKey
    BY <1>1 DEF Names
  <2> DEFINE c == CHOOSE i \in DOMAIN items : items[i].key = x
  <2>3. c \in DOMAIN items /\ items[c].key = x
    BY <2>1
  <2>4. Find(items, x) = items[c]
    BY <1>1 DEF Find
  <2> HIDE DEF c
  <2> QED
    BY <2>2, <2>3, <2>4 DEF Keyed
<1>2. ASSUME KeysOnce(items), NEW i \in Keyed(items)
      PROVE  Find(items, items[i].key) = items[i]
  <2>1. items[i].key \in Names(items)
    BY DEF Names, Keyed
  <2>2. PICK j \in Keyed(items) :
          items[j].key = items[i].key /\ Find(items, items[i].key) = items[j]
    BY <1>1, <2>1
  <2>3. i = j
    BY <1>2, <2>2 DEF KeysOnce
  <2> QED
    BY <2>2, <2>3
<1>3. k \notin Names(items) => Find(items, k) = NoItem
  BY DEF Find
<1> QED
  BY <1>1, <1>2, <1>3

-----------------------------------------------------------------------------
(* Orders of keys.                                                          *)

\* One sequence after another adds what is new, and the first keeps its order.
LEMMA ThenIs ==
  ASSUME NEW S, NEW s \in Seq(S), NEW t \in Seq(S)
  PROVE  /\ Then(s, t) \in Seq(S)
         /\ ToSet(Then(s, t)) = ToSet(s) \cup ToSet(t)
         /\ Once(s) /\ Once(t) => Once(Then(s, t))
         /\ \A x, y \in ToSet(s) : Precedes(Then(s, t), x, y) <=> Precedes(s, x, y)
<1> DEFINE places == {i \in DOMAIN t : t[i] \notin ToSet(s)}
           new == Pick(t, places)
           all == Then(s, t)
<1>1. /\ Len(s) \in Nat /\ DOMAIN s = 1..Len(s) /\ \A i \in DOMAIN s : s[i] \in S
      /\ Len(t) \in Nat /\ DOMAIN t = 1..Len(t) /\ \A i \in DOMAIN t : t[i] \in S
  BY LenProperties
<1>2. places \in SUBSET (1..Len(t)) /\ \A i \in places : t[i] \in S
  BY <1>1
<1>3. /\ new \in Seq(S)
      /\ ToSet(new) = {t[i] : i \in places}
      /\ (\A i, j \in places : t[i] = t[j] => i = j) => Once(new)
  BY <1>1, <1>2, PickKeeps
<1>4. all = s \o new
  BY DEF Then
<1>5. \A x \in ToSet(new) : x \notin ToSet(s)
  BY <1>3
<1>6. ToSet(s) \cup ToSet(new) = ToSet(s) \cup ToSet(t)
  BY <1>3 DEF ToSet
<1>7. Once(t) => Once(new)
  BY <1>3 DEF Once
<1> HIDE DEF new, all
<1>8. /\ Len(new) \in Nat /\ DOMAIN new = 1..Len(new)
      /\ all \in Seq(S) /\ DOMAIN all = 1..(Len(s) + Len(new))
      /\ \A i \in DOMAIN s : i \in DOMAIN all /\ all[i] = s[i]
      /\ \A i \in DOMAIN new : Len(s) + i \in DOMAIN all /\ all[Len(s) + i] = new[i]
  <2>1. /\ all \in Seq(S)
        /\ Len(all) = Len(s) + Len(new)
        /\ \A i \in 1..(Len(s) + Len(new)) :
             all[i] = IF i <= Len(s) THEN s[i] ELSE new[i - Len(s)]
    BY <1>3, <1>4, ConcatProperties
  <2>2. DOMAIN all = 1..Len(all) /\ DOMAIN new = 1..Len(new) /\ Len(new) \in Nat
    BY <1>3, <2>1, LenProperties
  <2>3. \A i \in DOMAIN s : i \in DOMAIN all /\ all[i] = s[i]
    BY <1>1, <2>1, <2>2
  <2>4. ASSUME NEW i \in DOMAIN new PROVE Len(s) + i \in DOMAIN all /\ all[Len(s) + i] = new[i]
    <3>1. Len(s) + i \in 1..(Len(s) + Len(new)) /\ ~(Len(s) + i <= Len(s))
      BY <1>1, <2>2
    <3>2. (Len(s) + i) - Len(s) = i
      BY <1>1, <2>2
    <3> QED
      BY <2>1, <2>2, <3>1, <3>2
  <2> QED
    BY <2>1, <2>2, <2>3, <2>4
<1>9. \A i \in DOMAIN all : \/ i \in DOMAIN s
                            \/ \E k \in DOMAIN new : i = Len(s) + k
  <2> SUFFICES ASSUME NEW i \in DOMAIN all, i \notin DOMAIN s
               PROVE  \E k \in DOMAIN new : i = Len(s) + k
    OBVIOUS
  <2>1. i - Len(s) \in DOMAIN new /\ i = Len(s) + (i - Len(s))
    BY <1>1, <1>8
  <2> QED
    BY <2>1
<1>10. ToSet(all) = ToSet(s) \cup ToSet(new)
  <2>1. \A i \in DOMAIN all : all[i] \in ToSet(s) \cup ToSet(new)
    BY <1>8, <1>9 DEF ToSet
  <2>2. \A x \in ToSet(s) \cup ToSet(new) : \E i \in DOMAIN all : all[i] = x
    BY <1>8 DEF ToSet
  <2>3. ToSet(all) = {all[i] : i \in DOMAIN all}
    BY DEF ToSet
  <2> QED
    BY <2>1, <2>2, <2>3
<1>11. ASSUME NEW i \in DOMAIN all, all[i] \in ToSet(s) PROVE i \in DOMAIN s
  <2>1. \A k \in DOMAIN new : new[k] \in ToSet(new)
    BY DEF ToSet
  <2> QED
    BY <1>5, <1>8, <1>9, <1>11, <2>1
<1>12. ASSUME Once(s), Once(t) PROVE Once(all)
  <2>1. ASSUME NEW i \in DOMAIN all, NEW j \in DOMAIN all, all[i] = all[j] PROVE i = j
    <3>1. CASE i \in DOMAIN s
      <4>1. all[i] \in ToSet(s)
        BY <1>8, <3>1 DEF ToSet
      <4>2. j \in DOMAIN s
        BY <1>11, <2>1, <4>1
      <4>3. s[i] = s[j]
        BY <1>8, <2>1, <3>1, <4>2
      <4> QED
        BY <1>12, <3>1, <4>2, <4>3 DEF Once
    <3>2. CASE i \notin DOMAIN s
      <4>1. all[i] \notin ToSet(s)
        BY <1>11, <3>2
      <4>2. j \notin DOMAIN s
        BY <1>8, <2>1, <4>1 DEF ToSet
      <4>3. PICK k \in DOMAIN new : i = Len(s) + k
        BY <1>9, <3>2
      <4>4. PICK l \in DOMAIN new : j = Len(s) + l
        BY <1>9, <4>2
      <4>5. new[k] = new[l]
        BY <1>8, <2>1, <4>3, <4>4
      <4>6. k = l
        BY <1>7, <1>12, <4>5 DEF Once
      <4> QED
        BY <4>3, <4>4, <4>6
    <3> QED
      BY <3>1, <3>2
  <2> QED
    BY <2>1 DEF Once
<1>13. ASSUME NEW x \in ToSet(s), NEW y \in ToSet(s)
       PROVE  Precedes(all, x, y) <=> Precedes(s, x, y)
  <2>1. ASSUME NEW i \in DOMAIN all, NEW j \in DOMAIN all, i < j, all[i] = x, all[j] = y
        PROVE  Precedes(s, x, y)
    <3>1. i \in DOMAIN s /\ j \in DOMAIN s
      BY <1>11, <2>1
    <3>2. s[i] = x /\ s[j] = y
      BY <1>8, <2>1, <3>1
    <3> QED
      BY <2>1, <3>1, <3>2 DEF Precedes
  <2>2. ASSUME NEW i \in DOMAIN s, NEW j \in DOMAIN s, i < j, s[i] = x, s[j] = y
        PROVE  Precedes(all, x, y)
    <3>1. i \in DOMAIN all /\ j \in DOMAIN all /\ all[i] = x /\ all[j] = y
      BY <1>8, <2>2
    <3> QED
      BY <2>2, <3>1 DEF Precedes
  <2> QED
    BY <2>1, <2>2 DEF Precedes
<1> QED
  BY <1>6, <1>8, <1>10, <1>12, <1>13 DEF all

\* What is left of an order if only some keys are looked at.
LEMMA SharedIs ==
  ASSUME NEW S, NEW s \in Seq(S), NEW shared
  PROVE  LET left == Pick(s, {i \in DOMAIN s : s[i] \in shared})
         IN  /\ left \in Seq(S)
             /\ \A x, y \in shared : Precedes(left, x, y) <=> Precedes(s, x, y)
<1> DEFINE places == {i \in DOMAIN s : s[i] \in shared}
           left == Pick(s, places)
<1>1. Len(s) \in Nat /\ DOMAIN s = 1..Len(s) /\ \A i \in DOMAIN s : s[i] \in S
  BY LenProperties
<1>2. places \in SUBSET (1..Len(s)) /\ \A i \in places : s[i] \in S
  BY <1>1
<1> HIDE DEF places
<1>3. /\ Pick(s, places) \in Seq(S)
      /\ ToSet(Pick(s, places)) = {s[i] : i \in places}
      /\ \A x, y : Precedes(Pick(s, places), x, y) <=>
                     \E i, j \in places : i < j /\ s[i] = x /\ s[j] = y
      /\ (\A i, j \in places : s[i] = s[j] => i = j) => Once(Pick(s, places))
  BY <1>1, <1>2, PickKeeps
<1>4. ASSUME NEW x \in shared, NEW y \in shared
      PROVE  (\E i, j \in places : i < j /\ s[i] = x /\ s[j] = y) <=> Precedes(s, x, y)
  BY DEF Precedes, places
<1>5. left \in Seq(S) /\ \A x, y \in shared : Precedes(left, x, y) <=> Precedes(s, x, y)
  BY <1>3, <1>4
<1> QED
  BY <1>5 DEF left, places

\* The merged order has every key of every side once, and shared ones in the
\* order of the side that has moved them.
LEMMA MergedOrderIs ==
  ASSUME NEW S, NEW b \in Seq(S), NEW o \in Seq(S), NEW t \in Seq(S),
         Once(b), Once(o), Once(t)
  PROVE  /\ MergedOrder(b, o, t) \in Seq(S)
         /\ ToSet(MergedOrder(b, o, t)) = ToSet(b) \cup ToSet(o) \cup ToSet(t)
         /\ Once(MergedOrder(b, o, t))
         /\ ~OrderClashes(b, o, t) =>
              \A x, y \in ToSet(b) \cap ToSet(o) \cap ToSet(t) :
                Precedes(MergedOrder(b, o, t), x, y) <=>
                  MergeField(Precedes(b, x, y), Precedes(o, x, y), Precedes(t, x, y))
<1> DEFINE shared == ToSet(b) \cap ToSet(o) \cap ToSet(t)
           Left(s) == Pick(s, {i \in DOMAIN s : s[i] \in shared})
           All(first, second) == Then(Then(first, second), b)
           merged == MergedOrder(b, o, t)
<1>1. Orders(b, o, t) = [b |-> Left(b), o |-> Left(o), t |-> Left(t)]
  BY DEF Orders
<1>2. ASSUME NEW p \in Seq(S), NEW q \in Seq(S), Once(p), Once(q)
      PROVE  /\ All(p, q) \in Seq(S)
             /\ ToSet(All(p, q)) = ToSet(p) \cup ToSet(q) \cup ToSet(b)
             /\ Once(All(p, q))
             /\ \A x, y \in ToSet(p) : Precedes(All(p, q), x, y) <=> Precedes(p, x, y)
  <2>1. /\ Then(p, q) \in Seq(S)
        /\ ToSet(Then(p, q)) = ToSet(p) \cup ToSet(q)
        /\ Once(Then(p, q))
        /\ \A x, y \in ToSet(p) : Precedes(Then(p, q), x, y) <=> Precedes(p, x, y)
    BY <1>2, ThenIs
  <2>2. /\ All(p, q) \in Seq(S)
        /\ ToSet(All(p, q)) = ToSet(Then(p, q)) \cup ToSet(b)
        /\ Once(All(p, q))
        /\ \A x, y \in ToSet(Then(p, q)) :
             Precedes(All(p, q), x, y) <=> Precedes(Then(p, q), x, y)
    BY <2>1, ThenIs
  <2> HIDE DEF All
  <2> QED
    BY <2>1, <2>2
<1>3. \A s \in {b, o, t} : \A x, y \in shared : Precedes(Left(s), x, y) <=> Precedes(s, x, y)
  <2>1. ASSUME NEW s \in Seq(S)
        PROVE  \A x, y \in shared : Precedes(Left(s), x, y) <=> Precedes(s, x, y)
    <3> HIDE DEF shared
    <3> QED
      BY SharedIs
  <2> HIDE DEF Left, shared
  <2> QED
    BY <2>1
<1> HIDE DEF Left, All
<1>4. CASE Left(o) # Left(t) /\ Left(o) = Left(b)
  <2>1. merged = All(t, o)
    BY <1>1, <1>4 DEF MergedOrder, All
  <2>2. /\ merged \in Seq(S)
        /\ ToSet(merged) = ToSet(t) \cup ToSet(o) \cup ToSet(b)
        /\ Once(merged)
        /\ \A x, y \in ToSet(t) : Precedes(merged, x, y) <=> Precedes(t, x, y)
    BY <1>2, <2>1
  <2>3. ASSUME NEW x \in shared, NEW y \in shared
        PROVE  Precedes(merged, x, y) <=>
                 MergeField(Precedes(b, x, y), Precedes(o, x, y), Precedes(t, x, y))
    <3>1. Precedes(b, x, y) <=> Precedes(o, x, y)
      BY <1>3, <1>4
    <3>2. Precedes(b, x, y) \in BOOLEAN /\ Precedes(o, x, y) \in BOOLEAN /\ Precedes(t, x, y) \in BOOLEAN
      BY DEF Precedes
    <3>3. Precedes(merged, x, y) <=> Precedes(t, x, y)
      BY <2>2
    <3> QED
      BY <3>1, <3>2, <3>3 DEF MergeField
  <2> HIDE DEF merged
  <2> QED
    BY <2>2, <2>3 DEF merged
<1>5. CASE ~(Left(o) # Left(t) /\ Left(o) = Left(b))
  <2>1. merged = All(o, t)
    BY <1>1, <1>5 DEF MergedOrder, All
  <2>2. /\ merged \in Seq(S)
        /\ ToSet(merged) = ToSet(t) \cup ToSet(o) \cup ToSet(b)
        /\ Once(merged)
        /\ \A x, y \in ToSet(o) : Precedes(merged, x, y) <=> Precedes(o, x, y)
    BY <1>2, <2>1
  <2>3. ASSUME ~OrderClashes(b, o, t), NEW x \in shared, NEW y \in shared
        PROVE  Precedes(merged, x, y) <=>
                 MergeField(Precedes(b, x, y), Precedes(o, x, y), Precedes(t, x, y))
    <3>1. Left(o) = Left(t) \/ Left(t) = Left(b)
      BY <1>1, <1>5, <2>3 DEF OrderClashes, MergeField
    <3>2. Precedes(b, x, y) \in BOOLEAN /\ Precedes(o, x, y) \in BOOLEAN /\ Precedes(t, x, y) \in BOOLEAN
      BY DEF Precedes
    <3>3. (Precedes(o, x, y) <=> Precedes(t, x, y)) \/ (Precedes(t, x, y) <=> Precedes(b, x, y))
      BY <1>3, <3>1
    <3>4. Precedes(merged, x, y) <=> Precedes(o, x, y)
      BY <2>2
    <3> QED
      BY <3>2, <3>3, <3>4 DEF MergeField
  <2> HIDE DEF merged
  <2> QED
    BY <2>2, <2>3 DEF merged
<1> QED
  BY <1>4, <1>5

-----------------------------------------------------------------------------
(* Merging items that have keys.                                            *)

\* Items, or entries.
IsKind(T) ==
  /\ \A x \in T : x.key \in Keys
  /\ NoItem \notin T /\ Clash \notin T /\ Clash # NoItem /\ Clash \notin Seq(T)

\* Values are of a kind, and dotenv entries.
LEMMA Kinds ==
  IsKind(Items) /\ IsKind(Entries)
<1>1. Clash # NoItem /\ NoItem \notin Items /\ Clash \notin Items
      /\ NoItem \notin Entries /\ Clash \notin Entries
  BY MergeAssumption DEF Lines
<1>2. Clash \notin Seq(Items)
  BY MergeAssumption
<1>3. Clash \notin Seq(Entries)
  <2>1. Entries \subseteq Lines
    BY DEF Lines
  <2> QED
    BY <2>1, MergeAssumption, SeqMonotonic
<1>4. (\A x \in Items : x.key \in Keys) /\ (\A x \in Entries : x.key \in Keys)
  BY DEF Items, Entries
<1> QED
  BY <1>1, <1>2, <1>3, <1>4 DEF IsKind

\* What is found in a sequence of them.
LEMMA KindIs ==
  ASSUME NEW T, IsKind(T), NEW s \in Seq(T)
  PROVE  /\ IsList(s) /\ Keyed(s) = DOMAIN s /\ Names(s) \subseteq Keys
         /\ \A k : /\ Find(s, k) \in T \cup {NoItem}
                   /\ Find(s, k) # NoItem <=> k \in Names(s)
                   /\ k \in Names(s) => Find(s, k) \in ToSet(s) /\ Find(s, k).key = k
<1>1. Len(s) \in Nat /\ DOMAIN s = 1..Len(s) /\ \A i \in DOMAIN s : s[i] \in T
  BY LenProperties
<1>2. NoKey \notin Keys
  BY MergeAssumption
<1>3. \A i \in DOMAIN s : s[i].key \in Keys /\ s[i].key # NoKey /\ s[i] # NoItem
  BY <1>1, <1>2 DEF IsKind
<1>4. IsList(s)
  BY <1>1, <1>3 DEF IsList
<1>5. Keyed(s) = DOMAIN s /\ Names(s) \subseteq Keys
  BY <1>3 DEF Keyed, Names
<1>6. ASSUME NEW k
      PROVE  /\ Find(s, k) \in T \cup {NoItem}
             /\ Find(s, k) # NoItem <=> k \in Names(s)
             /\ k \in Names(s) => Find(s, k) \in ToSet(s) /\ Find(s, k).key = k
  <2>1. CASE k \in Names(s)
    <3>1. PICK i \in Keyed(s) : s[i].key = k /\ Find(s, k) = s[i]
      BY <2>1, FindIs
    <3>2. i \in DOMAIN s
      BY <1>5
    <3> QED
      BY <1>1, <1>3, <2>1, <3>1, <3>2 DEF ToSet
  <2>2. CASE k \notin Names(s)
    <3>1. Find(s, k) = NoItem
      BY <2>2, FindIs
    <3> QED
      BY <2>2, <3>1
  <2> QED
    BY <2>1, <2>2
<1> QED
  BY <1>4, <1>5, <1>6

\* The field of a key.
Field(b, o, t, k) == MergeField(Find(b, k), Find(o, k), Find(t, k))

\* A merged field is one of its key, none, or a conflict.
LEMMA FieldIs ==
  ASSUME NEW T, IsKind(T), NEW b \in Seq(T), NEW o \in Seq(T), NEW t \in Seq(T), NEW k
  PROVE  /\ Field(b, o, t, k) \in T \cup {NoItem, Clash}
         /\ Field(b, o, t, k) \in T => Field(b, o, t, k).key = k
         /\ k \notin Names(b) \cup Names(o) \cup Names(t) => Field(b, o, t, k) = NoItem
<1>1. \A s \in Seq(T) : /\ Find(s, k) \in T \cup {NoItem}
                        /\ Find(s, k) # NoItem <=> k \in Names(s)
                        /\ k \in Names(s) => Find(s, k).key = k
  BY KindIs
<1>2. Field(b, o, t, k) \in {Find(b, k), Find(o, k), Find(t, k), Clash}
  BY DEF Field, MergeField
<1>3. NoItem \notin T /\ Clash \notin T
  BY DEF IsKind
<1>4. k \notin Names(b) \cup Names(o) \cup Names(t) =>
        Find(b, k) = NoItem /\ Find(o, k) = NoItem /\ Find(t, k) = NoItem
  BY <1>1
<1>5. k \notin Names(b) \cup Names(o) \cup Names(t) => Field(b, o, t, k) = NoItem
  BY <1>4 DEF Field, MergeField
<1>6. Field(b, o, t, k) \in T \cup {NoItem, Clash}
  BY <1>1, <1>2
<1>7. ASSUME Field(b, o, t, k) \in T PROVE Field(b, o, t, k).key = k
  BY <1>1, <1>2, <1>3, <1>7
<1> QED
  BY <1>5, <1>6, <1>7

\* A merge of items conflicts if an order or a field does; else it has every
\* field once, in the merged order.
LEMMA MergeItemsIs ==
  ASSUME NEW T, IsKind(T), NEW b \in Seq(T), NEW o \in Seq(T), NEW t \in Seq(T),
         KeysOnce(b), KeysOnce(o), KeysOnce(t)
  PROVE  LET m == MergeItems(b, o, t)
         IN  /\ m = Clash <=> \/ OrderClashes(KeyOrder(b), KeyOrder(o), KeyOrder(t))
                              \/ \E k \in Names(b) \cup Names(o) \cup Names(t) :
                                   Field(b, o, t, k) = Clash
             /\ m # Clash => /\ m \in Seq(T) /\ KeysOnce(m)
                             /\ \A k : Field(b, o, t, k) # Clash /\ Find(m, k) = Field(b, o, t, k)
                             /\ \A x, y \in Names(b) \cap Names(o) \cap Names(t) :
                                  x \in Names(m) /\ y \in Names(m) =>
                                    (Above(m, x, y) <=>
                                       MergeField(Above(b, x, y), Above(o, x, y), Above(t, x, y)))
<1> DEFINE m == MergeItems(b, o, t)
           kb == KeyOrder(b)
           ko == KeyOrder(o)
           kt == KeyOrder(t)
           order == MergedOrder(kb, ko, kt)
           all == Names(b) \cup Names(o) \cup Names(t)
           merged == [i \in DOMAIN order |-> Field(b, o, t, order[i])]
           places == {i \in DOMAIN merged : merged[i] # NoItem}
           clashes == OrderClashes(kb, ko, kt)
<1>1. \A s \in Seq(T) : IsList(s) /\ Names(s) \subseteq Keys
  BY KindIs
<1>2. /\ kb \in Seq(Keys) /\ ToSet(kb) = Names(b) /\ Once(kb)
      /\ ko \in Seq(Keys) /\ ToSet(ko) = Names(o) /\ Once(ko)
      /\ kt \in Seq(Keys) /\ ToSet(kt) = Names(t) /\ Once(kt)
      /\ \A x, y \in Keys : /\ Precedes(kb, x, y) <=> Above(b, x, y)
                            /\ Precedes(ko, x, y) <=> Above(o, x, y)
                            /\ Precedes(kt, x, y) <=> Above(t, x, y)
  BY <1>1, KeyOrderIs
<1> HIDE DEF kb, ko, kt
<1>3. /\ order \in Seq(Keys) /\ ToSet(order) = all /\ Once(order)
      /\ ~clashes =>
           \A x, y \in Names(b) \cap Names(o) \cap Names(t) :
             Precedes(order, x, y) <=> MergeField(Precedes(kb, x, y), Precedes(ko, x, y), Precedes(kt, x, y))
  <2>1. /\ order \in Seq(Keys)
        /\ ToSet(order) = ToSet(kb) \cup ToSet(ko) \cup ToSet(kt)
        /\ Once(order)
        /\ ~OrderClashes(kb, ko, kt) =>
             \A x, y \in ToSet(kb) \cap ToSet(ko) \cap ToSet(kt) :
               Precedes(order, x, y) <=>
                 MergeField(Precedes(kb, x, y), Precedes(ko, x, y), Precedes(kt, x, y))
    BY <1>2, MergedOrderIs
  <2> QED
    BY <1>2, <2>1
<1>4. m = IF clashes \/ Clash \in ToSet(merged) THEN Clash ELSE Pick(merged, places)
  BY DEF MergeItems, Field, kb, ko, kt
<1> HIDE DEF m, order, clashes
<1>5. Len(order) \in Nat /\ DOMAIN order = 1..Len(order) /\ \A i \in DOMAIN order : order[i] \in all
  BY <1>3, LenProperties DEF ToSet
<1>6. DOMAIN merged = DOMAIN order /\ \A i \in DOMAIN order : merged[i] = Field(b, o, t, order[i])
  OBVIOUS
<1> HIDE DEF merged
<1>7. Clash \in ToSet(merged) <=> \E k \in all : Field(b, o, t, k) = Clash
  BY <1>3, <1>5, <1>6 DEF ToSet
<1>8. \A k : /\ Field(b, o, t, k) \in T \cup {NoItem, Clash}
             /\ Field(b, o, t, k) \in T => Field(b, o, t, k).key = k
             /\ k \notin all => Field(b, o, t, k) = NoItem
  BY FieldIs
<1>9. Clash # NoItem /\ Clash \notin Seq(T) /\ NoItem \notin T /\ \A x \in T : x.key \in Keys
  BY DEF IsKind
<1>10. ASSUME ~clashes, Clash \notin ToSet(merged)
       PROVE  /\ m \in Seq(T) /\ KeysOnce(m)
              /\ \A k : Field(b, o, t, k) # Clash /\ Find(m, k) = Field(b, o, t, k)
              /\ \A x, y \in Names(b) \cap Names(o) \cap Names(t) :
                   x \in Names(m) /\ y \in Names(m) =>
                     (Above(m, x, y) <=>
                        MergeField(Above(b, x, y), Above(o, x, y), Above(t, x, y)))
  <2>1. \A i \in places : i \in DOMAIN order /\ merged[i] \in T /\ merged[i].key = order[i]
    BY <1>6, <1>8, <1>10 DEF ToSet
  <2>2. places \in SUBSET (1..Len(order))
    BY <1>5, <2>1
  <2>3. m = Pick(merged, places)
    BY <1>4, <1>10
  <2> HIDE DEF places
  <2>4. \A i, j \in places : merged[i].key = merged[j].key => i = j
    BY <1>3, <2>1 DEF Once
  <2>5. /\ m \in Seq(T)
        /\ ToSet(m) = {merged[i] : i \in places}
        /\ \A x, y : Precedes(m, x, y) <=>
                       \E i, j \in places : i < j /\ merged[i] = x /\ merged[j] = y
        /\ Once(m)
    <3>1. /\ Pick(merged, places) \in Seq(T)
          /\ ToSet(Pick(merged, places)) = {merged[i] : i \in places}
          /\ \A x, y : Precedes(Pick(merged, places), x, y) <=>
                         \E i, j \in places : i < j /\ merged[i] = x /\ merged[j] = y
          /\ (\A i, j \in places : merged[i] = merged[j] => i = j) => Once(Pick(merged, places))
      BY <1>5, <2>1, <2>2, PickKeeps
    <3> QED
      BY <2>3, <2>4, <3>1
  <2>6. Keyed(m) = DOMAIN m
    BY <2>5, KindIs
  <2>7. \A i \in DOMAIN m : \E j \in places : m[i] = merged[j]
    <3>1. \A i \in DOMAIN m : m[i] \in ToSet(m)
      BY DEF ToSet
    <3> QED
      BY <2>5, <3>1
  <2>8. KeysOnce(m)
    <3>1. ASSUME NEW i \in DOMAIN m, NEW j \in DOMAIN m, m[i].key = m[j].key PROVE i = j
      <4>1. m[i] = m[j]
        BY <2>4, <2>7, <3>1
      <4> QED
        BY <2>5, <4>1 DEF Once
    <3> QED
      BY <2>6, <3>1 DEF KeysOnce
  <2>9. \A k : /\ Find(m, k) # NoItem <=> k \in Names(m)
               /\ k \in Names(m) => Find(m, k) \in ToSet(m) /\ Find(m, k).key = k
    BY <2>5, KindIs
  <2>10. \A x \in ToSet(m) : x.key \in Names(m)
    <3>1. ASSUME NEW i \in DOMAIN m PROVE m[i].key \in Names(m)
      <4>1. i \in Keyed(m)
        BY <2>6
      <4> QED
        BY <4>1 DEF Names, Keyed
    <3> QED
      BY <3>1 DEF ToSet
  <2>11. ASSUME NEW k PROVE Field(b, o, t, k) # Clash /\ Find(m, k) = Field(b, o, t, k)
    <3>1. Field(b, o, t, k) # Clash
      BY <1>7, <1>8, <1>9, <1>10
    <3>2. CASE k \in Names(m)
      <4>1. PICK i \in places : Find(m, k) = merged[i] /\ merged[i].key = k
        BY <2>5, <2>9, <3>2
      <4>2. merged[i] = Field(b, o, t, k)
        BY <1>6, <2>1, <4>1
      <4> QED
        BY <3>1, <4>1, <4>2
    <3>3. CASE k \notin Names(m)
      <4>1. Find(m, k) = NoItem
        BY <2>9, <3>3
      <4>2. ASSUME Field(b, o, t, k) # NoItem PROVE FALSE
        <5>1. PICK i \in DOMAIN order : order[i] = k
          BY <1>3, <1>8, <4>2 DEF ToSet
        <5>2. i \in places
          BY <1>6, <4>2, <5>1 DEF places
        <5>3. merged[i] \in ToSet(m) /\ merged[i].key = k
          BY <2>1, <2>5, <5>1, <5>2
        <5> QED
          BY <2>10, <3>3, <5>3
      <4> QED
        BY <3>1, <4>1, <4>2
    <3> QED
      BY <3>2, <3>3
  <2>12. ASSUME NEW x \in Names(b) \cap Names(o) \cap Names(t),
                NEW y \in Names(b) \cap Names(o) \cap Names(t),
                x \in Names(m), y \in Names(m)
         PROVE  Above(m, x, y) <=> MergeField(Above(b, x, y), Above(o, x, y), Above(t, x, y))
    <3>1. x \in Keys /\ y \in Keys
      BY <1>1
    <3>2. Precedes(order, x, y) <=> MergeField(Above(b, x, y), Above(o, x, y), Above(t, x, y))
      <4>1. Precedes(order, x, y) <=>
              MergeField(Precedes(kb, x, y), Precedes(ko, x, y), Precedes(kt, x, y))
        BY <1>3, <1>10
      <4>2. /\ Precedes(kb, x, y) <=> Above(b, x, y)
            /\ Precedes(ko, x, y) <=> Above(o, x, y)
            /\ Precedes(kt, x, y) <=> Above(t, x, y)
        BY <1>2, <3>1
      <4>3. \A s : Precedes(s, x, y) \in BOOLEAN /\ Above(s, x, y) \in BOOLEAN
        BY DEF Precedes, Above
      <4> QED
        BY <4>1, <4>2, <4>3 DEF MergeField
    <3>3. ASSUME Above(m, x, y) PROVE Precedes(order, x, y)
      <4>1. PICK k, l \in DOMAIN m : k < l /\ m[k].key = x /\ m[l].key = y
        BY <3>3 DEF Above
      <4>2. Precedes(m, m[k], m[l])
        BY <4>1 DEF Precedes
      <4>3. PICK i, j \in places : i < j /\ merged[i] = m[k] /\ merged[j] = m[l]
        BY <2>5, <4>2
      <4>4. i \in DOMAIN order /\ j \in DOMAIN order /\ order[i] = x /\ order[j] = y
        BY <2>1, <4>1, <4>3
      <4> QED
        BY <4>3, <4>4 DEF Precedes
    <3>4. ASSUME Precedes(order, x, y) PROVE Above(m, x, y)
      <4>1. PICK i, j \in DOMAIN order : i < j /\ order[i] = x /\ order[j] = y
        BY <3>4 DEF Precedes
      <4>2. PICK p \in places : merged[p].key = x
        BY <2>5, <2>9, <2>12
      <4>3. PICK q \in places : merged[q].key = y
        BY <2>5, <2>9, <2>12
      <4>4. i = p /\ j = q
        BY <1>3, <2>1, <4>1, <4>2, <4>3 DEF Once
      <4>5. Precedes(m, merged[p], merged[q])
        BY <2>5, <4>1, <4>4
      <4> QED
        BY <4>2, <4>3, <4>5 DEF Precedes, Above
    <3> QED
      BY <3>2, <3>3, <3>4
  <2> QED
    BY <2>5, <2>8, <2>11, <2>12
<1>11. m = Clash <=> clashes \/ Clash \in ToSet(merged)
  BY <1>4, <1>9, <1>10
<1> QED
  BY <1>7, <1>10, <1>11 DEF m, clashes, kb, ko, kt

\* The other way round.
LEMMA SwapField ==
  ASSUME NEW b, NEW o, NEW t
  PROVE  MergeField(b, o, t) = MergeField(b, t, o)
BY DEF MergeField

\* Orders conflict from either side, or from neither.
LEMMA SwapOrder ==
  ASSUME NEW b, NEW o, NEW t
  PROVE  OrderClashes(b, o, t) <=> OrderClashes(b, t, o)
<1> DEFINE shared(p, q) == ToSet(b) \cap ToSet(p) \cap ToSet(q)
           Left(s, keys) == Pick(s, {i \in DOMAIN s : s[i] \in keys})
<1>1. shared(o, t) = shared(t, o)
  OBVIOUS
<1>2. OrderClashes(b, o, t) <=>
        MergeField(Left(b, shared(o, t)), Left(o, shared(o, t)), Left(t, shared(o, t))) = Clash
  BY DEF OrderClashes, Orders
<1>3. OrderClashes(b, t, o) <=>
        MergeField(Left(b, shared(t, o)), Left(t, shared(t, o)), Left(o, shared(t, o))) = Clash
  BY DEF OrderClashes, Orders
<1> HIDE DEF Left, shared
<1> QED
  BY <1>1, <1>2, <1>3, SwapField

\* If a side is taken whole, so is every field of it, and the order.
LEMMA WholeIs ==
  ASSUME NEW T, IsKind(T), NEW b \in Seq(T), NEW o \in Seq(T), NEW t \in Seq(T),
         o = t \/ t = b \/ o = b
  PROVE  LET m == MergeField(b, o, t)
         IN  /\ m \in {o, t}
             /\ \A k : Field(b, o, t, k) # Clash /\ Find(m, k) = Field(b, o, t, k)
             /\ \A x, y : Above(m, x, y) <=>
                            MergeField(Above(b, x, y), Above(o, x, y), Above(t, x, y))
<1> DEFINE m == MergeField(b, o, t)
<1>1. (m = o /\ (o = t \/ t = b)) \/ (m = t /\ o = b)
  BY DEF MergeField
<1> HIDE DEF m
<1>2. ASSUME NEW k PROVE Field(b, o, t, k) # Clash /\ Find(m, k) = Field(b, o, t, k)
  <2>1. Find(o, k) \in T \cup {NoItem} /\ Find(t, k) \in T \cup {NoItem}
    BY KindIs
  <2>2. Clash \notin T \cup {NoItem}
    BY DEF IsKind
  <2>3. CASE m = o /\ (o = t \/ t = b)
    BY <2>1, <2>2, <2>3 DEF Field, MergeField
  <2>4. CASE m = t /\ o = b
    BY <2>1, <2>2, <2>4 DEF Field, MergeField
  <2> QED
    BY <1>1, <2>3, <2>4
<1>3. ASSUME NEW x, NEW y
      PROVE  Above(m, x, y) <=> MergeField(Above(b, x, y), Above(o, x, y), Above(t, x, y))
  <2>1. \A s : Above(s, x, y) \in BOOLEAN
    BY DEF Above
  <2>2. CASE m = o /\ (o = t \/ t = b)
    BY <2>1, <2>2 DEF MergeField
  <2>3. CASE m = t /\ o = b
    BY <2>1, <2>3 DEF MergeField
  <2> QED
    BY <1>1, <2>2, <2>3
<1> QED
  BY <1>1, <1>2, <1>3 DEF m

\* So merged values have each field, in the merged order, whichever way is
\* taken; and the other way round the same fields.
LEMMA MergeRootsIs ==
  ASSUME NEW b \in Seq(Items), NEW o \in Seq(Items), NEW t \in Seq(Items),
         KeysOnce(b), KeysOnce(o), KeysOnce(t), MergeRoots(b, o, t) # Clash
  PROVE  LET m == MergeRoots(b, o, t)
         IN  /\ m \in Seq(Items) /\ KeysOnce(m)
             /\ \A k : Field(b, o, t, k) # Clash /\ Find(m, k) = Field(b, o, t, k)
             /\ \A x, y \in Names(b) \cap Names(o) \cap Names(t) :
                  x \in Names(m) /\ y \in Names(m) =>
                    (Above(m, x, y) <=>
                       MergeField(Above(b, x, y), Above(o, x, y), Above(t, x, y)))
<1>1. IsKind(Items)
  BY Kinds
<1>2. CASE MergeField(b, o, t) # Clash
  <2>1. MergeRoots(b, o, t) = MergeField(b, o, t)
    BY <1>2 DEF MergeRoots
  <2>2. o = t \/ t = b \/ o = b
    BY <1>2 DEF MergeField
  <2>3. LET m == MergeField(b, o, t)
        IN  /\ m \in {o, t}
            /\ \A k : Field(b, o, t, k) # Clash /\ Find(m, k) = Field(b, o, t, k)
            /\ \A x, y : Above(m, x, y) <=>
                           MergeField(Above(b, x, y), Above(o, x, y), Above(t, x, y))
    BY <1>1, <2>2, WholeIs
  <2> QED
    BY <2>1, <2>3
<1>3. CASE MergeField(b, o, t) = Clash
  <2>1. MergeRoots(b, o, t) = MergeItems(b, o, t)
    BY <1>3 DEF MergeRoots
  <2> QED
    BY <1>1, <2>1, MergeItemsIs
<1> QED
  BY <1>2, <1>3

\* Merged items have the same fields from either side.
LEMMA SwapItems ==
  ASSUME NEW T, IsKind(T), NEW b \in Seq(T), NEW o \in Seq(T), NEW t \in Seq(T),
         KeysOnce(b), KeysOnce(o), KeysOnce(t)
  PROVE  /\ MergeItems(b, o, t) = Clash <=> MergeItems(b, t, o) = Clash
         /\ MergeItems(b, o, t) # Clash =>
              \A k : Find(MergeItems(b, o, t), k) = Find(MergeItems(b, t, o), k)
<1>1. \A k : Field(b, o, t, k) = Field(b, t, o, k)
  BY SwapField DEF Field
<1>2. OrderClashes(KeyOrder(b), KeyOrder(o), KeyOrder(t)) <=>
        OrderClashes(KeyOrder(b), KeyOrder(t), KeyOrder(o))
  BY SwapOrder
<1>3. /\ MergeItems(b, o, t) = Clash <=>
           \/ OrderClashes(KeyOrder(b), KeyOrder(o), KeyOrder(t))
           \/ \E k \in Names(b) \cup Names(o) \cup Names(t) : Field(b, o, t, k) = Clash
      /\ MergeItems(b, o, t) # Clash => \A k : Find(MergeItems(b, o, t), k) = Field(b, o, t, k)
  BY MergeItemsIs
<1>4. /\ MergeItems(b, t, o) = Clash <=>
           \/ OrderClashes(KeyOrder(b), KeyOrder(t), KeyOrder(o))
           \/ \E k \in Names(b) \cup Names(t) \cup Names(o) : Field(b, t, o, k) = Clash
      /\ MergeItems(b, t, o) # Clash => \A k : Find(MergeItems(b, t, o), k) = Field(b, t, o, k)
  BY MergeItemsIs
<1>5. MergeItems(b, o, t) = Clash <=> MergeItems(b, t, o) = Clash
  BY <1>1, <1>2, <1>3, <1>4
<1> QED
  BY <1>1, <1>3, <1>4, <1>5

\* And so have merged values, whichever early way out is taken.
LEMMA SwapRoots ==
  ASSUME NEW b \in Seq(Items), NEW o \in Seq(Items), NEW t \in Seq(Items),
         KeysOnce(b), KeysOnce(o), KeysOnce(t)
  PROVE  /\ MergeRoots(b, o, t) = Clash <=> MergeRoots(b, t, o) = Clash
         /\ MergeRoots(b, o, t) # Clash =>
              \A k : Find(MergeRoots(b, o, t), k) = Find(MergeRoots(b, t, o), k)
<1>1. MergeField(b, o, t) = MergeField(b, t, o)
  BY SwapField
<1>2. IsKind(Items)
  BY Kinds
<1>3. /\ MergeItems(b, o, t) = Clash <=> MergeItems(b, t, o) = Clash
      /\ MergeItems(b, o, t) # Clash =>
           \A k : Find(MergeItems(b, o, t), k) = Find(MergeItems(b, t, o), k)
  BY <1>2, SwapItems
<1>4. CASE MergeField(b, o, t) # Clash
  BY <1>1, <1>4 DEF MergeRoots
<1>5. CASE MergeField(b, o, t) = Clash
  BY <1>1, <1>3, <1>5 DEF MergeRoots
<1> QED
  BY <1>4, <1>5

-----------------------------------------------------------------------------
(* Sequences of sequences.                                                  *)

\* What two sequences have, one after the other has.
LEMMA ConcatIs ==
  ASSUME NEW S, NEW s \in Seq(S), NEW t \in Seq(S)
  PROVE  s \o t \in Seq(S) /\ ToSet(s \o t) = ToSet(s) \cup ToSet(t)
<1> DEFINE all == s \o t
<1>1. /\ all \in Seq(S)
      /\ Len(all) = Len(s) + Len(t)
      /\ \A i \in 1..(Len(s) + Len(t)) : all[i] = IF i <= Len(s) THEN s[i] ELSE t[i - Len(s)]
  BY ConcatProperties
<1>2. /\ Len(s) \in Nat /\ DOMAIN s = 1..Len(s) /\ Len(t) \in Nat /\ DOMAIN t = 1..Len(t)
      /\ DOMAIN all = 1..(Len(s) + Len(t))
  BY <1>1, LenProperties
<1> HIDE DEF all
<1>3. ASSUME NEW i \in DOMAIN all PROVE all[i] \in ToSet(s) \cup ToSet(t)
  <2>1. CASE i <= Len(s)
    BY <1>1, <1>2, <2>1 DEF ToSet
  <2>2. CASE ~(i <= Len(s))
    <3>1. i - Len(s) \in DOMAIN t /\ all[i] = t[i - Len(s)]
      BY <1>1, <1>2, <2>2
    <3> QED
      BY <3>1 DEF ToSet
  <2> QED
    BY <2>1, <2>2
<1>4. ASSUME NEW i \in DOMAIN s PROVE \E j \in DOMAIN all : all[j] = s[i]
  BY <1>1, <1>2
<1>5. ASSUME NEW i \in DOMAIN t PROVE \E j \in DOMAIN all : all[j] = t[i]
  <2>1. Len(s) + i \in DOMAIN all /\ ~(Len(s) + i <= Len(s)) /\ (Len(s) + i) - Len(s) = i
    BY <1>2
  <2>2. all[Len(s) + i] = t[i]
    BY <1>1, <1>2, <2>1
  <2> QED
    BY <2>1, <2>2
<1>6. ToSet(all) = ToSet(s) \cup ToSet(t)
  <2>1. ToSet(all) = {all[i] : i \in DOMAIN all} /\ ToSet(s) = {s[i] : i \in DOMAIN s}
        /\ ToSet(t) = {t[i] : i \in DOMAIN t}
    BY DEF ToSet
  <2> QED
    BY <1>3, <1>4, <1>5, <2>1
<1> QED
  BY <1>1, <1>6 DEF all

\* There is a function that fits the recursive definition.
LEMMA FlatExists ==
  ASSUME NEW seqs, NEW n \in Nat
  PROVE  \E f : f = [i \in 1..n |-> IF i = 1 THEN seqs[i] ELSE f[i - 1] \o seqs[i]]
<1> DEFINE Fits(m) == \E f : f = [i \in 1..m |-> IF i = 1 THEN seqs[i] ELSE f[i - 1] \o seqs[i]]
           misfits == {m \in Nat : ~Fits(m)}
<1>1. Fits(0)
  <2> DEFINE f == [i \in 1..0 |-> seqs[i]]
  <2>1. f = [i \in 1..0 |-> IF i = 1 THEN seqs[i] ELSE f[i - 1] \o seqs[i]]
    OBVIOUS
  <2> HIDE DEF f
  <2> QED
    BY <2>1
<1>2. ASSUME NEW m \in Nat, Fits(m) PROVE Fits(m + 1)
  <2>1. PICK f : f = [i \in 1..m |-> IF i = 1 THEN seqs[i] ELSE f[i - 1] \o seqs[i]]
    BY <1>2
  <2> DEFINE Item(i) == IF i = 1 THEN seqs[i] ELSE f[i - 1] \o seqs[i]
             g == [i \in 1..m + 1 |-> Item(i)]
  <2>2. \A i \in 1..m : f[i] = Item(i)
    BY <2>1
  <2>3. \A i \in 1..m + 1 : g[i] = Item(i)
    OBVIOUS
  <2>4. ASSUME NEW i \in 1..m + 1, i # 1 PROVE g[i - 1] = f[i - 1]
    <3>1. i - 1 \in 1..m /\ i - 1 \in 1..m + 1
      BY <2>4
    <3> HIDE DEF g, Item
    <3> QED
      BY <2>2, <2>3, <3>1
  <2>5. \A i \in 1..m + 1 : Item(i) = IF i = 1 THEN seqs[i] ELSE g[i - 1] \o seqs[i]
    <3> HIDE DEF g
    <3> QED
      BY <2>4
  <2>6. g = [i \in 1..m + 1 |-> g[i]]
    OBVIOUS
  <2>7. g = [i \in 1..m + 1 |-> IF i = 1 THEN seqs[i] ELSE g[i - 1] \o seqs[i]]
    <3> HIDE DEF g, Item
    <3> QED
      BY <2>3, <2>5, <2>6
  <2> HIDE DEF g
  <2> QED
    BY <2>7
<1>3. ASSUME misfits # {} PROVE FALSE
  <2>1. PICK m \in misfits : \A k \in misfits : m <= k
    BY <1>3, LeastIn
  <2> HIDE DEF Fits
  <2>2. m \in Nat /\ m # 0
    BY <1>1, <2>1
  <2>3. m - 1 \in Nat /\ ~(m <= m - 1) /\ (m - 1) + 1 = m
    BY <2>2
  <2>4. Fits(m - 1)
    BY <2>1, <2>3
  <2>5. Fits(m)
    BY <1>2, <2>3, <2>4
  <2> QED
    BY <2>1, <2>5
<1>4. Fits(n)
  <2> HIDE DEF Fits
  <2> QED
    BY <1>3
<1> QED
  BY <1>4

\* What a flat sequence is made of.
LEMMA FlatIs ==
  ASSUME NEW S, NEW seqs, NEW n \in Nat \ {0}, seqs \in [1..n -> Seq(S)]
  PROVE  /\ FlattenSeq(seqs) \in Seq(S)
         /\ ToSet(FlattenSeq(seqs)) = UNION {ToSet(seqs[i]) : i \in 1..n}
<1>1. seqs \in Seq(Seq(S)) /\ Len(seqs) = n
  BY SeqDef
<1> DEFINE Fits(f) == f = [i \in 1..Len(seqs) |-> IF i = 1 THEN seqs[i] ELSE f[i - 1] \o seqs[i]]
           flat == CHOOSE f : Fits(f)
<1>2. FlattenSeq(seqs) = flat[n]
  BY <1>1 DEF FlattenSeq
<1>3. Fits(flat)
  <2>1. \E f : Fits(f)
    BY <1>1, FlatExists
  <2> HIDE DEF Fits
  <2> QED
    BY <2>1
<1> HIDE DEF flat
<1>4. \A i \in 1..n : flat[i] = IF i = 1 THEN seqs[i] ELSE flat[i - 1] \o seqs[i]
  BY <1>1, <1>3
<1> DEFINE Fine(i) == flat[i] \in Seq(S) /\ ToSet(flat[i]) = UNION {ToSet(seqs[j]) : j \in 1..i}
           bad == {i \in 1..n : ~Fine(i)}
<1>5. Fine(1)
  <2>1. flat[1] = seqs[1] /\ seqs[1] \in Seq(S) /\ 1..1 = {1}
    BY <1>4
  <2>2. UNION {ToSet(seqs[j]) : j \in 1..1} = ToSet(seqs[1])
    BY <2>1
  <2> QED
    BY <2>1, <2>2
<1>6. ASSUME NEW i \in 1..n, i # 1, Fine(i - 1) PROVE Fine(i)
  <2>1. flat[i] = flat[i - 1] \o seqs[i] /\ seqs[i] \in Seq(S) /\ flat[i - 1] \in Seq(S)
    BY <1>4, <1>6
  <2>2. flat[i] \in Seq(S) /\ ToSet(flat[i]) = ToSet(flat[i - 1]) \cup ToSet(seqs[i])
    BY <2>1, ConcatIs
  <2>3. 1..i = (1..i - 1) \cup {i}
    OBVIOUS
  <2>4. UNION {ToSet(seqs[j]) : j \in 1..i} =
          (UNION {ToSet(seqs[j]) : j \in 1..i - 1}) \cup ToSet(seqs[i])
    BY <2>3
  <2> QED
    BY <1>6, <2>2, <2>4
<1>7. ASSUME bad # {} PROVE FALSE
  <2>1. bad \in SUBSET Nat
    OBVIOUS
  <2>2. PICK i \in bad : \A k \in bad : i <= k
    BY <1>7, <2>1, LeastIn
  <2> HIDE DEF Fine
  <2>3. i \in 1..n /\ i # 1 /\ ~Fine(i)
    BY <1>5, <2>2
  <2>4. i - 1 \in 1..n /\ ~(i <= i - 1)
    BY <2>3
  <2>5. Fine(i - 1)
    BY <2>2, <2>4
  <2> QED
    BY <1>6, <2>3, <2>5
<1>8. Fine(n)
  <2> HIDE DEF Fine
  <2>1. n \in 1..n
    OBVIOUS
  <2> QED
    BY <1>7, <2>1
<1> QED
  BY <1>2, <1>8

-----------------------------------------------------------------------------
(* Hunks.                                                                   *)

\* What is left of a base when hunks are applied.
LEMMA ApplyIs ==
  ASSUME NEW S, NEW b \in Seq(S), NEW hunks, \A h \in hunks : h.new \in Seq(S)
  PROVE  /\ Apply(b, hunks) \in Seq(S)
         /\ \A x \in ToSet(Apply(b, hunks)) : x \in ToSet(b) \/ \E h \in hunks : x \in ToSet(h.new)
         /\ \A i \in DOMAIN b :
              (\A h \in hunks : ~(h.first < i /\ i <= h.last)) => b[i] \in ToSet(Apply(b, hunks))
         /\ \A h \in hunks :
              /\ h.first \in 0..Len(b)
              /\ \A g \in hunks : g.first = h.first => g.new = h.new
              => ToSet(h.new) \subseteq ToSet(Apply(b, hunks))
<1> DEFINE New(i) == {h.new : h \in {h \in hunks : h.first = i}}
           Kept(i) == i > 0 /\ \A h \in hunks : ~(h.first < i /\ i <= h.last)
           kept(i) == IF Kept(i - 1) THEN <<b[i - 1]>> ELSE <<>>
           new(i) == IF New(i - 1) = {} THEN <<>> ELSE CHOOSE n \in New(i - 1) : TRUE
           n == Len(b) + 1
           piece == [i \in 1..n |-> kept(i) \o new(i)]
           all == Apply(b, hunks)
<1>1. Len(b) \in Nat /\ DOMAIN b = 1..Len(b) /\ \A i \in DOMAIN b : b[i] \in S
  BY LenProperties
<1>2. all = FlattenSeq(piece)
  BY DEF Apply
<1>3. ASSUME NEW i \in 1..n
      PROVE  /\ kept(i) \in Seq(S) /\ ToSet(kept(i)) = IF Kept(i - 1) THEN {b[i - 1]} ELSE {}
             /\ Kept(i - 1) => i - 1 \in DOMAIN b
  <2>1. CASE Kept(i - 1)
    <3>1. i - 1 \in DOMAIN b
      BY <1>1, <2>1
    <3>2. kept(i) = <<b[i - 1]>> /\ b[i - 1] \in S
      BY <1>1, <2>1, <3>1
    <3>3. ToSet(<<b[i - 1]>>) = {b[i - 1]}
      BY DEF ToSet
    <3> HIDE DEF Kept, kept
    <3> QED
      BY <2>1, <3>1, <3>2, <3>3
  <2>2. CASE ~Kept(i - 1)
    <3>1. kept(i) = <<>>
      BY <2>2
    <3>2. ToSet(<<>>) = {}
      BY DEF ToSet
    <3> HIDE DEF Kept, kept
    <3> QED
      BY <2>2, <3>1, <3>2
  <2> HIDE DEF Kept, kept
  <2> QED
    BY <2>1, <2>2
<1>4. ASSUME NEW i \in 1..n
      PROVE  /\ new(i) \in Seq(S)
             /\ new(i) \in New(i - 1) \/ (New(i - 1) = {} /\ ToSet(new(i)) = {})
  <2>1. \A x \in New(i - 1) : x \in Seq(S)
    OBVIOUS
  <2> HIDE DEF New
  <2>2. CASE New(i - 1) = {}
    <3>1. new(i) = <<>>
      BY <2>2
    <3>2. ToSet(<<>>) = {}
      BY DEF ToSet
    <3> HIDE DEF new
    <3> QED
      BY <2>2, <3>1, <3>2
  <2>3. CASE New(i - 1) # {}
    <3>1. new(i) \in New(i - 1)
      BY <2>3
    <3> HIDE DEF new
    <3> QED
      BY <2>1, <3>1
  <2> QED
    BY <2>2, <2>3
<1> HIDE DEF kept, new
<1>5. ASSUME NEW i \in 1..n
      PROVE  piece[i] \in Seq(S) /\ ToSet(piece[i]) = ToSet(kept(i)) \cup ToSet(new(i))
  <2>1. kept(i) \in Seq(S) /\ new(i) \in Seq(S)
    BY <1>3, <1>4
  <2>2. piece[i] = kept(i) \o new(i)
    OBVIOUS
  <2> HIDE DEF piece
  <2> QED
    BY <2>1, <2>2, ConcatIs
<1>6. piece \in [1..n -> Seq(S)]
  BY <1>5
<1> HIDE DEF piece, all
<1>7. all \in Seq(S) /\ ToSet(all) = UNION {ToSet(piece[i]) : i \in 1..n}
  <2>1. n \in Nat \ {0}
    BY <1>1
  <2> HIDE DEF n
  <2> QED
    BY <1>2, <1>6, <2>1, FlatIs
<1>8. \A x : x \in ToSet(all) <=> \E i \in 1..n : x \in ToSet(kept(i)) \/ x \in ToSet(new(i))
  BY <1>5, <1>7
<1>9. ASSUME NEW x \in ToSet(all) PROVE x \in ToSet(b) \/ \E h \in hunks : x \in ToSet(h.new)
  <2>1. PICK i \in 1..n : x \in ToSet(kept(i)) \/ x \in ToSet(new(i))
    BY <1>8
  <2>2. CASE x \in ToSet(kept(i))
    <3> HIDE DEF Kept
    <3>1. i - 1 \in DOMAIN b /\ x = b[i - 1]
      BY <1>3, <2>2
    <3> QED
      BY <3>1 DEF ToSet
  <2>3. CASE x \in ToSet(new(i))
    BY <1>4, <2>3
  <2> QED
    BY <2>1, <2>2, <2>3
<1>10. ASSUME NEW i \in DOMAIN b, \A h \in hunks : ~(h.first < i /\ i <= h.last)
       PROVE  b[i] \in ToSet(all)
  <2>1. i + 1 \in 1..n /\ (i + 1) - 1 = i /\ i > 0
    BY <1>1
  <2>2. Kept((i + 1) - 1)
    BY <1>10, <2>1
  <2> HIDE DEF Kept
  <2>3. ToSet(kept(i + 1)) = {b[i]}
    BY <1>3, <2>1, <2>2
  <2> QED
    BY <1>8, <2>1, <2>3
<1>11. ASSUME NEW h \in hunks, h.first \in 0..Len(b),
              \A g \in hunks : g.first = h.first => g.new = h.new
       PROVE  ToSet(h.new) \subseteq ToSet(all)
  <2>1. h.first + 1 \in 1..n /\ (h.first + 1) - 1 = h.first
    BY <1>1, <1>11
  <2>2. New(h.first) = {h.new}
    BY <1>11
  <2> HIDE DEF New
  <2>3. new(h.first + 1) = h.new
    BY <1>4, <2>1, <2>2
  <2> QED
    BY <1>8, <2>1, <2>3
<1> QED
  BY <1>7, <1>9, <1>10, <1>11 DEF all

\* The ends of a matching: its pairs, and what lies around all lines.
Ends(b, s, a) == a \cup {<<0, 0>>, <<Len(b) + 1, Len(s) + 1>>}

\* They come in the same order on both sides.
LEMMA EndsAre ==
  ASSUME NEW S, NEW b \in Seq(S), NEW s \in Seq(S), NEW a \in Alignments(b, s)
  PROVE  /\ Len(b) \in Nat /\ DOMAIN b = 1..Len(b) /\ Len(s) \in Nat /\ DOMAIN s = 1..Len(s)
         /\ \A p \in a : p[1] \in DOMAIN b /\ p[2] \in DOMAIN s /\ b[p[1]] = s[p[2]]
         /\ \A p, q \in a : p[1] = q[1] \/ p[2] = q[2] => p = q
         /\ \A e \in Ends(b, s, a) : e[1] \in 0..(Len(b) + 1) /\ e[2] \in 0..(Len(s) + 1)
         /\ \A e, f \in Ends(b, s, a) : /\ e[1] < f[1] <=> e[2] < f[2]
                                        /\ e[1] = f[1] => e = f
<1>1. Len(b) \in Nat /\ DOMAIN b = 1..Len(b) /\ Len(s) \in Nat /\ DOMAIN s = 1..Len(s)
  BY LenProperties
<1>2. /\ a \subseteq {p \in (DOMAIN b) \X (DOMAIN s) : b[p[1]] = s[p[2]]}
      /\ \A p, q \in a : p # q => (p[1] < q[1] <=> p[2] < q[2]) /\ p[1] # q[1]
  BY DEF Alignments
<1>3. \A p \in a : p[1] \in DOMAIN b /\ p[2] \in DOMAIN s /\ b[p[1]] = s[p[2]]
  BY <1>2
<1>4. \A p \in a : p[1] \in Nat /\ p[2] \in Nat /\ 0 < p[1] /\ p[1] < Len(b) + 1 /\ 0 < p[2] /\ p[2] < Len(s) + 1
  BY <1>1, <1>3
<1>5. \A p, q \in a : p[1] = q[1] \/ p[2] = q[2] => p = q
  <2> SUFFICES ASSUME NEW p \in a, NEW q \in a, p # q, p[1] = q[1] \/ p[2] = q[2] PROVE FALSE
    OBVIOUS
  <2>1. p[1] < q[1] <=> p[2] < q[2]
    BY <1>2
  <2>2. q[1] < p[1] <=> q[2] < p[2]
    BY <1>2
  <2>3. p[1] # q[1]
    BY <1>2
  <2> QED
    BY <1>4, <2>1, <2>2, <2>3
<1>6. \A e \in Ends(b, s, a) : e[1] \in 0..(Len(b) + 1) /\ e[2] \in 0..(Len(s) + 1)
  BY <1>1, <1>4 DEF Ends
<1>7. ASSUME NEW e \in Ends(b, s, a), NEW f \in Ends(b, s, a)
      PROVE  (e[1] < f[1] <=> e[2] < f[2]) /\ (e[1] = f[1] => e = f)
  <2>1. CASE e = f
    BY <1>6, <2>1
  <2>2. CASE e \in a /\ f \in a /\ e # f
    BY <1>2, <2>2
  <2>3. CASE e \in a /\ f \in {<<0, 0>>, <<Len(b) + 1, Len(s) + 1>>}
    BY <1>1, <1>4, <2>3
  <2>4. CASE f \in a /\ e \in {<<0, 0>>, <<Len(b) + 1, Len(s) + 1>>}
    BY <1>1, <1>4, <2>4
  <2>5. CASE e \in {<<0, 0>>, <<Len(b) + 1, Len(s) + 1>>}
             /\ f \in {<<0, 0>>, <<Len(b) + 1, Len(s) + 1>>}
    BY <1>1, <2>5
  <2> QED
    BY <2>1, <2>2, <2>3, <2>4, <2>5 DEF Ends
<1> QED
  BY <1>1, <1>3, <1>5, <1>6, <1>7

\* Hunks have every line of the side that is not matched, and no line of the
\* base that is; there is one at a place at most.
LEMMA HunksAre ==
  ASSUME NEW S, NEW b \in Seq(S), NEW s \in Seq(S), NEW a \in Alignments(b, s)
  PROVE  /\ \A h \in Hunks(b, s, a) : /\ h.first \in 0..Len(b) /\ h.new \in Seq(S)
                                      /\ ToSet(h.new) \subseteq ToSet(s)
         /\ \A g, h \in Hunks(b, s, a) : g.first = h.first => g = h
         /\ \A h \in Hunks(b, s, a), p \in a : ~(h.first < p[1] /\ p[1] <= h.last)
         /\ \A j \in DOMAIN s : \/ \E p \in a : p[2] = j
                                \/ \E h \in Hunks(b, s, a) : s[j] \in ToSet(h.new)
<1> DEFINE ends == Ends(b, s, a)
           gaps == {g \in ends \X ends : /\ g[1][1] < g[2][1]
                                         /\ \A e \in ends : e[1] <= g[1][1] \/ e[1] >= g[2][1]}
           Hunk(g) == [first |-> g[1][1], last |-> g[2][1] - 1,
                       new |-> SubSeq(s, g[1][2] + 1, g[2][2] - 1)]
           hunks == Hunks(b, s, a)
<1>1. hunks = {h \in {Hunk(g) : g \in gaps} : h.first # h.last \/ h.new # <<>>}
  BY DEF Hunks, Ends
<1>2. /\ Len(b) \in Nat /\ DOMAIN b = 1..Len(b) /\ Len(s) \in Nat /\ DOMAIN s = 1..Len(s)
      /\ \A p \in a : p[1] \in DOMAIN b /\ p[2] \in DOMAIN s /\ b[p[1]] = s[p[2]]
      /\ \A e \in ends : e[1] \in 0..(Len(b) + 1) /\ e[2] \in 0..(Len(s) + 1)
      /\ \A e, f \in ends : /\ e[1] < f[1] <=> e[2] < f[2]
                            /\ e[1] = f[1] => e = f
  BY EndsAre
<1>3. a \subseteq ends /\ <<0, 0>> \in ends /\ <<Len(b) + 1, Len(s) + 1>> \in ends
  BY DEF Ends
<1>4. \A e \in ends : e[1] \in Nat /\ e[2] \in Nat
  BY <1>2
<1> HIDE DEF ends, hunks
<1>5. ASSUME NEW e \in ends, NEW f \in ends, <<e, f>> \in gaps
      PROVE  LET h == Hunk(<<e, f>>)
             IN  /\ h.first = e[1] /\ h.last = f[1] - 1
                 /\ h.new \in Seq(S)
                 /\ Len(h.new) = f[2] - e[2] - 1
                 /\ \A i \in 1..(f[2] - e[2] - 1) : h.new[i] = s[e[2] + i]
  <2> DEFINE new == SubSeq(s, e[2] + 1, f[2] - 1)
  <2>1. e[2] < f[2] /\ e[2] \in Nat /\ f[2] \in Nat /\ f[2] <= Len(s) + 1
    BY <1>2, <1>5
  <2>2. \A i \in (e[2] + 1)..(f[2] - 1) : s[i] \in S
    BY <1>2, <2>1, ElementOfSeq
  <2>3. /\ new \in Seq(S)
        /\ Len(new) = IF e[2] + 1 <= f[2] - 1 THEN (f[2] - 1) - (e[2] + 1) + 1 ELSE 0
        /\ \A i \in 1..((f[2] - 1) - (e[2] + 1) + 1) : new[i] = s[(e[2] + 1) + i - 1]
    <3> DEFINE first == e[2] + 1
               last == f[2] - 1
    <3>1. first \in Int /\ last \in Int /\ \A i \in first..last : s[i] \in S
      BY <2>1, <2>2
    <3> HIDE DEF first, last
    <3>2. /\ SubSeq(s, first, last) \in Seq(S)
          /\ Len(SubSeq(s, first, last)) = IF first <= last THEN last - first + 1 ELSE 0
          /\ \A i \in 1..last - first + 1 : SubSeq(s, first, last)[i] = s[first + i - 1]
      BY <3>1, SubSeqProperties
    <3> QED
      BY <3>2 DEF first, last
  <2> HIDE DEF new
  <2>4. Len(new) = f[2] - e[2] - 1
    <3>1. (IF e[2] + 1 <= f[2] - 1 THEN (f[2] - 1) - (e[2] + 1) + 1 ELSE 0) = f[2] - e[2] - 1
      BY ONLY <2>1
    <3> QED
      BY <2>3, <3>1
  <2>5. ASSUME NEW i \in 1..(f[2] - e[2] - 1) PROVE new[i] = s[e[2] + i]
    <3>1. e[2] \in Nat /\ f[2] \in Nat /\ i \in Int /\ 1 <= i /\ i <= f[2] - e[2] - 1
      BY <2>1
    <3>2. (f[2] - 1) - (e[2] + 1) + 1 = f[2] - e[2] - 1 /\ (e[2] + 1) + i - 1 = e[2] + i
      BY ONLY <3>1
    <3> QED
      BY <2>3, <3>1, <3>2
  <2> QED
    BY <2>3, <2>4, <2>5 DEF new
<1>6. ASSUME NEW h \in hunks
      PROVE  \E e, f \in ends : <<e, f>> \in gaps /\ h = Hunk(<<e, f>>)
  BY <1>1
<1>7. ASSUME NEW e \in ends, NEW f \in ends, <<e, f>> \in gaps
      PROVE  e[1] < f[1] /\ \A x \in ends : x[1] <= e[1] \/ x[1] >= f[1]
  BY <1>7
<1>8. ASSUME NEW e \in ends, NEW f \in ends,
             e[1] < f[1], \A x \in ends : x[1] <= e[1] \/ x[1] >= f[1]
      PROVE  <<e, f>> \in gaps
  BY <1>8
<1> HIDE DEF gaps, Hunk
<1>9. ASSUME NEW h \in hunks
      PROVE  h.first \in 0..Len(b) /\ h.new \in Seq(S) /\ ToSet(h.new) \subseteq ToSet(s)
  <2>1. PICK e, f \in ends : <<e, f>> \in gaps /\ h = Hunk(<<e, f>>)
    BY <1>6
  <2>2. e[1] < f[1] /\ e[1] \in Nat /\ f[1] \in Nat /\ f[1] <= Len(b) + 1
    BY <1>2, <1>4, <1>7, <2>1
  <2>3. h.first \in 0..Len(b) /\ h.new \in Seq(S)
    BY <1>2, <1>5, <2>1, <2>2
  <2>4. e[2] \in Nat /\ f[2] \in Nat /\ f[2] <= Len(s) + 1 /\ e[2] < f[2]
    BY <1>2, <1>4, <2>1, <2>2
  <2>5. ASSUME NEW i \in DOMAIN h.new PROVE h.new[i] \in ToSet(s)
    <3>1. i \in 1..(f[2] - e[2] - 1) /\ h.new[i] = s[e[2] + i]
      <4>1. DOMAIN h.new = 1..Len(h.new)
        BY <2>3, LenProperties
      <4> QED
        BY <1>5, <2>1, <4>1
    <3>2. e[2] + i \in DOMAIN s
      BY <1>2, <2>4, <3>1
    <3> QED
      BY <3>1, <3>2 DEF ToSet
  <2> QED
    BY <2>3, <2>5 DEF ToSet
<1>10. ASSUME NEW g \in hunks, NEW h \in hunks, g.first = h.first PROVE g = h
  <2>1. PICK e, f \in ends : <<e, f>> \in gaps /\ g = Hunk(<<e, f>>)
    BY <1>6
  <2>2. PICK x, y \in ends : <<x, y>> \in gaps /\ h = Hunk(<<x, y>>)
    BY <1>6
  <2>3. e = x
    BY <1>2, <1>5, <1>10, <2>1, <2>2
  <2>4. f[1] <= y[1] /\ y[1] <= f[1]
    <3>1. e[1] \in Nat /\ f[1] \in Nat /\ y[1] \in Nat /\ e[1] < f[1] /\ e[1] < y[1]
      BY <1>4, <1>7, <2>1, <2>2, <2>3
    <3>2. f[1] <= e[1] \/ f[1] >= y[1]
      BY <1>7, <2>2, <2>3
    <3>3. y[1] <= e[1] \/ y[1] >= f[1]
      BY <1>7, <2>1
    <3> QED
      BY <3>1, <3>2, <3>3
  <2>5. f = y
    BY <1>2, <1>4, <2>4
  <2> QED
    BY <2>1, <2>2, <2>3, <2>5
<1>11. ASSUME NEW h \in hunks, NEW p \in a, h.first < p[1], p[1] <= h.last PROVE FALSE
  <2>1. PICK e, f \in ends : <<e, f>> \in gaps /\ h = Hunk(<<e, f>>)
    BY <1>6
  <2>2. h.first = e[1] /\ h.last = f[1] - 1
    BY <1>5, <2>1
  <2>3. p[1] <= e[1] \/ p[1] >= f[1]
    BY <1>3, <1>7, <2>1
  <2>4. p[1] \in Nat /\ e[1] \in Nat /\ f[1] \in Nat
    BY <1>3, <1>4
  <2> QED
    BY <1>11, <2>2, <2>3, <2>4
<1>12. ASSUME NEW j \in DOMAIN s, \A p \in a : p[2] # j
       PROVE  \E h \in hunks : s[j] \in ToSet(h.new)
  <2>1. j \in Nat /\ 0 < j /\ j < Len(s) + 1
    BY <1>2
  <2>2. \A e \in ends : e[2] < j \/ j < e[2]
    BY <1>2, <1>4, <1>12, <2>1 DEF ends, Ends
  <2> DEFINE below == {e[1] : e \in {x \in ends : x[2] < j}}
             above == {e[1] : e \in {x \in ends : j < x[2]}}
  <2>3. below \in SUBSET (0..(Len(b) + 1)) /\ below # {}
    <3>1. \A x \in below : x \in 0..(Len(b) + 1)
      BY <1>2
    <3>2. <<0, 0>>[2] < j
      BY <2>1
    <3>3. <<0, 0>>[1] \in below
      BY <1>3, <3>2
    <3> QED
      BY <3>1, <3>3
  <2>4. above \in SUBSET Nat /\ above # {}
    <3>1. \A x \in above : x \in Nat
      BY <1>4
    <3>2. j < <<Len(b) + 1, Len(s) + 1>>[2]
      BY <2>1
    <3>3. <<Len(b) + 1, Len(s) + 1>>[1] \in above
      BY <1>3, <3>2
    <3> QED
      BY <3>1, <3>3
  <2>5. PICK lower \in below : \A x \in below : x <= lower
    <3>1. Len(b) + 1 \in Nat
      BY <1>2
    <3> HIDE DEF below
    <3> QED
      BY <2>3, <3>1, GreatestIn
  <2>6. PICK upper \in above : \A x \in above : upper <= x
    <3> HIDE DEF above
    <3> QED
      BY <2>4, LeastIn
  <2>7. PICK e \in ends : e[2] < j /\ e[1] = lower
    BY <2>5
  <2>8. PICK f \in ends : j < f[2] /\ f[1] = upper
    BY <2>6
  <2>9. \A x \in ends : x[1] <= e[1] \/ x[1] >= f[1]
    <3> SUFFICES ASSUME NEW x \in ends PROVE x[1] <= e[1] \/ x[1] >= f[1]
      OBVIOUS
    <3>1. CASE x[2] < j
      <4>1. x[1] \in below
        BY <3>1
      <4> QED
        BY <2>5, <2>7, <4>1
    <3>2. CASE j < x[2]
      <4>1. x[1] \in above
        BY <3>2
      <4>2. f[1] <= x[1]
        BY <2>6, <2>8, <4>1
      <4> QED
        BY <1>4, <4>2
    <3> QED
      BY <2>2, <3>1, <3>2
  <2> HIDE DEF below, above
  <2>10. e[2] < f[2] /\ e[2] \in Nat /\ f[2] \in Nat /\ e[1] \in Nat /\ f[1] \in Nat
    BY <1>4, <2>1, <2>7, <2>8
  <2>11. e[1] < f[1]
    BY <1>2, <2>10
  <2>12. <<e, f>> \in gaps
    BY <1>8, <2>9, <2>11
  <2> DEFINE h == Hunk(<<e, f>>)
             i == j - e[2]
  <2>13. /\ h.new \in Seq(S)
         /\ Len(h.new) = f[2] - e[2] - 1
         /\ \A k \in 1..(f[2] - e[2] - 1) : h.new[k] = s[e[2] + k]
    BY <1>5, <2>12
  <2>14. i \in 1..(f[2] - e[2] - 1) /\ e[2] + i = j
    BY <2>1, <2>7, <2>8, <2>10
  <2> HIDE DEF h, i
  <2>15. i \in DOMAIN h.new /\ h.new[i] = s[j]
    <3>1. DOMAIN h.new = 1..Len(h.new)
      BY <2>13, LenProperties
    <3> QED
      BY <2>13, <2>14, <3>1
  <2>16. s[j] \in ToSet(h.new)
    BY <2>15 DEF ToSet
  <2>17. h.new # <<>>
    BY <2>15
  <2>18. h \in hunks
    BY <1>1, <2>12, <2>17 DEF h
  <2> QED
    BY <2>16, <2>18
<1> QED
  BY <1>9, <1>10, <1>11, <1>12 DEF hunks

-----------------------------------------------------------------------------
(* Templates.                                                               *)

\* Hunks of both sides are a set: it does not matter whose come first.
LEMMA SwapHunks ==
  ASSUME NEW b, NEW g, NEW h
  PROVE  MergeHunks(b, g, h) = MergeHunks(b, h, g)
<1>1. \A x, y : Overlap(x, y) <=> Overlap(y, x)
  BY DEF Overlap
<1>2. (\E our \in g, their \in h : Overlap(our, their) /\ our # their) <=>
        (\E our \in h, their \in g : Overlap(our, their) /\ our # their)
  BY <1>1
<1>3. g \cup h = h \cup g
  OBVIOUS
<1> QED
  BY <1>2, <1>3 DEF MergeHunks

\* So templates merge to the same from either side.
LEMMA SwapTemplates ==
  ASSUME NEW b, NEW o, NEW t
  PROVE  MergedTemplates(b, o, t) = MergedTemplates(b, t, o)
<1>1. MergeField(b, o, t) = MergeField(b, t, o)
  BY SwapField
<1>2. {MergeHunks(b, Hunks(b, o, x), Hunks(b, t, y)) :
         x \in Alignments(b, o), y \in Alignments(b, t)} =
      {MergeHunks(b, Hunks(b, t, y), Hunks(b, o, x)) :
         y \in Alignments(b, t), x \in Alignments(b, o)}
  BY SwapHunks
<1> QED
  BY <1>1, <1>2 DEF MergedTemplates

\* Sides merge to lines in which every line is that of one of them; what only one
\* has is there, and what both have kept of the base.
Merged(m, b, o, t, x, y) ==
  /\ \A z \in ToSet(m) : z \in ToSet(b) \/ z \in ToSet(o) \/ z \in ToSet(t)
  /\ \A j \in DOMAIN o : (\E p \in x : p[2] = j) \/ o[j] \in ToSet(m)
  /\ \A j \in DOMAIN t : (\E p \in y : p[2] = j) \/ t[j] \in ToSet(m)
  /\ \A i \in DOMAIN b :
       (\E p \in x : p[1] = i) /\ (\E p \in y : p[1] = i) => b[i] \in ToSet(m)

\* A merge of templates takes one whole, or merges the hunks of both, in which
\* case the same has been cut out of all three.
LEMMA TemplateIs ==
  ASSUME NEW S, NEW b \in Seq(S), NEW o \in Seq(S), NEW t \in Seq(S),
         NEW m \in MergedTemplates(b, o, t), m # Clash
  PROVE  /\ m \in Seq(S)
         /\ \/ m = MergeField(b, o, t) /\ (o = t \/ t = b \/ o = b)
            \/ /\ Placeholders(b) = Placeholders(o) /\ Placeholders(b) = Placeholders(t)
               /\ \E x \in Alignments(b, o), y \in Alignments(b, t) : Merged(m, b, o, t, x, y)
<1>1. CASE MergeField(b, o, t) # Clash
  <2>1. m = MergeField(b, o, t)
    BY <1>1 DEF MergedTemplates
  <2>2. (m = o /\ (o = t \/ t = b)) \/ (m = t /\ o = b)
    BY <1>1, <2>1 DEF MergeField
  <2> QED
    BY <2>1, <2>2
<1>2. CASE MergeField(b, o, t) = Clash
  <2>1. /\ Placeholders(b) = Placeholders(o) /\ Placeholders(b) = Placeholders(t)
        /\ \E x \in Alignments(b, o), y \in Alignments(b, t) :
             m = MergeHunks(b, Hunks(b, o, x), Hunks(b, t, y))
    BY <1>2 DEF MergedTemplates
  <2>2. PICK x \in Alignments(b, o), y \in Alignments(b, t) :
          m = MergeHunks(b, Hunks(b, o, x), Hunks(b, t, y))
    BY <2>1
  <2> DEFINE g == Hunks(b, o, x)
             h == Hunks(b, t, y)
             all == g \cup h
  <2>3. /\ m = Apply(b, all)
        /\ \A our \in g, their \in h : Overlap(our, their) => our = their
    BY <2>2 DEF MergeHunks
  <2>4. /\ \A u \in g : /\ u.first \in 0..Len(b) /\ u.new \in Seq(S)
                        /\ ToSet(u.new) \subseteq ToSet(o)
        /\ \A u, v \in g : u.first = v.first => u = v
        /\ \A u \in g, p \in x : ~(u.first < p[1] /\ p[1] <= u.last)
        /\ \A j \in DOMAIN o : \/ \E p \in x : p[2] = j
                               \/ \E u \in g : o[j] \in ToSet(u.new)
    BY HunksAre
  <2>5. /\ \A u \in h : /\ u.first \in 0..Len(b) /\ u.new \in Seq(S)
                        /\ ToSet(u.new) \subseteq ToSet(t)
        /\ \A u, v \in h : u.first = v.first => u = v
        /\ \A u \in h, p \in y : ~(u.first < p[1] /\ p[1] <= u.last)
        /\ \A j \in DOMAIN t : \/ \E p \in y : p[2] = j
                               \/ \E u \in h : t[j] \in ToSet(u.new)
    BY HunksAre
  <2> HIDE DEF g, h
  <2>6. \A u \in g, v \in h : u.first = v.first => u = v
    BY <2>3 DEF Overlap
  <2>7. \A u, v \in all : u.first = v.first => u = v
    BY <2>4, <2>5, <2>6
  <2>8. \A u \in all : u.first \in 0..Len(b) /\ u.new \in Seq(S)
    BY <2>4, <2>5
  <2>9. /\ m \in Seq(S)
        /\ \A z \in ToSet(m) : z \in ToSet(b) \/ \E u \in all : z \in ToSet(u.new)
        /\ \A i \in DOMAIN b :
             (\A u \in all : ~(u.first < i /\ i <= u.last)) => b[i] \in ToSet(m)
        /\ \A u \in all :
             /\ u.first \in 0..Len(b)
             /\ \A v \in all : v.first = u.first => v.new = u.new
             => ToSet(u.new) \subseteq ToSet(m)
    <3>1. /\ Apply(b, all) \in Seq(S)
          /\ \A z \in ToSet(Apply(b, all)) : z \in ToSet(b) \/ \E u \in all : z \in ToSet(u.new)
          /\ \A i \in DOMAIN b :
               (\A u \in all : ~(u.first < i /\ i <= u.last)) => b[i] \in ToSet(Apply(b, all))
          /\ \A u \in all :
               /\ u.first \in 0..Len(b)
               /\ \A v \in all : v.first = u.first => v.new = u.new
               => ToSet(u.new) \subseteq ToSet(Apply(b, all))
      <4>1. \A u \in all : u.new \in Seq(S)
        BY <2>8
      <4> HIDE DEF all
      <4> QED
        BY <4>1, ApplyIs
    <3> HIDE DEF all
    <3> QED
      BY <2>3, <3>1
  <2>10. \A u \in all : ToSet(u.new) \subseteq ToSet(m)
    BY <2>7, <2>8, <2>9
  <2>11. \A z \in ToSet(m) : z \in ToSet(b) \/ z \in ToSet(o) \/ z \in ToSet(t)
    BY <2>4, <2>5, <2>9
  <2>12. \A j \in DOMAIN o : (\E p \in x : p[2] = j) \/ o[j] \in ToSet(m)
    BY <2>4, <2>10
  <2>13. \A j \in DOMAIN t : (\E p \in y : p[2] = j) \/ t[j] \in ToSet(m)
    BY <2>5, <2>10
  <2>14. ASSUME NEW i \in DOMAIN b, \E p \in x : p[1] = i, \E p \in y : p[1] = i
         PROVE  b[i] \in ToSet(m)
    <3>1. \A u \in g : ~(u.first < i /\ i <= u.last)
      <4>1. PICK p \in x : p[1] = i
        BY <2>14
      <4> QED
        BY <2>4, <4>1
    <3>2. \A u \in h : ~(u.first < i /\ i <= u.last)
      <4>1. PICK p \in y : p[1] = i
        BY <2>14
      <4> QED
        BY <2>5, <4>1
    <3>3. \A u \in all : ~(u.first < i /\ i <= u.last)
      BY <3>1, <3>2
    <3> QED
      BY <2>9, <3>3
  <2> QED
    BY <2>1, <2>9, <2>11, <2>12, <2>13, <2>14 DEF Merged
<1> QED
  BY <1>1, <1>2

\* Lines, some of which have keys.
LEMMA LinesAre ==
  ASSUME NEW s \in Seq(Lines)
  PROVE  /\ IsList(s) /\ Names(s) \subseteq Keys
         /\ \A k : /\ Find(s, k) # NoItem <=> k \in Names(s)
                   /\ k \in Names(s) => Find(s, k) \in ToSet(s) /\ Find(s, k).key = k
         /\ \A z \in ToSet(s) : z \in Lines /\ (z.key \in Names(s) \/ z.key = NoKey)
         /\ KeysOnce(s) => \A z \in ToSet(s) : z.key # NoKey => Find(s, z.key) = z
<1>1. Len(s) \in Nat /\ DOMAIN s = 1..Len(s) /\ \A i \in DOMAIN s : s[i] \in Lines
  BY LenProperties
<1>2. \A x \in Lines : x.key \in Keys \cup {NoKey} /\ x # NoItem
  BY MergeAssumption DEF Lines, Entries
<1>3. IsList(s)
  BY <1>1, <1>2 DEF IsList
<1>4. Names(s) \subseteq Keys
  BY <1>1, <1>2 DEF Names
<1>5. ASSUME NEW k
      PROVE  /\ Find(s, k) # NoItem <=> k \in Names(s)
             /\ k \in Names(s) => Find(s, k) \in ToSet(s) /\ Find(s, k).key = k
  <2>1. CASE k \in Names(s)
    <3>1. PICK i \in Keyed(s) : s[i].key = k /\ Find(s, k) = s[i]
      BY <2>1, FindIs
    <3>2. i \in DOMAIN s
      BY DEF Keyed
    <3> QED
      BY <1>1, <1>2, <2>1, <3>1, <3>2 DEF ToSet
  <2>2. CASE k \notin Names(s)
    <3>1. Find(s, k) = NoItem
      BY <2>2, FindIs
    <3> QED
      BY <2>2, <3>1
  <2> QED
    BY <2>1, <2>2
<1>6. ASSUME NEW i \in DOMAIN s
      PROVE  /\ s[i] \in Lines /\ (s[i].key \in Names(s) \/ s[i].key = NoKey)
             /\ KeysOnce(s) /\ s[i].key # NoKey => Find(s, s[i].key) = s[i]
  <2>1. s[i].key # NoKey => i \in Keyed(s)
    BY DEF Keyed
  <2>2. KeysOnce(s) => \A j \in Keyed(s) : Find(s, s[j].key) = s[j]
    BY FindIs
  <2> QED
    BY <1>1, <2>1, <2>2 DEF Names
<1> QED
  BY <1>3, <1>4, <1>5, <1>6 DEF ToSet

\* If the same values are cut out of two templates, they have the same keys.
LEMMA PlaceholderNames ==
  ASSUME NEW b \in Seq(Lines), NEW s \in Seq(Lines), Placeholders(b) = Placeholders(s)
  PROVE  Names(b) = Names(s)
<1>1. CASE format = "toml"
  <2>1. ASSUME NEW l \in Seq(Lines) PROVE Names(l) = {z.key : z \in ToSet(Placeholders(l))}
    <3> DEFINE places == Keyed(l)
    <3>1. Len(l) \in Nat /\ DOMAIN l = 1..Len(l) /\ \A i \in DOMAIN l : l[i] \in Lines
      BY LenProperties
    <3>2. places \in SUBSET (1..Len(l)) /\ \A i \in places : l[i] \in Lines
      BY <3>1 DEF Keyed
    <3>3. Placeholders(l) = Pick(l, places)
      BY <1>1 DEF Placeholders
    <3>4. Names(l) = {l[i].key : i \in places}
      BY DEF Names, Keyed
    <3> HIDE DEF places
    <3>5. /\ Pick(l, places) \in Seq(Lines)
          /\ ToSet(Pick(l, places)) = {l[i] : i \in places}
          /\ \A x, y : Precedes(Pick(l, places), x, y) <=>
                         \E i, j \in places : i < j /\ l[i] = x /\ l[j] = y
          /\ (\A i, j \in places : l[i] = l[j] => i = j) => Once(Pick(l, places))
      BY <3>1, <3>2, PickKeeps
    <3> QED
      BY <3>3, <3>4, <3>5
  <2> QED
    BY <2>1
<1>2. CASE format # "toml"
  <2>1. \A l \in Seq(Lines) : Placeholders(l) = KeyOrder(l) /\ ToSet(KeyOrder(l)) = Names(l)
    BY <1>2, LinesAre, KeyOrderIs DEF Placeholders
  <2> QED
    BY <2>1
<1> QED
  BY <1>1, <1>2

\* The keys of merged lines are those that a merge of their presence has, and
\* what the last side alone has changed under a key is taken from it.
Covers(m, b, o, t) ==
  \A k : k \in Names(m) <=> MergeField(k \in Names(b), k \in Names(o), k \in Names(t))
Takes(m, b, o, t) == \A k : Find(b, k) = Find(o, k) => Find(m, k) = Find(t, k)

\* It is so if a side is taken whole.
LEMMA WholeTakes ==
  ASSUME NEW b, NEW o, NEW t, o = t \/ t = b \/ o = b
  PROVE  LET m == MergeField(b, o, t) IN Covers(m, b, o, t) /\ Takes(m, b, o, t) /\ Takes(m, b, t, o)
<1> DEFINE m == MergeField(b, o, t)
<1>1. (m = o /\ (o = t \/ t = b)) \/ (m = t /\ o = b)
  BY DEF MergeField
<1> HIDE DEF m
<1>2. CASE m = o /\ (o = t \/ t = b)
  BY <1>2 DEF Covers, Takes, MergeField
<1>3. CASE m = t /\ o = b
  BY <1>3 DEF Covers, Takes, MergeField
<1> QED
  BY <1>1, <1>2, <1>3 DEF m

\* And if items are merged, or entries.
LEMMA ItemsTake ==
  ASSUME NEW T, IsKind(T), NEW b \in Seq(T), NEW o \in Seq(T), NEW t \in Seq(T), NEW m \in Seq(T),
         \A k : Field(b, o, t, k) # Clash /\ Find(m, k) = Field(b, o, t, k)
  PROVE  Covers(m, b, o, t) /\ Takes(m, b, o, t) /\ Takes(m, b, t, o)
<1>1. \A s \in Seq(T) : \A k : Find(s, k) # NoItem <=> k \in Names(s)
  BY KindIs
<1>2. ASSUME NEW k
      PROVE  k \in Names(m) <=> MergeField(k \in Names(b), k \in Names(o), k \in Names(t))
  <2>1. \A s \in Seq(T) : (Find(s, k) = NoItem /\ k \notin Names(s)) \/ (Find(s, k) # NoItem /\ k \in Names(s))
    BY <1>1
  <2>2. \A s : (k \in Names(s)) \in BOOLEAN
    OBVIOUS
  <2>3. Field(b, o, t, k) # Clash /\ Find(m, k) = Field(b, o, t, k)
    OBVIOUS
  <2>4. CASE Find(o, k) = Find(t, k) \/ Find(t, k) = Find(b, k)
    <3>1. Find(m, k) = Find(o, k)
      BY <2>3, <2>4 DEF Field, MergeField
    <3>2. (k \in Names(m)) <=> (k \in Names(o))
      BY <1>1, <3>1
    <3>3. (k \in Names(o) <=> k \in Names(t)) \/ (k \in Names(t) <=> k \in Names(b))
      BY <1>1, <2>4
    <3> QED
      BY <2>2, <3>2, <3>3 DEF MergeField
  <2>5. CASE ~(Find(o, k) = Find(t, k) \/ Find(t, k) = Find(b, k))
    <3>1. Find(m, k) = Find(t, k) /\ Find(o, k) = Find(b, k)
      BY <2>3, <2>5 DEF Field, MergeField
    <3>2. (k \in Names(m)) <=> (k \in Names(t))
      BY <1>1, <3>1
    <3>3. k \in Names(o) <=> k \in Names(b)
      BY <1>1, <3>1
    <3> QED
      BY <2>2, <3>2, <3>3 DEF MergeField
  <2> QED
    BY <2>4, <2>5
<1>3. ASSUME NEW k
      PROVE  /\ Find(b, k) = Find(o, k) => Find(m, k) = Find(t, k)
             /\ Find(b, k) = Find(t, k) => Find(m, k) = Find(o, k)
  BY DEF Field, MergeField
<1> QED
  BY <1>2, <1>3 DEF Covers, Takes

\* And, with keys that are the same on all sides, if hunks are.
LEMMA HunksCover ==
  ASSUME NEW b \in Seq(Lines), NEW o \in Seq(Lines), NEW t \in Seq(Lines), NEW m \in Seq(Lines),
         KeysOnce(b), KeysOnce(o), KeysOnce(t), Names(b) = Names(o), Names(b) = Names(t),
         NEW x \in Alignments(b, o), NEW y \in Alignments(b, t), Merged(m, b, o, t, x, y)
  PROVE  Names(m) = Names(b)
<1>1. ASSUME NEW k \in Names(m) PROVE k \in Names(b)
  <2>1. k \in Keys /\ Find(m, k) \in ToSet(m) /\ Find(m, k).key = k /\ k # NoKey
    BY LinesAre, MergeAssumption
  <2>2. \A s \in Seq(Lines) : \A z \in ToSet(s) : z.key \in Names(s) \/ z.key = NoKey
    BY LinesAre
  <2>3. Find(m, k) \in ToSet(b) \/ Find(m, k) \in ToSet(o) \/ Find(m, k) \in ToSet(t)
    BY <2>1 DEF Merged
  <2> QED
    BY <2>1, <2>2, <2>3
<1>2. ASSUME NEW k \in Names(b) PROVE k \in Names(m)
  <2>1. PICK i \in Keyed(b) : b[i].key = k
    BY FindIs
  <2>2. i \in DOMAIN b /\ k # NoKey
    BY <2>1 DEF Keyed
  <2>3. \A z \in ToSet(m) : z.key = k => k \in Names(m)
    BY <2>2, LinesAre
  <2>4. ASSUME NEW s \in Seq(Lines), NEW a \in Alignments(b, s), k \in Names(s),
               ~\E p \in a : p[1] = i
        PROVE  \E j \in DOMAIN s : s[j].key = k /\ ~\E p \in a : p[2] = j
    <3>1. PICK j \in Keyed(s) : s[j].key = k
      BY <2>4, FindIs
    <3>2. j \in DOMAIN s
      BY DEF Keyed
    <3>3. ASSUME NEW p \in a, p[2] = j PROVE FALSE
      <4>1. p[1] \in DOMAIN b /\ b[p[1]] = s[j]
        BY <3>3, EndsAre
      <4>2. p[1] \in Keyed(b)
        BY <2>2, <3>1, <4>1 DEF Keyed
      <4>3. p[1] = i
        BY <2>1, <3>1, <4>1, <4>2 DEF KeysOnce
      <4> QED
        BY <2>4, <4>3
    <3> QED
      BY <3>1, <3>2, <3>3
  <2>5. CASE (\E p \in x : p[1] = i) /\ (\E p \in y : p[1] = i)
    BY <2>1, <2>2, <2>3, <2>5 DEF Merged
  <2>6. CASE ~\E p \in x : p[1] = i
    <3>1. PICK j \in DOMAIN o : o[j].key = k /\ ~\E p \in x : p[2] = j
      BY <2>4, <2>6
    <3> QED
      BY <2>3, <3>1 DEF Merged
  <2>7. CASE ~\E p \in y : p[1] = i
    <3>1. PICK j \in DOMAIN t : t[j].key = k /\ ~\E p \in y : p[2] = j
      BY <2>4, <2>7
    <3> QED
      BY <2>3, <3>1 DEF Merged
  <2> QED
    BY <2>5, <2>6, <2>7
<1> QED
  BY <1>1, <1>2

\* A line that only one side has changed under a key is in what hunks make.
LEMMA HunksTake ==
  ASSUME NEW b \in Seq(Lines), NEW o \in Seq(Lines), NEW t \in Seq(Lines), NEW m \in Seq(Lines),
         KeysOnce(b), KeysOnce(o), KeysOnce(t), KeysOnce(m),
         Names(b) = Names(o), Names(b) = Names(t),
         NEW x \in Alignments(b, o), NEW y \in Alignments(b, t), Merged(m, b, o, t, x, y)
  PROVE  Takes(m, b, o, t)
<1> SUFFICES ASSUME NEW k, Find(b, k) = Find(o, k) PROVE Find(m, k) = Find(t, k)
  BY DEF Takes
<1>1. Names(m) = Names(b)
  BY HunksCover
<1>2. CASE k \notin Names(b)
  BY <1>1, <1>2, FindIs
<1>3. CASE k \in Names(b)
  <2>1. PICK j \in Keyed(t) : t[j].key = k /\ Find(t, k) = t[j]
    BY <1>3, FindIs
  <2>2. j \in DOMAIN t /\ k # NoKey
    BY <2>1 DEF Keyed
  <2>3. \A s \in Seq(Lines) : KeysOnce(s) => \A z \in ToSet(s) : z.key = k => Find(s, k) = z
    BY <2>2, LinesAre
  <2>4. CASE t[j] \in ToSet(m)
    BY <2>1, <2>3, <2>4
  <2>5. CASE t[j] \notin ToSet(m)
    <3>1. PICK p \in y : p[2] = j
      BY <2>2, <2>5 DEF Merged
    <3>2. p[1] \in DOMAIN b /\ b[p[1]] = t[j]
      BY <3>1, EndsAre
    <3>3. Find(b, k) = t[j]
      BY <2>1, <2>3, <3>2 DEF ToSet
    <3>4. Find(m, k) \in ToSet(m) /\ Find(m, k).key = k
      BY <1>1, <1>3, LinesAre
    <3>5. Find(m, k) \in ToSet(b) \/ Find(m, k) \in ToSet(o) \/ Find(m, k) \in ToSet(t)
      BY <3>4 DEF Merged
    <3> QED
      BY <2>1, <2>3, <3>3, <3>4, <3>5
  <2> QED
    BY <2>4, <2>5
<1> QED
  BY <1>2, <1>3

\* So it is in merged templates, taken whole or not.
LEMMA TemplatesTake ==
  ASSUME NEW b \in Seq(Lines), NEW o \in Seq(Lines), NEW t \in Seq(Lines),
         KeysOnce(b), KeysOnce(o), KeysOnce(t),
         NEW m \in MergedTemplates(b, o, t), m # Clash
  PROVE  /\ m \in Seq(Lines) /\ Covers(m, b, o, t)
         /\ KeysOnce(m) => Takes(m, b, o, t) /\ Takes(m, b, t, o)
<1>1. /\ m \in Seq(Lines)
      /\ \/ m = MergeField(b, o, t) /\ (o = t \/ t = b \/ o = b)
         \/ /\ Placeholders(b) = Placeholders(o) /\ Placeholders(b) = Placeholders(t)
            /\ \E x \in Alignments(b, o), y \in Alignments(b, t) : Merged(m, b, o, t, x, y)
  BY TemplateIs
<1>2. CASE m = MergeField(b, o, t) /\ (o = t \/ t = b \/ o = b)
  BY <1>1, <1>2, WholeTakes
<1>3. CASE /\ Placeholders(b) = Placeholders(o) /\ Placeholders(b) = Placeholders(t)
           /\ \E x \in Alignments(b, o), y \in Alignments(b, t) : Merged(m, b, o, t, x, y)
  <2>1. Names(b) = Names(o) /\ Names(b) = Names(t)
    BY <1>3, PlaceholderNames
  <2>2. PICK x \in Alignments(b, o), y \in Alignments(b, t) : Merged(m, b, o, t, x, y)
    BY <1>3
  <2>3. Names(m) = Names(b)
    BY <1>1, <2>1, <2>2, HunksCover
  <2>4. Covers(m, b, o, t)
    BY <2>1, <2>3 DEF Covers, MergeField
  <2>5. Merged(m, b, t, o, y, x)
    BY <2>2 DEF Merged
  <2>6. ASSUME KeysOnce(m) PROVE Takes(m, b, o, t) /\ Takes(m, b, t, o)
    <3>1. m \in Seq(Lines)
      BY <1>1
    <3>2. Takes(m, b, o, t)
      BY <2>1, <2>2, <2>6, <3>1, HunksTake
    <3>3. Takes(m, b, t, o)
      BY <2>1, <2>5, <2>6, <3>1, HunksTake
    <3> QED
      BY <3>2, <3>3
  <2> QED
    BY <1>1, <2>4, <2>6
<1> QED
  BY <1>1, <1>2, <1>3

\* How often a line comes.
Count(s, z) == Cardinality({i \in DOMAIN s : s[i] = z})

\* If all its copies are matched, the base has as many.
LEMMA MatchedCopies ==
  ASSUME NEW b \in Seq(Lines), NEW s \in Seq(Lines), NEW a \in Alignments(b, s), NEW z,
         \A j \in DOMAIN s : s[j] = z => \E p \in a : p[2] = j
  PROVE  Count(s, z) \in Nat /\ Count(b, z) \in Nat /\ Count(s, z) <= Count(b, z)
<1> DEFINE from == {j \in DOMAIN s : s[j] = z}
           to == {i \in DOMAIN b : b[i] = z}
           Pair(j) == CHOOSE p \in a : p[2] = j
           f == [j \in from |-> Pair(j)[1]]
<1>1. /\ Len(b) \in Nat /\ DOMAIN b = 1..Len(b) /\ Len(s) \in Nat /\ DOMAIN s = 1..Len(s)
      /\ \A p \in a : p[1] \in DOMAIN b /\ p[2] \in DOMAIN s /\ b[p[1]] = s[p[2]]
      /\ \A p, q \in a : p[1] = q[1] \/ p[2] = q[2] => p = q
  BY EndsAre
<1>2. ASSUME NEW j \in from PROVE Pair(j) \in a /\ Pair(j)[2] = j
  <2>1. \E p \in a : p[2] = j
    OBVIOUS
  <2> QED
    BY <2>1
<1> HIDE DEF Pair
<1>3. ASSUME NEW j \in from PROVE Pair(j)[1] \in to
  BY <1>1, <1>2
<1>4. f \in [from -> to]
  BY <1>3
<1>5. ASSUME NEW i \in from, NEW j \in from, f[i] = f[j] PROVE i = j
  <2>1. Pair(i)[1] = Pair(j)[1] /\ Pair(i) \in a /\ Pair(j) \in a
    BY <1>2, <1>5
  <2>2. Pair(i) = Pair(j)
    BY <1>1, <2>1
  <2> QED
    BY <1>2, <2>2
<1>6. f \in Injection(from, to)
  BY <1>4, <1>5 DEF Injection, IsInjective
<1>7. IsFiniteSet(from) /\ IsFiniteSet(to)
  <2>1. IsFiniteSet(1..Len(s)) /\ IsFiniteSet(1..Len(b))
    BY <1>1, FS_Interval
  <2>2. from \subseteq 1..Len(s) /\ to \subseteq 1..Len(b)
    BY <1>1
  <2> QED
    BY <2>1, <2>2, FS_Subset
<1> HIDE DEF from, to, f
<1>8. Cardinality(from) <= Cardinality(to)
  BY <1>6, <1>7, FS_Injection
<1>9. Cardinality(from) \in Nat /\ Cardinality(to) \in Nat
  BY <1>7, FS_CardinalityType
<1> QED
  BY <1>8, <1>9 DEF Count, from, to

\* A side has a line more often than the base if it has added it; then it has it.
LEMMA CopiesAre ==
  ASSUME NEW b \in Seq(Lines), NEW s \in Seq(Lines), NEW z, Count(s, z) > Count(b, z)
  PROVE  s # b /\ z \in ToSet(s)
<1>1. Len(b) \in Nat /\ DOMAIN b = 1..Len(b) /\ Len(s) \in Nat /\ DOMAIN s = 1..Len(s)
  BY LenProperties
<1>2. ASSUME NEW l \in {b, s} PROVE Count(l, z) \in Nat
  <2>1. Len(l) \in Nat /\ DOMAIN l = 1..Len(l)
    BY <1>1
  <2>2. IsFiniteSet(1..Len(l))
    BY <2>1, FS_Interval
  <2>3. {i \in DOMAIN l : l[i] = z} \subseteq 1..Len(l)
    BY <2>1
  <2> QED
    BY <2>2, <2>3, FS_Subset, FS_CardinalityType DEF Count
<1>3. Count(s, z) # 0 /\ s # b
  BY <1>2
<1>4. {i \in DOMAIN s : s[i] = z} # {}
  BY <1>3, FS_EmptySet DEF Count
<1> QED
  BY <1>3, <1>4 DEF ToSet

\* Every line that a side has added is in what is merged.
Adds(m, b, o, t) == \A s \in {o, t} : \A z : Count(s, z) > Count(b, z) => z \in ToSet(m)

\* It is so if a side is taken whole.
LEMMA WholeAdds ==
  ASSUME NEW b \in Seq(Lines), NEW o \in Seq(Lines), NEW t \in Seq(Lines),
         o = t \/ t = b \/ o = b
  PROVE  Adds(MergeField(b, o, t), b, o, t)
<1> DEFINE m == MergeField(b, o, t)
<1>1. (m = o /\ (o = t \/ t = b)) \/ (m = t /\ o = b)
  BY DEF MergeField
<1> HIDE DEF m
<1>2. ASSUME NEW s \in {o, t}, NEW z, Count(s, z) > Count(b, z) PROVE z \in ToSet(m)
  <2>1. s # b /\ z \in ToSet(s)
    BY <1>2, CopiesAre
  <2> QED
    BY <1>1, <2>1
<1> QED
  BY <1>2 DEF Adds, m

\* And if hunks are applied: what is not matched is in a hunk.
LEMMA TemplatesAdd ==
  ASSUME NEW b \in Seq(Lines), NEW o \in Seq(Lines), NEW t \in Seq(Lines),
         NEW m \in MergedTemplates(b, o, t), m # Clash
  PROVE  Adds(m, b, o, t)
<1>1. \/ m = MergeField(b, o, t) /\ (o = t \/ t = b \/ o = b)
      \/ \E x \in Alignments(b, o), y \in Alignments(b, t) : Merged(m, b, o, t, x, y)
  BY TemplateIs
<1>2. CASE m = MergeField(b, o, t) /\ (o = t \/ t = b \/ o = b)
  BY <1>2, WholeAdds
<1>3. CASE \E x \in Alignments(b, o), y \in Alignments(b, t) : Merged(m, b, o, t, x, y)
  <2>1. PICK x \in Alignments(b, o), y \in Alignments(b, t) : Merged(m, b, o, t, x, y)
    BY <1>3
  <2>2. ASSUME NEW s \in Seq(Lines), NEW a \in Alignments(b, s), NEW z,
               Count(s, z) > Count(b, z)
        PROVE  \E j \in DOMAIN s : s[j] = z /\ ~\E p \in a : p[2] = j
    <3> SUFFICES ASSUME \A j \in DOMAIN s : s[j] = z => \E p \in a : p[2] = j PROVE FALSE
      OBVIOUS
    <3>1. Count(s, z) \in Nat /\ Count(b, z) \in Nat /\ Count(s, z) <= Count(b, z)
      BY MatchedCopies
    <3> QED
      BY <2>2, <3>1
  <2>3. ASSUME NEW z, Count(o, z) > Count(b, z) PROVE z \in ToSet(m)
    <3>1. PICK j \in DOMAIN o : o[j] = z /\ ~\E p \in x : p[2] = j
      BY <2>2, <2>3
    <3> QED
      BY <2>1, <3>1 DEF Merged
  <2>4. ASSUME NEW z, Count(t, z) > Count(b, z) PROVE z \in ToSet(m)
    <3>1. PICK j \in DOMAIN t : t[j] = z /\ ~\E p \in y : p[2] = j
      BY <2>2, <2>4
    <3> QED
      BY <2>1, <3>1 DEF Merged
  <2> QED
    BY <2>3, <2>4 DEF Adds
<1> QED
  BY <1>1, <1>2, <1>3

-----------------------------------------------------------------------------
(* Documents.                                                               *)

\* A layout without a template has one entry per key.
Entered(l) == format \notin Templates => l.lines \in Seq(Entries) /\ KeysOnce(l.lines)

\* Values, and a layout for all of them.
Sound(d) ==
  /\ d \in Documents /\ KeysOnce(d.root) /\ Entered(d.layout)
  /\ Names(d.layout.lines) = IF format = "json" THEN {} ELSE Names(d.root)

\* One that a parser has made.
Good(d) == Sound(d) /\ KeysOnce(d.layout.lines)

\* A merged layout has the lines that merged presence asks for, what one side
\* alone has changed, and what either has added.
LEMMA LayoutIs ==
  ASSUME NEW b \in Layouts, NEW o \in Layouts, NEW t \in Layouts,
         \A d \in {b, o, t} : Entered(d) /\ KeysOnce(d.lines),
         NEW l \in MergedLayouts(b, o, t), l # Clash
  PROVE  /\ l \in Layouts /\ Entered(l)
         /\ Covers(l.lines, b.lines, o.lines, t.lines)
         /\ KeysOnce(l.lines) => /\ Takes(l.lines, b.lines, o.lines, t.lines)
                                 /\ Takes(l.lines, b.lines, t.lines, o.lines)
         /\ format \in Templates => Adds(l.lines, b.lines, o.lines, t.lines)
<1>1. \A d \in {b, o, t} : d.lines \in Seq(Lines) /\ d.rest \in Rests /\ d.comments \in Seq(Lines)
  BY DEF Layouts
<1>2. CASE MergeField(b, o, t) # Clash
  <2>1. l = MergeField(b, o, t)
    BY <1>2 DEF MergedLayouts
  <2>2. (l = o /\ (o = t \/ t = b)) \/ (l = t /\ o = b)
    BY <1>2, <2>1 DEF MergeField
  <2>3. o.lines = t.lines \/ t.lines = b.lines \/ o.lines = b.lines
    BY <2>2
  <2>4. l.lines = MergeField(b.lines, o.lines, t.lines)
    BY <2>2 DEF MergeField
  <2>5. Covers(l.lines, b.lines, o.lines, t.lines) /\ Takes(l.lines, b.lines, o.lines, t.lines)
        /\ Takes(l.lines, b.lines, t.lines, o.lines)
    BY <2>3, <2>4, WholeTakes
  <2>6. Adds(l.lines, b.lines, o.lines, t.lines)
    BY <1>1, <2>3, <2>4, WholeAdds
  <2> QED
    BY <2>2, <2>5, <2>6
<1>3. CASE MergeField(b, o, t) = Clash
  <2> DEFINE rest == MergeField(b.rest, o.rest, t.rest)
             comments == MergeField(b.comments, o.comments, t.comments)
             merged == IF format \in Templates THEN MergedTemplates(b.lines, o.lines, t.lines)
                       ELSE {MergeItems(b.lines, o.lines, t.lines)}
  <2>1. \E lines \in merged :
          l = IF Clash \in {lines, rest, comments} THEN Clash
              ELSE [lines |-> lines, rest |-> rest, comments |-> comments]
    BY <1>3 DEF MergedLayouts
  <2>2. PICK lines \in merged :
          /\ l = [lines |-> lines, rest |-> rest, comments |-> comments]
          /\ lines # Clash /\ rest # Clash /\ comments # Clash
    BY <2>1
  <2>3. rest \in Rests /\ comments \in Seq(Lines)
    <3>1. rest \in {o.rest, t.rest, Clash} /\ comments \in {o.comments, t.comments, Clash}
      BY DEF MergeField
    <3> HIDE DEF rest, comments
    <3> QED
      BY <1>1, <2>2, <3>1
  <2>4. l.lines = lines /\ (lines \in Seq(Lines) => l \in Layouts)
    <3> HIDE DEF rest, comments
    <3> QED
      BY <2>2, <2>3 DEF Layouts
  <2>5. CASE format \in Templates
    <3>1. lines \in MergedTemplates(b.lines, o.lines, t.lines)
      BY <2>2, <2>5
    <3>2. /\ lines \in Seq(Lines) /\ Covers(lines, b.lines, o.lines, t.lines)
          /\ KeysOnce(lines) => /\ Takes(lines, b.lines, o.lines, t.lines)
                                /\ Takes(lines, b.lines, t.lines, o.lines)
      BY <1>1, <2>2, <3>1, TemplatesTake
    <3>3. Adds(lines, b.lines, o.lines, t.lines)
      BY <1>1, <2>2, <3>1, TemplatesAdd
    <3> QED
      BY <2>4, <2>5, <3>2, <3>3 DEF Entered
  <2>6. CASE format \notin Templates
    <3>1. \A d \in {b, o, t} : d.lines \in Seq(Entries) /\ KeysOnce(d.lines)
      BY <2>6 DEF Entered
    <3>2. lines = MergeItems(b.lines, o.lines, t.lines)
      BY <2>2, <2>6
    <3>3. IsKind(Entries)
      BY Kinds
    <3>4. /\ lines \in Seq(Entries) /\ KeysOnce(lines)
          /\ \A k : /\ Field(b.lines, o.lines, t.lines, k) # Clash
                    /\ Find(lines, k) = Field(b.lines, o.lines, t.lines, k)
      BY <2>2, <3>1, <3>2, <3>3, MergeItemsIs
    <3>5. /\ Covers(lines, b.lines, o.lines, t.lines)
          /\ Takes(lines, b.lines, o.lines, t.lines) /\ Takes(lines, b.lines, t.lines, o.lines)
      BY <3>1, <3>3, <3>4, ItemsTake
    <3>6. lines \in Seq(Lines)
      <4>1. Entries \subseteq Lines
        BY DEF Lines
      <4> QED
        BY <3>4, <4>1, SeqMonotonic
    <3> QED
      BY <2>4, <2>6, <3>4, <3>5, <3>6 DEF Entered
  <2> QED
    BY <2>5, <2>6
<1> QED
  BY <1>2, <1>3

\* A clean merge is one of values and layout, which cover each other.
LEMMA MergesAre ==
  ASSUME NEW b, NEW o, NEW t, Good(b), Good(o), Good(t), NEW c \in Merges(b, o, t), c # Clash
  PROVE  /\ c.root = MergeRoots(b.root, o.root, t.root) /\ c.root # Clash
         /\ c.layout \in MergedLayouts(b.layout, o.layout, t.layout) /\ c.layout # Clash
         /\ Sound(c)
<1>1. \A d \in {b, o, t} : /\ d.root \in Seq(Items) /\ KeysOnce(d.root)
                           /\ d.layout \in Layouts /\ Entered(d.layout) /\ KeysOnce(d.layout.lines)
                           /\ Names(d.layout.lines) = IF format = "json" THEN {} ELSE Names(d.root)
  BY DEF Good, Sound, Documents
<1> DEFINE root == MergeRoots(b.root, o.root, t.root)
<1>2. \E l \in MergedLayouts(b.layout, o.layout, t.layout) :
        c = IF root = Clash \/ l = Clash THEN Clash ELSE [root |-> root, layout |-> l]
  BY DEF Merges
<1>3. PICK l \in MergedLayouts(b.layout, o.layout, t.layout) :
        c = [root |-> root, layout |-> l] /\ root # Clash /\ l # Clash
  BY <1>2
<1>4. /\ root \in Seq(Items) /\ KeysOnce(root)
      /\ \A k : /\ Field(b.root, o.root, t.root, k) # Clash
                /\ Find(root, k) = Field(b.root, o.root, t.root, k)
  BY <1>1, <1>3, MergeRootsIs
<1>5. /\ l \in Layouts /\ Entered(l)
      /\ Covers(l.lines, b.layout.lines, o.layout.lines, t.layout.lines)
  BY <1>1, <1>3, LayoutIs
<1> HIDE DEF root
<1>6. Covers(root, b.root, o.root, t.root)
  BY <1>1, <1>4, Kinds, ItemsTake
<1>7. Names(l.lines) = IF format = "json" THEN {} ELSE Names(root)
  <2>1. CASE format = "json"
    <3>1. ASSUME NEW k \in Names(l.lines) PROVE FALSE
      <4>1. MergeField(k \in Names(b.layout.lines), k \in Names(o.layout.lines), k \in Names(t.layout.lines))
        BY <1>5 DEF Covers
      <4> QED
        BY <1>1, <2>1, <4>1 DEF MergeField
    <3> QED
      BY <2>1, <3>1
  <2>2. CASE format # "json"
    <3>1. \A k : k \in Names(l.lines) <=> k \in Names(root)
      BY <1>1, <1>5, <1>6, <2>2 DEF Covers
    <3> QED
      BY <2>2, <3>1
  <2> QED
    BY <2>1, <2>2
<1>8. c \in Documents
  BY <1>3, <1>4, <1>5 DEF Documents
<1> QED
  BY <1>3, <1>4, <1>5, <1>7, <1>8 DEF Sound, root

-----------------------------------------------------------------------------
(* Texts.                                                                   *)

Assignments == [key : Keys, value : Vals, style : Styles]
CommentLines == [key : {NoKey}, value : {NoItem}, style : Styles]

\* How a key is written, if it is.
StyleOf(lines, k) == IF Find(lines, k) = NoItem THEN DefaultStyle ELSE Find(lines, k).style
Row(d, k) ==
  IF k \in Names(d.root)
  THEN [key |-> k, value |-> Find(d.root, k).value, style |-> StyleOf(d.layout.lines, k)]
  ELSE NoItem

\* A line of text under a key is an assignment.
LEMMA TextsAre ==
  ASSUME NEW s \in Seq(TextLines)
  PROVE  /\ Len(s) \in Nat /\ DOMAIN s = 1..Len(s) /\ \A i \in DOMAIN s : s[i] \in TextLines
         /\ IsList(s) /\ Names(s) \subseteq Keys
         /\ \A i \in DOMAIN s : /\ s[i].key # NoKey => s[i] \in Assignments
                                /\ s[i].key = NoKey => s[i] \in CommentLines
         /\ \A k \in Names(s) : Find(s, k) \in Assignments /\ Find(s, k).key = k
<1>1. Len(s) \in Nat /\ DOMAIN s = 1..Len(s) /\ \A i \in DOMAIN s : s[i] \in TextLines
  BY LenProperties
<1>2. NoKey \notin Keys
  BY MergeAssumption
<1>3. \A x \in TextLines : /\ x.key \in Keys \cup {NoKey}
                           /\ x.key # NoKey => x \in Assignments /\ x.key \in Keys
                           /\ x.key = NoKey => x \in CommentLines
  BY <1>2 DEF TextLines, Assignments, CommentLines
<1>4. IsList(s)
  BY <1>1, <1>3 DEF IsList
<1>5. Names(s) \subseteq Keys
  BY <1>1, <1>3 DEF Names
<1>6. ASSUME NEW k \in Names(s) PROVE Find(s, k) \in Assignments /\ Find(s, k).key = k
  <2>1. PICK i \in Keyed(s) : s[i].key = k /\ Find(s, k) = s[i]
    BY FindIs
  <2>2. i \in DOMAIN s /\ s[i].key # NoKey
    BY DEF Keyed
  <2> QED
    BY <1>1, <1>3, <2>1, <2>2
<1> QED
  BY <1>1, <1>3, <1>4, <1>5, <1>6

\* The text of a document that its layout covers, without template.
LEMMA ListedIs ==
  ASSUME NEW d, Sound(d), format \notin Templates
  PROVE  LET g == Generate(d).lines
         IN  /\ g \in Seq(Assignments) /\ KeysOnce(g) /\ Keyed(g) = DOMAIN g
             /\ Names(g) = Names(d.root)
             /\ \A k : Find(g, k) = Row(d, k)
             /\ ToSet(g) = {Row(d, k) : k \in Names(d.root)}
<1> DEFINE g == Generate(d).lines
           root == d.root
           lines == d.layout.lines
           Line(i) == LET entry == Find(lines, root[i].key)
                      IN  [key |-> root[i].key, value |-> root[i].value,
                           style |-> IF entry = NoItem THEN DefaultStyle ELSE entry.style]
<1>1. /\ root \in Seq(Items) /\ KeysOnce(root)
      /\ lines \in Seq(Entries)
  BY DEF Sound, Documents, Entered
<1>2. /\ Len(root) \in Nat /\ DOMAIN root = 1..Len(root)
      /\ \A i \in DOMAIN root : root[i] \in Items /\ root[i].key \in Keys /\ root[i].value \in Vals
  <2>1. Len(root) \in Nat /\ DOMAIN root = 1..Len(root) /\ \A i \in DOMAIN root : root[i] \in Items
    BY <1>1, LenProperties
  <2>2. \A x \in Items : x.key \in Keys /\ x.value \in Vals
    BY DEF Items
  <2> QED
    BY <2>1, <2>2
<1>3. Keyed(root) = DOMAIN root /\ \A i \in DOMAIN root : Find(root, root[i].key) = root[i]
  BY <1>1, KindIs, Kinds, FindIs
<1>4. \A i \in DOMAIN root : root[i].key \in Names(root)
  BY <1>3 DEF Names, Keyed
<1>5. \A k : StyleOf(lines, k) \in Styles
  <2>1. \A k : Find(lines, k) \in Entries \cup {NoItem}
    BY <1>1, KindIs, Kinds
  <2>2. DefaultStyle \in Styles
    BY MergeAssumption
  <2> QED
    BY <2>1, <2>2 DEF StyleOf, Entries
<1>6. g = [i \in DOMAIN root |-> Line(i)]
  BY DEF Generate
<1>7. ASSUME NEW i \in DOMAIN root
      PROVE  Line(i) = Row(d, root[i].key) /\ Line(i) \in Assignments /\ Line(i).key = root[i].key
  <2>1. Line(i) = [key |-> root[i].key, value |-> root[i].value, style |-> StyleOf(lines, root[i].key)]
    BY DEF StyleOf
  <2> HIDE DEF Line
  <2>2. Line(i) = Row(d, root[i].key)
    BY <1>3, <1>4, <2>1 DEF Row
  <2>3. Line(i) \in Assignments
    BY <1>2, <1>5, <2>1 DEF Assignments
  <2> QED
    BY <2>1, <2>2, <2>3
<1> HIDE DEF Line, g
<1>8. DOMAIN g = DOMAIN root /\ \A i \in DOMAIN root :
        g[i] = Row(d, root[i].key) /\ g[i] \in Assignments /\ g[i].key = root[i].key
  BY <1>6, <1>7
<1>9. g \in Seq(Assignments)
  <2>1. g \in [1..Len(root) -> Assignments]
    BY <1>2, <1>6, <1>7
  <2> QED
    BY <1>2, <2>1, SeqDef
<1>10. NoKey \notin Keys
  BY MergeAssumption
<1>11. Keyed(g) = DOMAIN g
  BY <1>2, <1>8, <1>10 DEF Keyed
<1>12. KeysOnce(g)
  BY <1>1, <1>3, <1>8, <1>11 DEF KeysOnce
<1>13. Names(g) = Names(root)
  BY <1>8 DEF Names
<1>14. ASSUME NEW k PROVE Find(g, k) = Row(d, k)
  <2>1. CASE k \in Names(g)
    <3>1. PICK i \in Keyed(g) : g[i].key = k /\ Find(g, k) = g[i]
      BY <2>1, FindIs
    <3> QED
      BY <1>8, <1>11, <3>1
  <2>2. CASE k \notin Names(g)
    <3>1. Find(g, k) = NoItem
      BY <2>2, FindIs
    <3> QED
      BY <1>13, <2>2, <3>1 DEF Row
  <2> QED
    BY <2>1, <2>2
<1>15. ToSet(g) = {Row(d, k) : k \in Names(root)}
  <2>1. \A i \in DOMAIN g : g[i] \in {Row(d, k) : k \in Names(root)}
    BY <1>4, <1>8
  <2>2. ASSUME NEW k \in Names(root) PROVE \E i \in DOMAIN g : g[i] = Row(d, k)
    <3>1. PICK i \in Keyed(root) : root[i].key = k
      BY FindIs
    <3> QED
      BY <1>3, <1>8, <3>1
  <2>3. ToSet(g) = {g[i] : i \in DOMAIN g}
    BY DEF ToSet
  <2> QED
    BY <2>1, <2>2, <2>3
<1> QED
  BY <1>9, <1>11, <1>12, <1>13, <1>14, <1>15 DEF g

\* And with one.
LEMMA FilledIs ==
  ASSUME NEW d, Sound(d), format \in Templates
  PROVE  LET g == Generate(d).lines
         IN  /\ g \in Seq(TextLines)
             /\ KeysOnce(g) <=> KeysOnce(d.layout.lines)
             /\ DOMAIN g = DOMAIN d.layout.lines
             /\ \A i \in DOMAIN g :
                  g[i] = [key |-> d.layout.lines[i].key,
                          value |-> IF Find(d.root, d.layout.lines[i].key) = NoItem THEN NoItem
                                    ELSE Find(d.root, d.layout.lines[i].key).value,
                          style |-> d.layout.lines[i].style]
             /\ Names(g) = Names(d.root)
             /\ KeysOnce(g) => \A k : Find(g, k) = Row(d, k)
<1> DEFINE g == Generate(d).lines
           root == d.root
           lines == d.layout.lines
           Line(i) == [key |-> lines[i].key,
                       value |-> IF Find(root, lines[i].key) = NoItem THEN NoItem
                                 ELSE Find(root, lines[i].key).value,
                       style |-> lines[i].style]
<1>1. /\ root \in Seq(Items) /\ KeysOnce(root) /\ lines \in Seq(Lines)
      /\ Names(lines) = Names(root)
  BY DEF Sound, Documents, Layouts, Templates
<1>2. Len(lines) \in Nat /\ DOMAIN lines = 1..Len(lines) /\ \A i \in DOMAIN lines : lines[i] \in Lines
  BY <1>1, LenProperties
<1>3. NoKey \notin Keys
  BY MergeAssumption
<1>4. /\ Names(root) \subseteq Keys
      /\ \A k : /\ Find(root, k) \in Items \cup {NoItem}
                /\ Find(root, k) # NoItem <=> k \in Names(root)
  BY <1>1, KindIs, Kinds
<1>5. \A i \in DOMAIN lines : lines[i].style \in Styles /\ lines[i].key \in Keys \cup {NoKey}
  BY <1>2 DEF Lines, Entries
<1>6. \A i \in DOMAIN lines : lines[i].key # NoKey => lines[i].key \in Names(lines)
  BY DEF Names
<1>7. g = [i \in DOMAIN lines |-> Line(i)]
  BY DEF Generate
<1>8. ASSUME NEW i \in DOMAIN lines PROVE Line(i) \in TextLines
  <2>1. CASE lines[i].key = NoKey
    <3>1. Find(root, NoKey) = NoItem
      BY <1>3, <1>4
    <3> QED
      BY <1>5, <2>1, <3>1 DEF TextLines
  <2>2. CASE lines[i].key # NoKey
    <3>1. Find(root, lines[i].key) \in Items /\ Find(root, lines[i].key) # NoItem
      BY <1>1, <1>4, <1>6, <2>2
    <3>2. Find(root, lines[i].key).value \in Vals
      BY <3>1 DEF Items
    <3> QED
      BY <1>5, <2>2, <3>1, <3>2 DEF TextLines
  <2> QED
    BY <2>1, <2>2
<1>9. \A i \in DOMAIN lines : g[i] = Line(i) /\ g[i].key = lines[i].key
  BY <1>7
<1>10. DOMAIN g = DOMAIN lines
  BY <1>7
<1>11. g \in Seq(TextLines)
  <2> HIDE DEF Line, g
  <2>1. g \in [1..Len(lines) -> TextLines]
    BY <1>2, <1>7, <1>8
  <2> QED
    BY <1>2, <2>1, SeqDef
<1> HIDE DEF g
<1>12. KeysOnce(g) <=> KeysOnce(lines)
  <2>1. Keyed(g) = Keyed(lines) /\ \A i \in Keyed(lines) : g[i].key = lines[i].key
    BY <1>9, <1>10 DEF Keyed
  <2> QED
    BY <2>1 DEF KeysOnce
<1>13. Names(g) = Names(root)
  <2>1. Names(g) = Names(lines)
    BY <1>9, <1>10 DEF Names
  <2> QED
    BY <1>1, <2>1
<1>14. ASSUME KeysOnce(g), NEW k PROVE Find(g, k) = Row(d, k)
  <2>1. CASE k \in Names(g)
    <3>1. PICK i \in Keyed(g) : g[i].key = k /\ Find(g, k) = g[i]
      BY <2>1, FindIs
    <3>2. i \in DOMAIN lines /\ i \in Keyed(lines) /\ lines[i].key = k
      BY <1>9, <1>10, <3>1 DEF Keyed
    <3>3. Find(lines, k) = lines[i]
      BY <1>12, <1>14, <3>2, FindIs
    <3>4. lines[i] # NoItem
      BY <1>2, <3>2, MergeAssumption
    <3>5. StyleOf(lines, k) = lines[i].style
      BY <3>3, <3>4 DEF StyleOf
    <3>6. k \in Names(root) /\ Find(root, k) # NoItem
      BY <1>4, <1>13, <2>1
    <3>7. g[i] = [key |-> k, value |-> Find(root, k).value, style |-> lines[i].style]
      BY <1>9, <3>2, <3>6
    <3> QED
      BY <3>1, <3>5, <3>6, <3>7 DEF Row
  <2>2. CASE k \notin Names(g)
    <3>1. Find(g, k) = NoItem
      BY <2>2, FindIs
    <3> QED
      BY <1>13, <2>2, <3>1 DEF Row
  <2> QED
    BY <2>1, <2>2
<1> QED
  BY <1>9, <1>10, <1>11, <1>12, <1>13, <1>14 DEF g

\* The text of a document has its rows; a good document has a readable text,
\* and one that has is good.
LEMMA GenerateIs ==
  ASSUME NEW d, Sound(d)
  PROVE  /\ Generate(d) \in Texts
         /\ Names(Generate(d).lines) = Names(d.root)
         /\ KeysOnce(Generate(d).lines) => \A k : Find(Generate(d).lines, k) = Row(d, k)
         /\ Good(d) <=> Readable(Generate(d))
<1> DEFINE g == Generate(d)
<1>1. d.layout.rest \in Rests
  BY DEF Sound, Documents, Layouts
<1>2. g = [lines |-> g.lines, rest |-> d.layout.rest]
  BY DEF Generate
<1> HIDE DEF g
<1>3. g.lines \in Seq(TextLines) => g \in Texts
  BY <1>1, <1>2 DEF Texts
<1>4. CASE format \in Templates
  <2>1. /\ g.lines \in Seq(TextLines)
        /\ KeysOnce(g.lines) <=> KeysOnce(d.layout.lines)
        /\ Names(g.lines) = Names(d.root)
        /\ KeysOnce(g.lines) => \A k : Find(g.lines, k) = Row(d, k)
    BY <1>4, FilledIs DEF g
  <2>2. Good(d) <=> Readable(g)
    BY <1>4, <2>1 DEF Good, Readable
  <2> QED
    BY <1>3, <2>1, <2>2 DEF g
<1>5. CASE format \notin Templates
  <2>1. /\ g.lines \in Seq(Assignments) /\ KeysOnce(g.lines) /\ Keyed(g.lines) = DOMAIN g.lines
        /\ Names(g.lines) = Names(d.root)
        /\ \A k : Find(g.lines, k) = Row(d, k)
    BY <1>5, ListedIs DEF g
  <2>2. g.lines \in Seq(TextLines)
    <3>1. Assignments \subseteq TextLines
      BY DEF Assignments, TextLines
    <3> QED
      BY <2>1, <3>1, SeqMonotonic
  <2>3. Good(d) <=> Readable(g)
    BY <1>5, <2>1 DEF Good, Sound, Entered, Readable
  <2> QED
    BY <1>3, <2>1, <2>2, <2>3 DEF g
<1> QED
  BY <1>4, <1>5

\* A parser makes a good document of a readable text.
LEMMA ParseIs ==
  ASSUME NEW text \in Texts, Readable(text)
  PROVE  Good(Parse(text))
<1> DEFINE s == text.lines
           order == KeyOrder(s)
           Item(k) == [key |-> k, value |-> Find(s, k).value]
           root == [i \in DOMAIN order |-> Item(order[i])]
           all == [i \in DOMAIN s |-> [key |-> s[i].key, style |-> s[i].style]]
           lines == IF format = "json" THEN <<>> ELSE all
           comments == IF format = "yaml" THEN CommentsOf(lines) ELSE <<>>
<1>1. s \in Seq(TextLines) /\ KeysOnce(s) /\ text.rest \in Rests
  BY DEF Texts, Readable
<1>2. /\ Len(s) \in Nat /\ DOMAIN s = 1..Len(s) /\ \A i \in DOMAIN s : s[i] \in TextLines
      /\ IsList(s) /\ Names(s) \subseteq Keys
      /\ \A i \in DOMAIN s : /\ s[i].key # NoKey => s[i] \in Assignments
                             /\ s[i].key = NoKey => s[i] \in CommentLines
      /\ \A k \in Names(s) : Find(s, k) \in Assignments /\ Find(s, k).key = k
  BY <1>1, TextsAre
<1>3. order \in Seq(Keys) /\ ToSet(order) = Names(s) /\ Once(order)
  BY <1>1, <1>2, KeyOrderIs
<1>4. Parse(text) = [root |-> root,
                     layout |-> [lines |-> lines, rest |-> text.rest, comments |-> comments]]
  BY DEF Parse
<1> HIDE DEF order, s
<1>5. Len(order) \in Nat /\ DOMAIN order = 1..Len(order) /\ \A i \in DOMAIN order : order[i] \in Names(s)
  BY <1>3, LenProperties DEF ToSet
<1>6. \A k \in Names(s) : Item(k) \in Items /\ Item(k).key = k
  <2>1. \A k \in Names(s) : k \in Keys /\ Find(s, k).value \in Vals
    BY <1>2 DEF Assignments
  <2> QED
    BY <2>1 DEF Items
<1> HIDE DEF Item
<1>7. root \in Seq(Items)
  <2>1. root \in [1..Len(order) -> Items]
    BY <1>5, <1>6
  <2> QED
    BY <1>5, <2>1, SeqDef
<1>8. DOMAIN root = DOMAIN order /\ \A i \in DOMAIN order : root[i].key = order[i]
  BY <1>5, <1>6
<1> HIDE DEF root
<1>9. Keyed(root) = DOMAIN root
  BY <1>7, KindIs, Kinds
<1>10. KeysOnce(root)
  BY <1>3, <1>8, <1>9 DEF KeysOnce, Once
<1>11. Names(root) = Names(s)
  <2>1. NoKey \notin Names(s)
    BY DEF Names
  <2>2. Names(root) = {order[i] : i \in DOMAIN order} \ {NoKey}
    BY <1>8 DEF Names
  <2> QED
    BY <1>3, <2>1, <2>2 DEF ToSet
<1>12. \A i \in DOMAIN s : /\ all[i] \in Lines /\ all[i].key = s[i].key
                           /\ s[i].key # NoKey => all[i] \in Entries
  <2> SUFFICES ASSUME NEW i \in DOMAIN s
               PROVE  /\ all[i] \in Lines /\ all[i].key = s[i].key
                      /\ s[i].key # NoKey => all[i] \in Entries
    OBVIOUS
  <2>1. all[i] = [key |-> s[i].key, style |-> s[i].style]
    OBVIOUS
  <2> HIDE DEF all
  <2>2. CASE s[i].key = NoKey
    <3>1. s[i].style \in Styles
      BY <1>2, <2>2 DEF CommentLines
    <3> QED
      BY <2>1, <2>2, <3>1 DEF Lines
  <2>3. CASE s[i].key # NoKey
    <3>1. s[i].style \in Styles /\ s[i].key \in Keys
      BY <1>2, <2>3 DEF Assignments
    <3> QED
      BY <2>1, <2>3, <3>1 DEF Lines, Entries
  <2> QED
    BY <2>2, <2>3
<1>13. DOMAIN all = DOMAIN s
  OBVIOUS
<1> HIDE DEF all
<1>14. all \in Seq(Lines) /\ KeysOnce(all) /\ Names(all) = Names(s)
  <2>1. all \in [1..Len(s) -> Lines]
    BY <1>2, <1>12, <1>13 DEF all
  <2>2. KeysOnce(all)
    BY <1>1, <1>12, <1>13 DEF KeysOnce, Keyed
  <2>3. Names(all) = Names(s)
    BY <1>12, <1>13 DEF Names
  <2> QED
    BY <1>2, <2>1, <2>2, <2>3, SeqDef
<1>15. ASSUME format \notin Templates PROVE all \in Seq(Entries)
  <2>1. Keyed(s) = DOMAIN s
    BY <1>15 DEF Readable, s
  <2>2. \A i \in DOMAIN s : all[i] \in Entries
    BY <1>12, <2>1 DEF Keyed
  <2>3. all \in [1..Len(s) -> Entries]
    BY <1>2, <1>13, <2>2 DEF all
  <2> QED
    BY <1>2, <2>3, SeqDef
<1>16. /\ lines \in Seq(Lines) /\ KeysOnce(lines)
       /\ Names(lines) = IF format = "json" THEN {} ELSE Names(s)
       /\ format \notin Templates => lines \in Seq(Entries)
  <2>1. CASE format = "json"
    <3>1. lines = <<>>
      BY <2>1
    <3>2. <<>> \in Seq(Lines) /\ <<>> \in Seq(Entries) /\ KeysOnce(<<>>) /\ Names(<<>>) = {}
      BY EmptySeq DEF KeysOnce, Keyed, Names
    <3> HIDE DEF lines
    <3> QED
      BY <2>1, <3>1, <3>2
  <2>2. CASE format # "json"
    BY <1>14, <1>15, <2>2
  <2> QED
    BY <2>1, <2>2
<1> HIDE DEF lines
<1>17. comments \in Seq(Lines)
  <2>1. <<>> \in Seq(Lines)
    BY EmptySeq
  <2>2. CommentsOf(lines) \in Seq(Lines)
    <3> DEFINE places == DOMAIN lines \ Keyed(lines)
    <3>1. Len(lines) \in Nat /\ DOMAIN lines = 1..Len(lines) /\ \A i \in DOMAIN lines : lines[i] \in Lines
      BY <1>16, LenProperties
    <3>2. places \in SUBSET (1..Len(lines)) /\ \A i \in places : lines[i] \in Lines
      BY <3>1
    <3>3. CommentsOf(lines) = Pick(lines, places)
      BY DEF CommentsOf
    <3> HIDE DEF places
    <3>4. /\ Pick(lines, places) \in Seq(Lines)
          /\ ToSet(Pick(lines, places)) = {lines[i] : i \in places}
          /\ \A x, y : Precedes(Pick(lines, places), x, y) <=>
                         \E i, j \in places : i < j /\ lines[i] = x /\ lines[j] = y
          /\ (\A i, j \in places : lines[i] = lines[j] => i = j) => Once(Pick(lines, places))
      BY <3>1, <3>2, PickKeeps
    <3> QED
      BY <3>3, <3>4
  <2> QED
    BY <2>1, <2>2
<1> HIDE DEF comments
<1>18. Parse(text) \in Documents
  BY <1>1, <1>4, <1>7, <1>16, <1>17 DEF Documents, Layouts, s
<1> QED
  BY <1>4, <1>10, <1>11, <1>16, <1>18 DEF Good, Sound, Entered

-----------------------------------------------------------------------------
(* Clean merges of documents that parsers have made.                        *)

\* What a good document is made of.
LEMMA GoodIs ==
  ASSUME NEW d, Good(d)
  PROVE  /\ Sound(d) /\ d.root \in Seq(Items) /\ KeysOnce(d.root)
         /\ d.layout \in Layouts /\ Entered(d.layout)
         /\ d.layout.lines \in Seq(Lines) /\ KeysOnce(d.layout.lines)
BY DEF Good, Sound, Documents, Layouts

\* Shared keys come in the order of the side that has moved them.
LEMMA CleanMoves ==
  ASSUME NEW b, NEW o, NEW t, Good(b), Good(o), Good(t), NEW c \in Merges(b, o, t), c # Clash,
         NEW x \in Names(b.root) \cap Names(o.root) \cap Names(t.root),
         NEW y \in Names(b.root) \cap Names(o.root) \cap Names(t.root),
         x \in Names(c.root), y \in Names(c.root)
  PROVE  Before(c, x, y) <=> MergeField(Before(b, x, y), Before(o, x, y), Before(t, x, y))
<1>1. \A d : Before(d, x, y) <=> Above(d.root, x, y)
  BY DEF Before, Above
<1>2. c.root = MergeRoots(b.root, o.root, t.root) /\ c.root # Clash
  BY MergesAre
<1>3. Above(c.root, x, y) <=>
        MergeField(Above(b.root, x, y), Above(o.root, x, y), Above(t.root, x, y))
  BY <1>2, MergeRootsIs, GoodIs
<1>4. \A d : Before(d, x, y) = Above(d.root, x, y)
  BY DEF Before, Above
<1> QED
  BY <1>3, <1>4

\* Two layouts that say the same of every line.
Alike(l, m) ==
  \/ l = Clash /\ m = Clash
  \/ /\ l # Clash /\ m # Clash /\ l.rest = m.rest
     /\ format \in Templates => l.lines = m.lines
     /\ format \notin Templates => \A k : Find(l.lines, k) = Find(m.lines, k)

\* Layouts merge the other way round to ones that say the same.
LEMMA SwapLayouts ==
  ASSUME NEW b \in Layouts, NEW o \in Layouts, NEW t \in Layouts,
         \A d \in {b, o, t} : Entered(d) /\ KeysOnce(d.lines),
         NEW l \in MergedLayouts(b, o, t)
  PROVE  \E m \in MergedLayouts(b, t, o) : Alike(l, m)
<1> USE DEF Alike
<1>1. \A d \in {b, o, t} : d.lines \in Seq(Lines) /\ d.rest \in Rests /\ d.comments \in Seq(Lines)
  BY DEF Layouts
<1>2. MergeField(b, o, t) = MergeField(b, t, o)
  BY SwapField
<1>3. CASE MergeField(b, o, t) # Clash
  BY <1>2, <1>3 DEF MergedLayouts
<1>4. CASE MergeField(b, o, t) = Clash
  <2> DEFINE rest == MergeField(b.rest, o.rest, t.rest)
             comments == MergeField(b.comments, o.comments, t.comments)
             Whole(lines) == IF Clash \in {lines, rest, comments} THEN Clash
                             ELSE [lines |-> lines, rest |-> rest, comments |-> comments]
  <2>1. rest = MergeField(b.rest, t.rest, o.rest) /\ comments = MergeField(b.comments, t.comments, o.comments)
    BY SwapField
  <2>2. rest \in Rests \cup {Clash} /\ comments \in Seq(Lines) \cup {Clash}
    <3>1. rest \in {o.rest, t.rest, Clash} /\ comments \in {o.comments, t.comments, Clash}
      BY DEF MergeField
    <3> HIDE DEF rest, comments
    <3> QED
      BY <1>1, <3>1
  <2>3. CASE format \in Templates
    <3>1. MergedLayouts(b, o, t) = {Whole(lines) : lines \in MergedTemplates(b.lines, o.lines, t.lines)}
      BY <1>4, <2>3 DEF MergedLayouts
    <3>2. MergedLayouts(b, t, o) = {Whole(lines) : lines \in MergedTemplates(b.lines, t.lines, o.lines)}
      <4>1. MergeField(b, t, o) = Clash
        BY <1>2, <1>4
      <4> QED
        BY <2>1, <2>3, <4>1 DEF MergedLayouts
    <3>3. MergedLayouts(b, o, t) = MergedLayouts(b, t, o)
      BY <3>1, <3>2, SwapTemplates
    <3> QED
      BY <2>3, <3>3
  <2>4. CASE format \notin Templates
    <3> DEFINE one == MergeItems(b.lines, o.lines, t.lines)
               other == MergeItems(b.lines, t.lines, o.lines)
    <3>1. MergedLayouts(b, o, t) = {Whole(one)}
      BY <1>4, <2>4 DEF MergedLayouts
    <3>2. MergedLayouts(b, t, o) = {Whole(other)}
      <4>1. MergeField(b, t, o) = Clash
        BY <1>2, <1>4
      <4> QED
        BY <2>1, <2>4, <4>1 DEF MergedLayouts
    <3>3. \A d \in {b, o, t} : d.lines \in Seq(Entries) /\ KeysOnce(d.lines)
      BY <2>4 DEF Entered
    <3>4. /\ one = Clash <=> other = Clash
          /\ one # Clash => \A k : Find(one, k) = Find(other, k)
      BY <3>3, Kinds, SwapItems
    <3>5. (one # Clash => one \in Seq(Lines)) /\ (other # Clash => other \in Seq(Lines))
      <4>1. Entries \subseteq Lines
        BY DEF Lines
      <4>2. (one # Clash => one \in Seq(Entries)) /\ (other # Clash => other \in Seq(Entries))
        BY <3>3, Kinds, MergeItemsIs
      <4> QED
        BY <4>1, <4>2, SeqMonotonic
    <3> HIDE DEF one, other, rest, comments
    <3>6. ASSUME NEW lines \in Seq(Lines), Clash \notin {lines, rest, comments}
          PROVE  Whole(lines) # Clash /\ Whole(lines).lines = lines /\ Whole(lines).rest = rest
      <4>1. Whole(lines) = [lines |-> lines, rest |-> rest, comments |-> comments]
        BY <3>6
      <4>2. Whole(lines) \in Layouts
        BY <2>2, <3>6, <4>1 DEF Layouts
      <4> QED
        BY <4>1, <4>2, MergeAssumption
    <3>7. CASE Clash \in {one, rest, comments}
      <4>1. Whole(one) = Clash /\ Whole(other) = Clash
        BY <3>4, <3>7
      <4> QED
        BY <3>1, <3>2, <4>1
    <3>8. CASE Clash \notin {one, rest, comments}
      <4>1. Clash \notin {other, rest, comments} /\ one \in Seq(Lines) /\ other \in Seq(Lines)
        BY <3>4, <3>5, <3>8
      <4>2. /\ Whole(one) # Clash /\ Whole(one).lines = one /\ Whole(one).rest = rest
            /\ Whole(other) # Clash /\ Whole(other).lines = other /\ Whole(other).rest = rest
        BY <3>6, <3>8, <4>1
      <4> HIDE DEF Whole
      <4> QED
        BY <2>4, <3>1, <3>2, <3>4, <3>8, <4>2
    <3> QED
      BY <3>1, <3>7, <3>8
  <2> QED
    BY <2>3, <2>4
<1> QED
  BY <1>3, <1>4

\* What of a merge does not depend on which side is ours.
Content(m) ==
  IF m = Clash THEN Clash
  ELSE [lines |-> ToSet(Generate(m).lines), rest |-> m.layout.rest]

\* It can be made in either clone.
LEMMA CleanSwaps ==
  ASSUME NEW b, NEW o, NEW t, Good(b), Good(o), Good(t), NEW c \in Merges(b, o, t)
  PROVE  \E d \in Merges(b, t, o) : Content(d) = Content(c)
<1> DEFINE root == MergeRoots(b.root, o.root, t.root)
           swapped == MergeRoots(b.root, t.root, o.root)
<1>1. /\ root = Clash <=> swapped = Clash
      /\ root # Clash => \A k : Find(root, k) = Find(swapped, k)
  BY GoodIs, SwapRoots
<1>2. PICK l \in MergedLayouts(b.layout, o.layout, t.layout) :
        c = IF root = Clash \/ l = Clash THEN Clash ELSE [root |-> root, layout |-> l]
  BY DEF Merges
<1>3. PICK m \in MergedLayouts(b.layout, t.layout, o.layout) : Alike(l, m)
  <2>1. \A e \in {b.layout, o.layout, t.layout} : e \in Layouts /\ Entered(e) /\ KeysOnce(e.lines)
    BY GoodIs
  <2>2. b.layout \in Layouts /\ o.layout \in Layouts /\ t.layout \in Layouts
    BY <2>1
  <2> QED
    BY <2>1, <2>2, SwapLayouts
<1> DEFINE d == IF swapped = Clash \/ m = Clash THEN Clash ELSE [root |-> swapped, layout |-> m]
<1>4. d \in Merges(b, t, o)
  BY DEF Merges
<1> HIDE DEF root, swapped
<1>5. CASE root = Clash \/ l = Clash
  <2>1. c = Clash /\ d = Clash
    BY <1>1, <1>2, <1>3, <1>5 DEF Alike
  <2> QED
    BY <1>4, <2>1
<1>6. CASE root # Clash /\ l # Clash
  <2>1. /\ c = [root |-> root, layout |-> l] /\ d = [root |-> swapped, layout |-> m]
        /\ \A k : Find(c.root, k) = Find(d.root, k)
        /\ c.layout.rest = d.layout.rest
        /\ format \in Templates => c.layout.lines = d.layout.lines
        /\ format \notin Templates => \A k : Find(c.layout.lines, k) = Find(d.layout.lines, k)
    BY <1>1, <1>2, <1>3, <1>6 DEF Alike
  <2>2. c # Clash /\ d # Clash
    <3>1. root \in Seq(Items) /\ swapped \in Seq(Items)
      BY <1>1, <1>6, GoodIs, MergeRootsIs DEF root, swapped
    <3>2. l \in Layouts /\ m \in Layouts
      <4>1. m # Clash
        BY <1>3, <1>6 DEF Alike
      <4> QED
        BY <1>6, <4>1, GoodIs, LayoutIs
    <3>3. c \in Documents /\ d \in Documents
      BY <2>1, <3>1, <3>2 DEF Documents
    <3> QED
      BY <3>3, MergeAssumption
  <2> HIDE DEF d
  <2>3. Sound(c) /\ Sound(d)
    BY <1>4, <2>2, MergesAre
  <2>4. CASE format \in Templates
    <3>1. Generate(c).lines = Generate(d).lines
      <4> DEFINE Line(line, item) ==
                   [key |-> line.key, value |-> IF item = NoItem THEN NoItem ELSE item.value,
                    style |-> line.style]
      <4>1. \A e : Generate(e).lines = [i \in DOMAIN e.layout.lines |->
                     Line(e.layout.lines[i], Find(e.root, e.layout.lines[i].key))]
        BY <2>4 DEF Generate
      <4>2. c.layout.lines = d.layout.lines /\ \A k : Find(c.root, k) = Find(d.root, k)
        BY <2>1, <2>4
      <4>3. \A i : Line(c.layout.lines[i], Find(c.root, c.layout.lines[i].key)) =
                   Line(d.layout.lines[i], Find(d.root, d.layout.lines[i].key))
        <5> HIDE DEF Line
        <5> QED
          BY ONLY <4>2
      <4> HIDE DEF Line
      <4>4. Generate(c).lines = [i \in DOMAIN c.layout.lines |->
                  Line(d.layout.lines[i], Find(d.root, d.layout.lines[i].key))]
        BY ONLY <4>1, <4>3
      <4> QED
        BY ONLY <4>1, <4>2, <4>4
    <3> QED
      BY <1>4, <2>1, <2>2, <3>1 DEF Content
  <2>5. CASE format \notin Templates
    <3>1. \A e \in {c, d} : /\ ToSet(Generate(e).lines) = {Row(e, k) : k \in Names(e.root)}
                            /\ e.root \in Seq(Items)
      <4>1. c.root \in Seq(Items) /\ d.root \in Seq(Items)
        BY <2>3 DEF Sound, Documents
      <4>2. ToSet(Generate(c).lines) = {Row(c, k) : k \in Names(c.root)}
        BY <2>3, <2>5, ListedIs
      <4>3. ToSet(Generate(d).lines) = {Row(d, k) : k \in Names(d.root)}
        BY <2>3, <2>5, ListedIs
      <4> QED
        BY <4>1, <4>2, <4>3
    <3>2. Names(c.root) = Names(d.root)
      <4>1. \A e \in {c, d} : \A k : Find(e.root, k) # NoItem <=> k \in Names(e.root)
        BY <3>1, Kinds, KindIs
      <4> QED
        BY <2>1, <4>1
    <3>3. \A k : Row(c, k) = Row(d, k)
      BY <2>1, <2>5, <3>2 DEF Row, StyleOf
    <3>4. ToSet(Generate(c).lines) = ToSet(Generate(d).lines)
      BY <3>1, <3>2, <3>3
    <3> QED
      BY <1>4, <2>1, <2>2, <3>4 DEF Content
  <2> QED
    BY <2>4, <2>5
<1> QED
  BY <1>5, <1>6

\* Rows are alike if and only if values and entries are.
LEMMA RowsAre ==
  ASSUME NEW b, NEW o, Sound(b), Sound(o), NEW k
  PROVE  Row(b, k) = Row(o, k) <=>
           /\ Find(b.root, k) = Find(o.root, k)
           /\ StyleOf(b.layout.lines, k) = StyleOf(o.layout.lines, k)
           /\ Find(b.layout.lines, k) = Find(o.layout.lines, k)
<1>1. \A d \in {b, o} :
        /\ d.root \in Seq(Items) /\ d.layout.lines \in Seq(Lines)
        /\ Names(d.layout.lines) = IF format = "json" THEN {} ELSE Names(d.root)
  BY DEF Sound, Documents, Layouts
<1>2. ASSUME NEW d \in {b, o}
      PROVE  /\ k \notin Names(d.root) => /\ Row(d, k) = NoItem /\ Find(d.root, k) = NoItem
                                          /\ Find(d.layout.lines, k) = NoItem
             /\ k \in Names(d.root) =>
                  /\ Row(d, k) = [key |-> k, value |-> Find(d.root, k).value,
                                  style |-> StyleOf(d.layout.lines, k)]
                  /\ Row(d, k) \in Assignments
                  /\ Find(d.root, k) = [key |-> k, value |-> Find(d.root, k).value]
                  /\ format # "json" => Find(d.layout.lines, k) =
                                          [key |-> k, style |-> StyleOf(d.layout.lines, k)]
                  /\ format = "json" => Find(d.layout.lines, k) = NoItem
  <2>1. /\ Find(d.root, k) \in Items \cup {NoItem}
        /\ Find(d.root, k) # NoItem <=> k \in Names(d.root)
        /\ k \in Names(d.root) => Find(d.root, k).key = k
        /\ Names(d.root) \subseteq Keys
    BY <1>1, Kinds, KindIs
  <2>2. /\ Find(d.layout.lines, k) # NoItem <=> k \in Names(d.layout.lines)
        /\ k \in Names(d.layout.lines) =>
             Find(d.layout.lines, k) \in Lines /\ Find(d.layout.lines, k).key = k
    BY <1>1, LinesAre
  <2>3. CASE k \notin Names(d.root)
    <3>1. Find(d.root, k) = NoItem /\ Find(d.layout.lines, k) = NoItem
      BY <1>1, <2>1, <2>2, <2>3
    <3> QED
      BY <2>3, <3>1 DEF Row
  <2>4. CASE k \in Names(d.root)
    <3>1. Row(d, k) = [key |-> k, value |-> Find(d.root, k).value,
                       style |-> StyleOf(d.layout.lines, k)]
      BY <2>4 DEF Row
    <3>2. k \in Keys /\ Find(d.root, k) \in Items /\ Find(d.root, k).key = k
      BY <2>1, <2>4
    <3>3. Find(d.root, k) = [key |-> k, value |-> Find(d.root, k).value]
          /\ Find(d.root, k).value \in Vals
      BY <3>2 DEF Items
    <3>4. format # "json" => /\ Find(d.layout.lines, k) \in Lines /\ Find(d.layout.lines, k).key = k
                             /\ Find(d.layout.lines, k) # NoItem
      BY <1>1, <2>2, <2>4
    <3>5. format # "json" => Find(d.layout.lines, k) =
                               [key |-> k, style |-> StyleOf(d.layout.lines, k)]
      BY <3>4 DEF StyleOf, Lines, Entries
    <3>6. format = "json" => Find(d.layout.lines, k) = NoItem
      BY <1>1, <2>2
    <3>7. StyleOf(d.layout.lines, k) \in Styles
      <4>1. CASE format = "json"
        BY <3>6, <4>1, MergeAssumption DEF StyleOf
      <4>2. CASE format # "json"
        BY <3>4, <4>2 DEF StyleOf, Lines, Entries
      <4> QED
        BY <4>1, <4>2
    <3>8. Row(d, k) \in Assignments
      BY <3>1, <3>2, <3>3, <3>7 DEF Assignments
    <3> QED
      BY <2>4, <3>1, <3>3, <3>5, <3>6, <3>8
  <2> QED
    BY <2>3, <2>4
<1>3. NoItem \notin Assignments
  BY MergeAssumption DEF Assignments, TextLines
<1>4. CASE k \in Names(b.root) /\ k \in Names(o.root)
  <2>1. Row(b, k) = Row(o, k) <=>
          /\ Find(b.root, k).value = Find(o.root, k).value
          /\ StyleOf(b.layout.lines, k) = StyleOf(o.layout.lines, k)
    BY <1>2, <1>4
  <2>2. Find(b.root, k).value = Find(o.root, k).value <=> Find(b.root, k) = Find(o.root, k)
    BY <1>2, <1>4
  <2>3. StyleOf(b.layout.lines, k) = StyleOf(o.layout.lines, k) =>
          Find(b.layout.lines, k) = Find(o.layout.lines, k)
    BY <1>2, <1>4
  <2> QED
    BY <2>1, <2>2, <2>3
<1>5. CASE k \notin Names(b.root) /\ k \notin Names(o.root)
  BY <1>2, <1>5 DEF StyleOf
<1>6. CASE k \in Names(b.root) /\ k \notin Names(o.root)
  <2>1. Row(b, k) # Row(o, k)
    BY <1>2, <1>3, <1>6
  <2>2. Find(b.root, k) # Find(o.root, k)
    BY <1>1, <1>6, Kinds, KindIs
  <2> QED
    BY <2>1, <2>2
<1>7. CASE k \notin Names(b.root) /\ k \in Names(o.root)
  <2>1. Row(b, k) # Row(o, k)
    BY <1>2, <1>3, <1>7
  <2>2. Find(b.root, k) # Find(o.root, k)
    BY <1>1, <1>7, Kinds, KindIs
  <2> QED
    BY <2>1, <2>2
<1> QED
  BY <1>4, <1>5, <1>6, <1>7

\* A clean merge takes from either side what the other has left alone.
LEMMA CleanTakes ==
  ASSUME NEW b, NEW o, NEW t, Good(b), Good(o), Good(t), NEW c \in Merges(b, o, t), c # Clash,
         KeysOnce(Generate(c).lines), NEW k
  PROVE  /\ LineOf(o, k) = LineOf(b, k) => LineOf(c, k) = LineOf(t, k)
         /\ LineOf(t, k) = LineOf(b, k) => LineOf(c, k) = LineOf(o, k)
<1>1. /\ c.root = MergeRoots(b.root, o.root, t.root) /\ c.root # Clash
      /\ c.layout \in MergedLayouts(b.layout, o.layout, t.layout) /\ c.layout # Clash
      /\ Sound(c)
  BY MergesAre
<1>2. \A d \in {b, o, t} : /\ Sound(d) /\ d.root \in Seq(Items) /\ KeysOnce(d.root)
                           /\ d.layout \in Layouts /\ Entered(d.layout) /\ KeysOnce(d.layout.lines)
  BY GoodIs
<1>3. \A d \in {b, o, t} : LineOf(d, k) = Row(d, k)
  BY <1>2, GenerateIs DEF LineOf, Readable
<1>4. LineOf(c, k) = Row(c, k)
  BY <1>1, GenerateIs DEF LineOf
<1>5. Takes(c.root, b.root, o.root, t.root) /\ Takes(c.root, b.root, t.root, o.root)
  <2>1. /\ c.root \in Seq(Items)
        /\ \A j : /\ Field(b.root, o.root, t.root, j) # Clash
                  /\ Find(c.root, j) = Field(b.root, o.root, t.root, j)
    BY <1>1, <1>2, MergeRootsIs
  <2> QED
    BY <1>2, <2>1, Kinds, ItemsTake
<1>6. KeysOnce(c.layout.lines)
  <2>1. CASE format \in Templates
    BY <1>1, <2>1, FilledIs
  <2>2. CASE format \notin Templates
    BY <1>1, <2>2 DEF Sound, Entered
  <2> QED
    BY <2>1, <2>2
<1>7. /\ Takes(c.layout.lines, b.layout.lines, o.layout.lines, t.layout.lines)
      /\ Takes(c.layout.lines, b.layout.lines, t.layout.lines, o.layout.lines)
  <2>1. b.layout \in Layouts /\ o.layout \in Layouts /\ t.layout \in Layouts
    BY <1>2
  <2>2. \A e \in {b.layout, o.layout, t.layout} : Entered(e) /\ KeysOnce(e.lines)
    BY <1>2
  <2> QED
    BY <1>1, <1>6, <2>1, <2>2, LayoutIs
<1>8. ASSUME LineOf(o, k) = LineOf(b, k) PROVE LineOf(c, k) = LineOf(t, k)
  <2>1. Find(b.root, k) = Find(o.root, k) /\ Find(b.layout.lines, k) = Find(o.layout.lines, k)
    <3>1. Sound(b) /\ Sound(o)
      BY <1>2
    <3>2. Row(b, k) = Row(o, k)
      BY <1>3, <1>8
    <3> QED
      BY <3>1, <3>2, RowsAre
  <2>2. Find(c.root, k) = Find(t.root, k) /\ Find(c.layout.lines, k) = Find(t.layout.lines, k)
    BY <1>5, <1>7, <2>1 DEF Takes
  <2>3. StyleOf(c.layout.lines, k) = StyleOf(t.layout.lines, k)
    BY <2>2 DEF StyleOf
  <2>4. Row(c, k) = Row(t, k)
    BY <1>1, <1>2, <2>2, <2>3, RowsAre
  <2> QED
    BY <1>3, <1>4, <2>4
<1>9. ASSUME LineOf(t, k) = LineOf(b, k) PROVE LineOf(c, k) = LineOf(o, k)
  <2>1. Find(b.root, k) = Find(t.root, k) /\ Find(b.layout.lines, k) = Find(t.layout.lines, k)
    <3>1. Sound(b) /\ Sound(t)
      BY <1>2
    <3>2. Row(b, k) = Row(t, k)
      BY <1>3, <1>9
    <3> QED
      BY <3>1, <3>2, RowsAre
  <2>2. Find(c.root, k) = Find(o.root, k) /\ Find(c.layout.lines, k) = Find(o.layout.lines, k)
    BY <1>5, <1>7, <2>1 DEF Takes
  <2>3. StyleOf(c.layout.lines, k) = StyleOf(o.layout.lines, k)
    BY <2>2 DEF StyleOf
  <2>4. Row(c, k) = Row(o, k)
    BY <1>1, <1>2, <2>2, <2>3, RowsAre
  <2> QED
    BY <1>3, <1>4, <2>4
<1> QED
  BY <1>8, <1>9

\* A comment comes as often in the text as in the template.
LEMMA CommentsAre ==
  ASSUME NEW d, Sound(d), format \in Templates, NEW line \in CommentLines
  PROVE  LET z == [key |-> NoKey, style |-> line.style]
         IN  /\ Copies(d, line) = Count(d.layout.lines, z)
             /\ z \in ToSet(d.layout.lines) => line \in ToSet(Generate(d).lines)
<1> DEFINE g == Generate(d).lines
           lines == d.layout.lines
           z == [key |-> NoKey, style |-> line.style]
<1>1. /\ DOMAIN g = DOMAIN lines
      /\ \A i \in DOMAIN g :
           g[i] = [key |-> lines[i].key,
                   value |-> IF Find(d.root, lines[i].key) = NoItem THEN NoItem
                             ELSE Find(d.root, lines[i].key).value,
                   style |-> lines[i].style]
  BY FilledIs
<1>2. line = [key |-> NoKey, value |-> NoItem, style |-> line.style]
  BY DEF CommentLines
<1>3. Find(d.root, NoKey) = NoItem
  BY FindIs DEF Names
<1>4. \A i \in DOMAIN lines : lines[i] = [key |-> lines[i].key, style |-> lines[i].style]
  <2>1. lines \in Seq(Lines)
    BY DEF Sound, Documents, Layouts
  <2>2. \A i \in DOMAIN lines : lines[i] \in Lines
    BY <2>1
  <2> QED
    BY <2>2 DEF Lines, Entries
<1> HIDE DEF g, lines
<1>5. ASSUME NEW i \in DOMAIN g PROVE g[i] = line <=> lines[i] = z
  <2>1. ASSUME g[i] = line PROVE lines[i] = z
    <3>1. lines[i].key = NoKey /\ lines[i].style = line.style
      BY <1>1, <1>2, <2>1
    <3> QED
      BY <1>1, <1>4, <3>1
  <2>2. ASSUME lines[i] = z PROVE g[i] = line
    <3>1. lines[i].key = NoKey /\ lines[i].style = line.style
      BY <2>2
    <3> QED
      BY <1>1, <1>2, <1>3, <3>1
  <2> QED
    BY <2>1, <2>2
<1>6. {i \in DOMAIN g : g[i] = line} = {i \in DOMAIN lines : lines[i] = z}
  BY <1>1, <1>5
<1> QED
  BY <1>1, <1>5, <1>6 DEF Copies, Count, ToSet, g, lines

\* A clean merge has the comments that either side has added.
LEMMA CleanComments ==
  ASSUME NEW b, NEW o, NEW t, Good(b), Good(o), Good(t), NEW c \in Merges(b, o, t), c # Clash,
         NEW side \in {o, t}, NEW line \in Comments(side), Copies(side, line) > Copies(b, line)
  PROVE  line \in ToSet(Generate(c).lines)
<1>1. Sound(side) /\ Sound(b) /\ Sound(c)
  BY MergesAre, GoodIs
<1>2. format \in Templates
  <2> SUFFICES ASSUME format \notin Templates PROVE FALSE
    OBVIOUS
  <2>1. Keyed(Generate(side).lines) = DOMAIN Generate(side).lines
    BY <1>1, ListedIs
  <2> QED
    BY <2>1 DEF Comments, Keyed, ToSet
<1>3. line \in CommentLines
  <2>1. Generate(side).lines \in Seq(TextLines)
    BY <1>1, <1>2, FilledIs
  <2>2. PICK i \in DOMAIN Generate(side).lines : Generate(side).lines[i] = line /\ line.key = NoKey
    BY DEF Comments, ToSet
  <2> QED
    BY <2>1, <2>2, TextsAre
<1> DEFINE z == [key |-> NoKey, style |-> line.style]
<1>4. Count(side.layout.lines, z) > Count(b.layout.lines, z)
  BY <1>1, <1>2, <1>3, CommentsAre
<1> HIDE DEF z
<1>5. z \in ToSet(c.layout.lines)
  <2>1. c.layout \in MergedLayouts(b.layout, o.layout, t.layout) /\ c.layout # Clash
    BY MergesAre
  <2>2. \A e \in {b.layout, o.layout, t.layout} : e \in Layouts /\ Entered(e) /\ KeysOnce(e.lines)
    BY GoodIs
  <2>3. b.layout \in Layouts /\ o.layout \in Layouts /\ t.layout \in Layouts
    BY <2>2
  <2>4. Adds(c.layout.lines, b.layout.lines, o.layout.lines, t.layout.lines)
    BY <1>2, <2>1, <2>2, <2>3, LayoutIs
  <2> QED
    BY <1>4, <2>4 DEF Adds
<1> QED
  BY <1>1, <1>2, <1>3, <1>5, CommentsAre DEF z

-----------------------------------------------------------------------------
(* Edits.                                                                   *)

\* Lines, each from a place of its own or, one of them, new.
Rearranged(s, e, n, from) ==
  /\ n \in Nat /\ e \in [1..n -> TextLines] /\ from \in [1..n -> 0..Len(s)]
  /\ \A i, j \in 1..n : from[i] = from[j] => i = j
  /\ \A i \in 1..n : IF from[i] = 0 THEN e[i].key \notin Names(s) ELSE e[i].key = s[from[i]].key

\* They have every key once, like those they come from.
LEMMA RearrangedIs ==
  ASSUME NEW s \in Seq(TextLines), KeysOnce(s), NEW e, NEW n, NEW from, Rearranged(s, e, n, from)
  PROVE  /\ e \in Seq(TextLines) /\ KeysOnce(e)
         /\ Keyed(s) = DOMAIN s /\ (\A i \in 1..n : from[i] = 0 => e[i].key # NoKey) =>
              Keyed(e) = DOMAIN e
<1> USE DEF Rearranged
<1>1. e \in Seq(TextLines) /\ DOMAIN e = 1..n
  BY SeqDef
<1>2. Len(s) \in Nat /\ DOMAIN s = 1..Len(s)
  BY LenProperties
<1>3. ASSUME NEW i \in 1..n, from[i] # 0
      PROVE  from[i] \in DOMAIN s /\ e[i].key = s[from[i]].key
  BY <1>2, <1>3
<1>4. ASSUME NEW i \in Keyed(e), NEW j \in Keyed(e), e[i].key = e[j].key PROVE i = j
  <2>1. i \in 1..n /\ j \in 1..n /\ e[i].key # NoKey /\ e[j].key # NoKey
    BY <1>1 DEF Keyed
  <2>2. ASSUME NEW l \in 1..n, e[l].key # NoKey, from[l] # 0
        PROVE  from[l] \in Keyed(s) /\ e[l].key = s[from[l]].key /\ e[l].key \in Names(s)
    <3>1. from[l] \in DOMAIN s /\ e[l].key = s[from[l]].key
      BY <1>3, <2>2
    <3> QED
      BY <2>2, <3>1 DEF Keyed, Names
  <2>3. CASE from[i] = 0 \/ from[j] = 0
    <3>1. from[i] = 0 /\ from[j] = 0
      BY <1>4, <2>1, <2>2, <2>3
    <3> QED
      BY <2>1, <3>1
  <2>4. CASE from[i] # 0 /\ from[j] # 0
    <3>1. from[i] = from[j]
      BY <1>4, <2>1, <2>2, <2>4 DEF KeysOnce
    <3> QED
      BY <2>1, <3>1
  <2> QED
    BY <2>3, <2>4
<1>5. KeysOnce(e)
  BY <1>4 DEF KeysOnce
<1>6. ASSUME Keyed(s) = DOMAIN s, \A i \in 1..n : from[i] = 0 => e[i].key # NoKey
      PROVE  Keyed(e) = DOMAIN e
  <2>1. ASSUME NEW i \in 1..n PROVE e[i].key # NoKey
    <3>1. CASE from[i] = 0
      BY <1>6, <3>1
    <3>2. CASE from[i] # 0
      BY <1>3, <1>6, <3>2 DEF Keyed
    <3> QED
      BY <3>1, <3>2
  <2> QED
    BY <1>1, <2>1 DEF Keyed
<1> QED
  BY <1>1, <1>5, <1>6

\* Lines that can still be read, if those could that they come from.
Keeps(s, e) ==
  /\ e \in Seq(TextLines) /\ KeysOnce(e)
  /\ format \in Templates \/ Keyed(s) = DOMAIN s => format \in Templates \/ Keyed(e) = DOMAIN e

\* A line that is written otherwise,
LEMMA ReplaceKeeps ==
  ASSUME NEW s \in Seq(TextLines), KeysOnce(s), NEW i \in DOMAIN s, NEW line \in Replaced(s[i])
  PROVE  Keeps(s, ReplaceAt(s, i, line))
<1>1. Len(s) \in Nat /\ DOMAIN s = 1..Len(s) /\ s \in [1..Len(s) -> TextLines]
  BY LenProperties
<1>2. s[i] \in Assignments \/ s[i] \in CommentLines
  BY TextsAre
<1>3. line \in TextLines /\ line.key = s[i].key
  <2>1. CASE line \in {[s[i] EXCEPT !.style = x] : x \in Styles}
    BY <1>2, <2>1 DEF Assignments, CommentLines, TextLines
  <2>2. CASE s[i].key # NoKey /\ line \in {[s[i] EXCEPT !.value = v] : v \in Vals}
    <3>1. s[i] \in Assignments
      BY <1>2, <2>2 DEF CommentLines
    <3> QED
      BY <2>2, <3>1 DEF Assignments, TextLines
  <2> QED
    BY <2>1, <2>2 DEF Replaced
<1> DEFINE e == [s EXCEPT ![i] = line]
           from == [j \in 1..Len(s) |-> j]
<1>4. e \in [1..Len(s) -> TextLines] /\ \A j \in 1..Len(s) : e[j].key = s[j].key
  BY <1>1, <1>3
<1>5. /\ from \in [1..Len(s) -> 0..Len(s)] /\ \A j \in 1..Len(s) : from[j] = j /\ from[j] # 0
  BY <1>1
<1> HIDE DEF e, from
<1>6. e \in Seq(TextLines) /\ KeysOnce(e) /\ (Keyed(s) = DOMAIN s => Keyed(e) = DOMAIN e)
  <2>1. Rearranged(s, e, Len(s), from)
    BY <1>1, <1>4, <1>5 DEF Rearranged
  <2> QED
    BY <1>5, <2>1, RearrangedIs
<1> QED
  BY <1>6 DEF Keeps, ReplaceAt, e

\* one that is removed,
LEMMA RemoveKeeps ==
  ASSUME NEW s \in Seq(TextLines), KeysOnce(s), NEW i \in DOMAIN s
  PROVE  Keeps(s, RemoveAt(s, i))
<1>1. Len(s) \in Nat /\ DOMAIN s = 1..Len(s) /\ i \in 1..Len(s) /\ \A j \in 1..Len(s) : s[j] \in TextLines
  BY LenProperties
<1> DEFINE above == SubSeq(s, 1, i - 1)
           below == SubSeq(s, i + 1, Len(s))
           e == above \o below
           n == Len(s) - 1
           from == [j \in 1..n |-> IF j < i THEN j ELSE j + 1]
<1>2. /\ above \in Seq(TextLines) /\ Len(above) = i - 1
      /\ \A j \in 1..i - 1 : above[j] = s[j]
  BY <1>1, SubSeqProperties
<1>3. /\ below \in Seq(TextLines) /\ Len(below) = Len(s) - i
      /\ \A j \in 1..Len(s) - i : below[j] = s[i + j]
  <2>1. /\ below \in Seq(TextLines) /\ Len(below) = IF i + 1 <= Len(s) THEN Len(s) - (i + 1) + 1 ELSE 0
        /\ \A j \in 1..(Len(s) - (i + 1) + 1) : below[j] = s[(i + 1) + j - 1]
    BY <1>1, SubSeqProperties
  <2> HIDE DEF below
  <2>2. Len(below) = Len(s) - i
    BY <1>1, <2>1
  <2>3. ASSUME NEW j \in 1..Len(s) - i PROVE below[j] = s[i + j]
    <3>1. j \in 1..(Len(s) - (i + 1) + 1) /\ (i + 1) + j - 1 = i + j
      BY <1>1
    <3> QED
      BY <2>1, <3>1
  <2> QED
    BY <2>1, <2>2, <2>3
<1> HIDE DEF above, below
<1>4. /\ e \in Seq(TextLines) /\ Len(e) = n
      /\ \A j \in 1..n : e[j] = IF j < i THEN s[j] ELSE s[j + 1]
  <2>1. /\ e \in Seq(TextLines) /\ Len(e) = Len(above) + Len(below)
        /\ \A j \in 1..Len(above) + Len(below) :
             e[j] = IF j <= Len(above) THEN above[j] ELSE below[j - Len(above)]
    BY <1>2, <1>3, ConcatProperties
  <2> HIDE DEF e
  <2>2. Len(e) = n
    BY <1>1, <1>2, <1>3, <2>1
  <2>3. ASSUME NEW j \in 1..n PROVE e[j] = IF j < i THEN s[j] ELSE s[j + 1]
    <3>1. CASE j < i
      BY <1>1, <1>2, <1>3, <2>1, <3>1
    <3>2. CASE ~(j < i)
      <4>1. e[j] = below[j - (i - 1)]
        BY <1>1, <1>2, <1>3, <2>1, <3>2
      <4>2. j - (i - 1) \in 1..Len(s) - i /\ i + (j - (i - 1)) = j + 1
        BY <1>1, <3>2
      <4> QED
        BY <1>3, <3>2, <4>1, <4>2
    <3> QED
      BY <3>1, <3>2
  <2> QED
    BY <2>1, <2>2, <2>3
<1>5. /\ n \in Nat /\ from \in [1..n -> 0..Len(s)]
      /\ \A j \in 1..n : from[j] = (IF j < i THEN j ELSE j + 1) /\ from[j] # 0
  BY <1>1
<1> HIDE DEF e, n, from
<1>6. e \in [1..n -> TextLines] /\ \A j \in 1..n : e[j].key = s[from[j]].key
  BY <1>4, <1>5
<1>7. ASSUME NEW j \in 1..n, NEW k \in 1..n, from[j] = from[k] PROVE j = k
  <2>1. from[j] = (IF j < i THEN j ELSE j + 1) /\ from[k] = IF k < i THEN k ELSE k + 1
    BY <1>5
  <2>2. i \in Nat /\ j \in Nat /\ k \in Nat
    BY <1>1, <1>5
  <2> QED
    <3>1. (IF j < i THEN j ELSE j + 1) = (IF k < i THEN k ELSE k + 1)
      BY <1>7, <2>1
    <3> QED
      BY ONLY <2>2, <3>1
<1>8. e \in Seq(TextLines) /\ KeysOnce(e) /\ (Keyed(s) = DOMAIN s => Keyed(e) = DOMAIN e)
  <2>1. Rearranged(s, e, n, from)
    BY <1>5, <1>6, <1>7 DEF Rearranged
  <2> QED
    BY <1>5, <2>1, RearrangedIs
<1> QED
  BY <1>8 DEF Keeps, RemoveAt, e, above, below

\* one that is new,
LEMMA InsertKeeps ==
  ASSUME NEW s \in Seq(TextLines), KeysOnce(s), NEW i \in 1..Len(s) + 1, NEW line \in NewLines(s)
  PROVE  Keeps(s, InsertAt(s, i, line))
<1>1. Len(s) \in Nat /\ DOMAIN s = 1..Len(s) /\ \A j \in 1..Len(s) : s[j] \in TextLines
  BY LenProperties
<1>2. /\ line \in TextLines /\ line.key \notin Names(s)
      /\ format \in Templates \/ line.key # NoKey
  <2>1. DefaultStyle \in Styles /\ NoKey \notin Keys
    BY MergeAssumption
  <2>2. NoKey \notin Names(s)
    BY DEF Names
  <2>3. CASE line \in [key : Keys \ Names(s), value : Vals, style : {DefaultStyle}]
    BY <2>1, <2>3 DEF TextLines
  <2>4. CASE format \in Templates /\ line \in [key : {NoKey}, value : {NoItem}, style : {DefaultStyle}]
    BY <2>1, <2>2, <2>4 DEF TextLines
  <2> QED
    BY <2>3, <2>4 DEF NewLines
<1> DEFINE above == SubSeq(s, 1, i - 1)
           below == SubSeq(s, i, Len(s))
           upper == above \o <<line>>
           e == upper \o below
           n == Len(s) + 1
           from == [j \in 1..n |-> IF j < i THEN j ELSE IF j = i THEN 0 ELSE j - 1]
<1>3. /\ above \in Seq(TextLines) /\ Len(above) = i - 1
      /\ \A j \in 1..i - 1 : above[j] = s[j]
  <2>1. /\ above \in Seq(TextLines) /\ Len(above) = IF 1 <= i - 1 THEN (i - 1) - 1 + 1 ELSE 0
        /\ \A j \in 1..((i - 1) - 1 + 1) : above[j] = s[1 + j - 1]
    BY <1>1, SubSeqProperties
  <2> HIDE DEF above
  <2> QED
    BY <1>1, <2>1
<1>4. /\ below \in Seq(TextLines) /\ Len(below) = Len(s) - i + 1
      /\ \A j \in 1..Len(s) - i + 1 : below[j] = s[i + j - 1]
  <2>1. /\ below \in Seq(TextLines) /\ Len(below) = IF i <= Len(s) THEN Len(s) - i + 1 ELSE 0
        /\ \A j \in 1..Len(s) - i + 1 : below[j] = s[i + j - 1]
    BY <1>1, SubSeqProperties
  <2> HIDE DEF below
  <2> QED
    BY <1>1, <2>1
<1> HIDE DEF above, below
<1>5. /\ upper \in Seq(TextLines) /\ Len(upper) = i
      /\ \A j \in 1..i : upper[j] = IF j < i THEN s[j] ELSE line
  <2>1. <<line>> \in Seq(TextLines) /\ Len(<<line>>) = 1 /\ <<line>>[1] = line
    BY <1>2
  <2>2. /\ upper \in Seq(TextLines) /\ Len(upper) = Len(above) + Len(<<line>>)
        /\ \A j \in 1..Len(above) + Len(<<line>>) :
             upper[j] = IF j <= Len(above) THEN above[j] ELSE <<line>>[j - Len(above)]
    BY <1>3, <2>1, ConcatProperties
  <2> HIDE DEF upper
  <2>3. ASSUME NEW j \in 1..i PROVE upper[j] = IF j < i THEN s[j] ELSE line
    <3>1. CASE j < i
      BY <1>1, <1>3, <2>1, <2>2, <3>1
    <3>2. CASE j = i
      <4>1. upper[j] = <<line>>[j - (i - 1)] /\ j - (i - 1) = 1
        BY <1>1, <1>3, <2>1, <2>2, <3>2
      <4> QED
        BY <2>1, <3>2, <4>1
    <3> QED
      BY <3>1, <3>2
  <2> QED
    BY <1>1, <1>3, <2>1, <2>2, <2>3
<1> HIDE DEF upper
<1>6. /\ e \in Seq(TextLines) /\ Len(e) = n
      /\ \A j \in 1..n : e[j] = IF j < i THEN s[j] ELSE IF j = i THEN line ELSE s[j - 1]
  <2>1. /\ e \in Seq(TextLines) /\ Len(e) = Len(upper) + Len(below)
        /\ \A j \in 1..Len(upper) + Len(below) :
             e[j] = IF j <= Len(upper) THEN upper[j] ELSE below[j - Len(upper)]
    BY <1>4, <1>5, ConcatProperties
  <2> HIDE DEF e
  <2>2. Len(e) = n
    BY <1>1, <1>4, <1>5, <2>1
  <2>3. ASSUME NEW j \in 1..n
        PROVE  e[j] = IF j < i THEN s[j] ELSE IF j = i THEN line ELSE s[j - 1]
    <3>1. CASE j <= i
      BY <1>1, <1>4, <1>5, <2>1, <3>1
    <3>2. CASE ~(j <= i)
      <4>1. e[j] = below[j - i]
        BY <1>1, <1>4, <1>5, <2>1, <3>2
      <4>2. j - i \in 1..Len(s) - i + 1 /\ i + (j - i) - 1 = j - 1
        BY <1>1, <3>2
      <4> QED
        BY <1>4, <3>2, <4>1, <4>2
    <3> QED
      BY <3>1, <3>2
  <2> QED
    BY <2>1, <2>2, <2>3
<1>7. /\ n \in Nat /\ from \in [1..n -> 0..Len(s)]
      /\ \A j \in 1..n : from[j] = IF j < i THEN j ELSE IF j = i THEN 0 ELSE j - 1
  BY <1>1
<1> HIDE DEF e, n, from
<1>8. e \in [1..n -> TextLines]
  BY <1>6
<1>9. \A j \in 1..n : IF from[j] = 0 THEN e[j] = line ELSE e[j] = s[from[j]]
  BY <1>1, <1>6, <1>7 DEF n
<1>10. \A j, k \in 1..n : from[j] = from[k] => j = k
  BY <1>1, <1>7
<1>11. \A j \in 1..n : IF from[j] = 0 THEN e[j].key \notin Names(s) ELSE e[j].key = s[from[j]].key
  BY <1>2, <1>9
<1>12. /\ e \in Seq(TextLines) /\ KeysOnce(e)
       /\ Keyed(s) = DOMAIN s /\ (\A j \in 1..n : from[j] = 0 => e[j].key # NoKey) =>
            Keyed(e) = DOMAIN e
  <2>1. Rearranged(s, e, n, from)
    BY <1>7, <1>8, <1>10, <1>11 DEF Rearranged
  <2> QED
    BY <2>1, RearrangedIs
<1>13. format \in Templates \/ \A j \in 1..n : from[j] = 0 => e[j].key # NoKey
  BY <1>2, <1>9
<1> QED
  BY <1>12, <1>13 DEF Keeps, InsertAt, e, upper, above, below

\* and two that are swapped leave the rest as it was.
LEMMA SwapKeeps ==
  ASSUME NEW s \in Seq(TextLines), KeysOnce(s), NEW i \in 1..Len(s) - 1
  PROVE  Keeps(s, [s EXCEPT ![i] = s[i + 1], ![i + 1] = s[i]])
<1>1. Len(s) \in Nat /\ DOMAIN s = 1..Len(s) /\ \A j \in 1..Len(s) : s[j] \in TextLines
  BY LenProperties
<1>2. i \in 1..Len(s) /\ i + 1 \in 1..Len(s)
  BY <1>1
<1> DEFINE e == [s EXCEPT ![i] = s[i + 1], ![i + 1] = s[i]]
           from == [j \in 1..Len(s) |-> IF j = i THEN i + 1 ELSE IF j = i + 1 THEN i ELSE j]
<1>3. /\ from \in [1..Len(s) -> 0..Len(s)]
      /\ \A j \in 1..Len(s) : /\ from[j] = IF j = i THEN i + 1 ELSE IF j = i + 1 THEN i ELSE j
                              /\ from[j] \in 1..Len(s) /\ from[j] # 0
  BY <1>1, <1>2
<1>4. DOMAIN e = 1..Len(s) /\ e = [j \in 1..Len(s) |-> e[j]]
  BY <1>1
<1>5. ASSUME NEW j \in 1..Len(s) PROVE e[j] = s[from[j]]
  <2>1. CASE j = i
    BY <1>1, <1>2, <1>3, <2>1
  <2>2. CASE j = i + 1
    BY <1>1, <1>2, <1>3, <2>2
  <2>3. CASE j # i /\ j # i + 1
    BY <1>1, <1>2, <1>3, <2>3
  <2> QED
    BY <2>1, <2>2, <2>3
<1> HIDE DEF e, from
<1>6. e \in [1..Len(s) -> TextLines] /\ \A j \in 1..Len(s) : e[j].key = s[from[j]].key
  BY <1>1, <1>3, <1>4, <1>5
<1>7. \A j, k \in 1..Len(s) : from[j] = from[k] => j = k
  BY <1>1, <1>2, <1>3
<1>8. e \in Seq(TextLines) /\ KeysOnce(e) /\ (Keyed(s) = DOMAIN s => Keyed(e) = DOMAIN e)
  <2>1. Rearranged(s, e, Len(s), from)
    BY <1>1, <1>3, <1>6, <1>7 DEF Rearranged
  <2> QED
    BY <1>3, <2>1, RearrangedIs
<1> QED
  BY <1>8 DEF Keeps, e

\* An edited text is still one that can be read.
LEMMA EditedIs ==
  ASSUME NEW text \in Texts, Readable(text), NEW e \in Edited(text)
  PROVE  e \in Texts /\ Readable(e)
<1> DEFINE ls == text.lines
<1>1. /\ ls \in Seq(TextLines) /\ KeysOnce(ls) /\ text.rest \in Rests
      /\ text = [lines |-> ls, rest |-> text.rest]
      /\ format \in Templates \/ Keyed(ls) = DOMAIN ls
  BY DEF Texts, Readable
<1>2. ASSUME NEW l, Keeps(ls, l), e = [lines |-> l, rest |-> text.rest]
      PROVE  e \in Texts /\ Readable(e)
  <2>1. e = [lines |-> l, rest |-> text.rest]
    BY <1>1, <1>2
  <2> QED
    BY <1>1, <1>2, <2>1 DEF Keeps, Texts, Readable
<1>3. CASE \E i \in DOMAIN ls : \E line \in Replaced(ls[i]) :
             e = [lines |-> ReplaceAt(ls, i, line), rest |-> text.rest]
  BY <1>1, <1>2, <1>3, ReplaceKeeps
<1>4. CASE \E i \in DOMAIN ls : e = [lines |-> RemoveAt(ls, i), rest |-> text.rest]
  BY <1>1, <1>2, <1>4, RemoveKeeps
<1>5. CASE \E i \in 1..Len(ls) + 1, line \in NewLines(ls) :
             e = [lines |-> InsertAt(ls, i, line), rest |-> text.rest]
  BY <1>1, <1>2, <1>5, InsertKeeps
<1>6. CASE \E i \in 1..Len(ls) - 1 :
             e = [lines |-> [ls EXCEPT ![i] = ls[i + 1], ![i + 1] = ls[i]], rest |-> text.rest]
  BY <1>1, <1>2, <1>6, SwapKeeps
<1>7. CASE \E r \in Rests : e = [lines |-> ls, rest |-> r]
  <2>1. PICK r \in Rests : e = [lines |-> ls, rest |-> r]
    BY <1>1, <1>7
  <2> QED
    BY <1>1, <2>1 DEF Texts, Readable
<1> DEFINE With(S) == {[lines |-> l, rest |-> text.rest] : l \in S}
           replaced == UNION {With({ReplaceAt(ls, i, l) : l \in Replaced(ls[i])}) : i \in DOMAIN ls}
           removed == With({RemoveAt(ls, i) : i \in DOMAIN ls})
           inserted == With({InsertAt(ls, i, l) : i \in 1..Len(ls) + 1, l \in NewLines(ls)})
           swapped == With({[ls EXCEPT ![i] = ls[i + 1], ![i + 1] = ls[i]] : i \in 1..Len(ls) - 1})
           other == IF format \in Templates THEN {} ELSE {[lines |-> ls, rest |-> r] : r \in Rests}
<1>8. CASE e \in replaced
  <2>1. PICK i \in DOMAIN ls : e \in With({ReplaceAt(ls, i, l) : l \in Replaced(ls[i])})
    BY <1>8
  <2> QED
    BY <1>3, <2>1
<1>9. CASE e \in removed
  BY <1>4, <1>9
<1>10. CASE e \in inserted
  BY <1>5, <1>10
<1>11. CASE e \in swapped
  BY <1>6, <1>11
<1>12. CASE e \in other
  BY <1>7, <1>12
<1>13. e \in replaced \cup removed \cup inserted \cup swapped \cup other
  BY DEF Edited
<1>14. e \in replaced \/ e \in removed \/ e \in inserted \/ e \in swapped \/ e \in other
  <2> HIDE DEF replaced, removed, inserted, swapped, other
  <2> QED
    BY <1>13
<1> HIDE DEF replaced, removed, inserted, swapped, other
<1> QED
  BY <1>8, <1>9, <1>10, <1>11, <1>12, <1>14

-----------------------------------------------------------------------------
(* Runs.                                                                    *)

\* The clones have documents that a parser has made, also after a merge, and
\* the files that resolve has written are a merge of them.
MergeInv ==
  /\ format \in Formats
  /\ Good(base) /\ Good(ours) /\ Good(theirs)
  /\ outcome \in {"none", "clean", "conflict", "sealed"}
  /\ outcome = "clean" =>
       cipher \in Merges(base, ours, theirs) /\ cipher # Clash /\ plain = Generate(cipher)
  /\ outcome = "sealed" => plain \in Texts /\ Readable(plain) /\ cipher = Parse(plain)

\* Clones start from what a parser has made.
LEMMA InitMerge ==
  Init => MergeInv
<1> SUFFICES ASSUME Init PROVE MergeInv
  OBVIOUS
<1>1. PICK text \in FirstTexts : Readable(text) /\ base = Parse(text)
  BY DEF Init
<1>2. Good(base)
  BY <1>1, ParseIs, MergeAssumption
<1>3. format \in Formats /\ ours = base /\ theirs = base /\ outcome = "none"
  BY DEF Init
<1> QED
  BY <1>2, <1>3 DEF MergeInv

\* A document is good as long as its format is the same.
LEMMA GoodStays ==
  ASSUME UNCHANGED format, NEW d, Good(d)
  PROVE  /\ base' = d => Good(base)'
         /\ ours' = d => Good(ours)'
         /\ theirs' = d => Good(theirs)'
<1>1. ASSUME base' = d PROVE Good(base)'
  BY <1>1 DEF Good, Sound, Entered
<1>2. ASSUME ours' = d PROVE Good(ours)'
  BY <1>2 DEF Good, Sound, Entered
<1>3. ASSUME theirs' = d PROVE Good(theirs)'
  BY <1>3 DEF Good, Sound, Entered
<1> QED
  BY <1>1, <1>2, <1>3

\* An edit of a good document makes a good one.
LEMMA EditIsGood ==
  ASSUME NEW d, Good(d), NEW text \in Edited(Generate(d))
  PROVE  Good(Parse(text))
<1>1. Generate(d) \in Texts /\ Readable(Generate(d))
  BY GoodIs, GenerateIs
<1>2. text \in Texts /\ Readable(text)
  BY <1>1, EditedIs
<1> QED
  BY <1>2, ParseIs

\* Each edit, merge, seal and commit keeps it so.
LEMMA NextMerge ==
  MergeInv /\ [Next]_vars => MergeInv'
<1> SUFFICES ASSUME MergeInv, [Next]_vars PROVE MergeInv'
  OBVIOUS
<1>1. Good(base) /\ Good(ours) /\ Good(theirs) /\ format \in Formats
  BY DEF MergeInv
<1>2. CASE EditOurs
  <2>1. UNCHANGED <<format, base, theirs, outcome>> /\ outcome = "none"
    BY <1>2 DEF EditOurs
  <2>2. PICK text \in Edited(Generate(ours)) : ours' = Parse(text)
    BY <1>2 DEF EditOurs
  <2>3. Good(Parse(text))
    BY <1>1, EditIsGood
  <2>4. Good(base)' /\ Good(ours)' /\ Good(theirs)'
    BY <1>1, <2>1, <2>2, <2>3, GoodStays
  <2> QED
    BY <1>1, <2>1, <2>4 DEF MergeInv
<1>3. CASE EditTheirs
  <2>1. UNCHANGED <<format, base, ours, outcome>> /\ outcome = "none"
    BY <1>3 DEF EditTheirs
  <2>2. PICK text \in Edited(Generate(theirs)) : theirs' = Parse(text)
    BY <1>3 DEF EditTheirs
  <2>3. Good(Parse(text))
    BY <1>1, EditIsGood
  <2>4. Good(base)' /\ Good(ours)' /\ Good(theirs)'
    BY <1>1, <2>1, <2>2, <2>3, GoodStays
  <2> QED
    BY <1>1, <2>1, <2>4 DEF MergeInv
<1>4. CASE Resolve
  <2>1. UNCHANGED <<format, stages>>
    BY <1>4 DEF Resolve
  <2>2. UNCHANGED <<format, base, ours, theirs>>
    BY <2>1 DEF stages
  <2>3. Good(base)' /\ Good(ours)' /\ Good(theirs)'
    BY <1>1, <2>2, GoodStays
  <2>4. Merges(base, ours, theirs)' = Merges(base, ours, theirs)
    BY <2>1 DEF Merges, MergedLayouts, MergedTemplates, Placeholders, stages
  <2>5. PICK merged \in Merges(base, ours, theirs) :
          IF merged = Clash THEN outcome' = "conflict"
          ELSE outcome' = "clean" /\ plain' = Generate(merged) /\ cipher' = merged
    BY <1>4 DEF Resolve
  <2>6. CASE merged = Clash
    BY <1>1, <2>2, <2>3, <2>5, <2>6 DEF MergeInv
  <2>7. CASE merged # Clash
    <3>1. outcome' = "clean" /\ plain' = Generate(merged) /\ cipher' = merged
      BY <2>5, <2>7
    <3>2. Generate(cipher)' = Generate(merged)
      BY <2>2, <3>1 DEF Generate
    <3>3. cipher' \in Merges(base, ours, theirs)' /\ cipher' # Clash
      BY <2>4, <2>7, <3>1
    <3> QED
      BY <1>1, <2>2, <2>3, <3>1, <3>2, <3>3 DEF MergeInv
  <2> QED
    BY <2>6, <2>7
<1>5. CASE Seal
  <2>1. /\ UNCHANGED <<format, base, ours, theirs, plain>> /\ outcome = "clean"
        /\ Readable(plain) /\ cipher' = Parse(plain) /\ outcome' = "sealed"
    BY <1>5 DEF Seal, stages
  <2>2. Good(base)' /\ Good(ours)' /\ Good(theirs)'
    BY <1>1, <2>1, GoodStays
  <2>3. cipher \in Merges(base, ours, theirs) /\ cipher # Clash /\ plain = Generate(cipher)
    BY <2>1 DEF MergeInv
  <2>4. plain \in Texts
    BY <1>1, <2>3, MergesAre, GenerateIs
  <2>5. (plain \in Texts)' /\ Readable(plain)'
    BY <2>1, <2>4 DEF Readable
  <2>6. cipher' = Parse(plain)'
    BY <2>1 DEF Parse
  <2> QED
    BY <1>1, <2>1, <2>2, <2>5, <2>6 DEF MergeInv
<1>6. CASE Commit
  <2>1. /\ UNCHANGED <<format, theirs>> /\ base' = theirs /\ ours' = cipher
        /\ outcome \in {"clean", "sealed"} /\ Readable(plain) /\ outcome' = "none"
    BY <1>6 DEF Commit
  <2>2. Good(cipher)
    <3>1. CASE outcome = "clean"
      <4>1. cipher \in Merges(base, ours, theirs) /\ cipher # Clash /\ plain = Generate(cipher)
        BY <3>1 DEF MergeInv
      <4>2. Sound(cipher) /\ Readable(Generate(cipher))
        BY <1>1, <2>1, <4>1, MergesAre
      <4> QED
        BY <4>2, GenerateIs
    <3>2. CASE outcome = "sealed"
      BY <3>2, ParseIs DEF MergeInv
    <3> QED
      BY <2>1, <3>1, <3>2
  <2>3. Good(base)' /\ Good(ours)' /\ Good(theirs)'
    BY <1>1, <2>1, <2>2, GoodStays
  <2> QED
    BY <1>1, <2>1, <2>3 DEF MergeInv
<1>7. CASE UNCHANGED vars
  <2>1. UNCHANGED <<format, base, ours, theirs, plain, cipher, outcome>>
    BY <1>7 DEF vars, stages
  <2>2. Good(base)' /\ Good(ours)' /\ Good(theirs)'
    BY <1>1, <2>1, GoodStays
  <2>3. Merges(base, ours, theirs)' = Merges(base, ours, theirs)
    BY <2>1 DEF Merges, MergedLayouts, MergedTemplates, Placeholders
  <2>4. Generate(cipher)' = Generate(cipher)
    BY <2>1 DEF Generate
  <2>5. Parse(plain)' = Parse(plain) /\ (Readable(plain)' <=> Readable(plain))
    BY <2>1 DEF Parse, Readable
  <2> QED
    BY <1>1, <2>1, <2>2, <2>3, <2>4, <2>5 DEF MergeInv
<1> QED
  BY <1>2, <1>3, <1>4, <1>5, <1>6, <1>7 DEF Next

\* The clones have what a parser has made, whatever they edit and merge.
THEOREM MergesStaySound == Spec => []MergeInv
<1> QED
  BY InitMerge, NextMerge, PTL DEF Spec

-----------------------------------------------------------------------------
(* What a clean merge keeps.                                                *)

\* Keys that are on all sides come in the order of the side that has swapped
\* them (merged_order): the order of whole documents decides for every pair.
THEOREM MovesAreAlwaysKept == Spec => []MovesAreKept
<1>1. MergeInv => MovesAreKept
  BY CleanMoves DEF MergeInv, MovesAreKept
<1> QED
  BY <1>1, MergesStaySound, PTL

\* A key comes out of the merge of values if and only if it comes out of that
\* of the layout, so a generator finds what it needs (plan_merge).
THEOREM LayoutsAlwaysCoverValues == Spec => []LayoutCoversValues
<1>1. MergeInv => LayoutCoversValues
  BY MergesAre DEF MergeInv, LayoutCoversValues, Sound
<1> QED
  BY <1>1, MergesStaySound, PTL

\* Ours and theirs swap places in what resolve computes, conflicts included
\* (merge, merge_three_way, merge_text_lines).
THEOREM SidesAreAlwaysEqual == Spec => []SidesAreEqual
<1>1. ASSUME MergeInv PROVE SidesAreEqual
  <2>1. Good(base) /\ Good(ours) /\ Good(theirs)
    BY <1>1 DEF MergeInv
  <2>2. \A c \in Merges(base, ours, theirs) : \E d \in Merges(base, theirs, ours) : Content(d) = Content(c)
    BY <2>1, CleanSwaps
  <2>3. \A c \in Merges(base, theirs, ours) : \E d \in Merges(base, ours, theirs) : Content(d) = Content(c)
    BY <2>1, CleanSwaps
  <2>4. {Content(m) : m \in Merges(base, ours, theirs)} = {Content(m) : m \in Merges(base, theirs, ours)}
    BY <2>2, <2>3
  <2> QED
    BY <2>4 DEF SidesAreEqual, Content
<1> QED
  BY <1>1, MergesStaySound, PTL

\* What one side alone has changed, removed or added under a key, and every
\* comment that a side has added, is in the text that resolve writes, if that
\* text has every key once (README.md:207).
THEOREM OneSidedEditsAreAlwaysTaken == Spec => []OneSidedEditsAreTaken
<1>1. ASSUME MergeInv PROVE OneSidedEditsAreTaken
  <2> SUFFICES ASSUME outcome = "clean", Readable(plain)
               PROVE  /\ \A k \in Keys :
                           /\ LineOf(ours, k) = LineOf(base, k) =>
                                Find(plain.lines, k) = LineOf(theirs, k)
                           /\ LineOf(theirs, k) = LineOf(base, k) =>
                                Find(plain.lines, k) = LineOf(ours, k)
                      /\ \A side \in {ours, theirs} : \A line \in Comments(side) :
                           Copies(side, line) > Copies(base, line) => line \in ToSet(plain.lines)
    BY DEF OneSidedEditsAreTaken
  <2>1. /\ Good(base) /\ Good(ours) /\ Good(theirs)
        /\ cipher \in Merges(base, ours, theirs) /\ cipher # Clash /\ plain = Generate(cipher)
    BY <1>1 DEF MergeInv
  <2>2. KeysOnce(Generate(cipher).lines)
    BY <2>1 DEF Readable
  <2>3. \A k : Find(plain.lines, k) = LineOf(cipher, k)
    BY <2>1 DEF LineOf
  <2>4. ASSUME NEW k
        PROVE  /\ LineOf(ours, k) = LineOf(base, k) => LineOf(cipher, k) = LineOf(theirs, k)
               /\ LineOf(theirs, k) = LineOf(base, k) => LineOf(cipher, k) = LineOf(ours, k)
    BY <2>1, <2>2, CleanTakes
  <2>5. ASSUME NEW side \in {ours, theirs}, NEW line \in Comments(side),
               Copies(side, line) > Copies(base, line)
        PROVE  line \in ToSet(plain.lines)
    BY <2>1, <2>5, CleanComments
  <2> QED
    BY <2>3, <2>4, <2>5
<1> QED
  BY <1>1, MergesStaySound, PTL
=============================================================================
