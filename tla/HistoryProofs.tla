---------------------------- MODULE HistoryProofs ----------------------------
(***************************************************************************)
(* What a clean scan says, for histories of any length on any branches.    *)
(* Commits are numbered so that parents come first, and an argument along  *)
(* the history is one about the least commit that would break it (LeastIn).*)
(***************************************************************************)
EXTENDS History, SequenceTheorems, WellFoundedInduction, TLAPS

-----------------------------------------------------------------------------
(* Numbers.                                                                 *)

\* Some numbers have a least one.
LEMMA LeastIn ==
  ASSUME NEW T \in SUBSET Nat, T # {}
  PROVE  \E n \in T : \A m \in T : n <= m
<1>1. IsWellFoundedOn(OpToRel(<, Nat), Nat)
  BY NatLessThanWellFounded
<1>2. \E n \in T : \A m \in T : <<m, n>> \notin OpToRel(<, Nat)
  BY <1>1, WFMin
<1>3. ASSUME NEW n \in T, NEW m \in T, <<m, n>> \notin OpToRel(<, Nat)
      PROVE  n <= m
  BY <1>3 DEF OpToRel
<1> QED
  BY <1>2, <1>3

\* And, if they are bounded, a greatest one.
LEMMA GreatestIn ==
  ASSUME NEW n \in Nat, NEW T \in SUBSET (0..n), T # {}
  PROVE  \E g \in T : \A m \in T : m <= g
<1> DEFINE gaps == {n - m : m \in T}
<1>1. gaps \in SUBSET Nat /\ gaps # {}
  <2>1. \A m \in T : n - m \in Nat
    OBVIOUS
  <2> QED
    BY <2>1
<1>2. PICK least \in gaps : \A k \in gaps : least <= k
  BY <1>1, LeastIn
<1>3. PICK g \in T : least = n - g
  BY <1>2
<1>4. ASSUME NEW m \in T PROVE m <= g
  <2>1. least <= n - m
    BY <1>2
  <2> QED
    BY <1>3, <2>1
<1> QED
  BY <1>4

\* Min is one of the numbers.
LEMMA MinIsIn ==
  ASSUME NEW T \in SUBSET Nat, T # {}
  PROVE  Min(T) \in T
<1>1. \E n \in T : \A m \in T : n <= m
  BY LeastIn
<1> QED
  BY <1>1 DEF Min

-----------------------------------------------------------------------------
(* Histories.                                                               *)

\* Commits in the order they were made, so that parents have smaller numbers.
GraphInv ==
  /\ commits \in Seq([parents : Seq(Nat), tree : [Paths -> Blobs]])
  /\ \A c \in Commits : Parents(c) \subseteq 1..(c - 1)

\* Commits are numbers, and their parents are commits.
LEMMA CommitsAre ==
  ASSUME GraphInv
  PROVE  /\ Len(commits) \in Nat /\ Commits = 1..Len(commits)
         /\ \A c \in Commits : \A q \in Parents(c) : q \in Commits /\ q < c
<1>1. Len(commits) \in Nat /\ Commits = 1..Len(commits)
  BY DEF GraphInv, Commits
<1> QED
  BY <1>1 DEF GraphInv

\* There is a function that fits the recursive definition: the least sets that
\* have a commit and the parents of all they have.
LEMMA AncestorsExist ==
  ASSUME GraphInv
  PROVE  \E f : f = [c \in Commits |-> {c} \cup UNION {f[q] : q \in Parents(c)}]
<1> DEFINE Closed(S) == \A x \in S : Parents(x) \subseteq S
           f == [c \in Commits |->
                   {x \in Commits : \A S \in SUBSET Commits : c \in S /\ Closed(S) => x \in S}]
<1>1. \A c \in Commits : Parents(c) \subseteq Commits
  BY CommitsAre
<1>2. ASSUME NEW c \in Commits
      PROVE  f[c] = {c} \cup UNION {f[q] : q \in Parents(c)}
  <2> DEFINE behind == {c} \cup UNION {f[q] : q \in Parents(c)}
  <2>1. behind \subseteq f[c]
    <3>1. c \in f[c]
      OBVIOUS
    <3>2. ASSUME NEW q \in Parents(c), NEW x \in f[q] PROVE x \in f[c]
      <4>1. q \in Commits
        BY <1>1
      <4>2. ASSUME NEW S \in SUBSET Commits, c \in S, Closed(S) PROVE x \in S
        BY <4>1, <4>2
      <4> QED
        BY <4>1, <4>2
    <3> HIDE DEF f
    <3> QED
      BY <3>1, <3>2
  <2>2. f[c] \subseteq behind
    <3>1. behind \in SUBSET Commits
      BY <1>1
    <3>2. \A q \in Parents(c) : q \in f[q]
      BY <1>1
    <3>3. ASSUME NEW q \in Parents(c), NEW x \in f[q] PROVE Parents(x) \subseteq f[q]
      <4>1. q \in Commits /\ x \in Commits
        BY <1>1
      <4>2. ASSUME NEW S \in SUBSET Commits, q \in S, Closed(S) PROVE Parents(x) \subseteq S
        BY <4>1, <4>2
      <4> QED
        BY <1>1, <4>1, <4>2
    <3>4. Closed(behind)
      <4> HIDE DEF f
      <4>1. ASSUME NEW x \in behind PROVE Parents(x) \subseteq behind
        <5>1. CASE x = c
          BY <3>2, <5>1
        <5>2. CASE x # c
          <6>1. PICK q \in Parents(c) : x \in f[q]
            BY <5>2
          <6> QED
            BY <3>3, <6>1
        <5> QED
          BY <5>1, <5>2
      <4> QED
        BY <4>1
    <3> QED
      BY <3>1, <3>4
  <2> QED
    BY <2>1, <2>2
<1> HIDE DEF f
<1>3. f = [c \in Commits |-> f[c]]
  BY DEF f
<1>4. f = [c \in Commits |-> {c} \cup UNION {f[q] : q \in Parents(c)}]
  BY <1>2, <1>3
<1> QED
  BY <1>4

\* So the definition says what it says.
LEMMA AncestorsAre ==
  GraphInv => \A c \in Commits : Ancestors[c] = {c} \cup UNION {Ancestors[q] : q \in Parents(c)}
<1> SUFFICES ASSUME GraphInv
             PROVE  \A c \in Commits :
                      Ancestors[c] = {c} \cup UNION {Ancestors[q] : q \in Parents(c)}
  OBVIOUS
<1>1. Ancestors = [c \in Commits |-> {c} \cup UNION {Ancestors[q] : q \in Parents(c)}]
  BY AncestorsExist DEF Ancestors
<1> QED
  BY <1>1

\* Behind a commit are commits that are not newer, and all their parents.
LEMMA AncestorsClosed ==
  ASSUME GraphInv, NEW c \in Commits
  PROVE  /\ c \in Ancestors[c] /\ Ancestors[c] \subseteq 1..c
         /\ \A x \in Ancestors[c] : Parents(x) \subseteq Ancestors[c]
<1> DEFINE Fine(d) == /\ Ancestors[d] \subseteq 1..d
                      /\ \A x \in Ancestors[d] : Parents(x) \subseteq Ancestors[d]
<1>1. ASSUME NEW d \in Commits, \A q \in Parents(d) : Fine(q)
      PROVE  Fine(d)
  <2>1. Ancestors[d] = {d} \cup UNION {Ancestors[q] : q \in Parents(d)}
    BY AncestorsAre
  <2>2. Ancestors[d] \subseteq 1..d
    BY <1>1, <2>1, CommitsAre
  <2>3. ASSUME NEW x \in Ancestors[d] PROVE Parents(x) \subseteq Ancestors[d]
    <3>1. CASE x = d
      <4>1. \A q \in Parents(d) : q \in Ancestors[q]
        BY AncestorsAre, CommitsAre
      <4> QED
        BY <2>1, <3>1, <4>1
    <3>2. CASE \E q \in Parents(d) : x \in Ancestors[q]
      BY <1>1, <2>1, <3>2
    <3> QED
      BY <2>1, <3>1, <3>2
  <2> QED
    BY <2>2, <2>3
<1>2. \A d \in Commits : Fine(d)
  <2> DEFINE T == {d \in Commits : ~Fine(d)}
  <2> HIDE DEF Fine
  <2>1. SUFFICES ASSUME T # {} PROVE FALSE
    OBVIOUS
  <2>2. T \in SUBSET Nat
    BY CommitsAre
  <2>3. PICK d \in T : \A e \in T : d <= e
    BY <2>1, <2>2, LeastIn
  <2>4. \A q \in Parents(d) : q \in Commits /\ q < d /\ q \in Nat /\ d \in Nat
    BY CommitsAre
  <2>5. \A q \in Parents(d) : Fine(q)
    BY <2>3, <2>4
  <2> QED
    BY <1>1, <2>5
<1>3. c \in Ancestors[c]
  BY AncestorsAre
<1> QED
  BY <1>2, <1>3

\* What is behind something behind a commit is behind the commit.
LEMMA AncestorsAreTransitive ==
  ASSUME GraphInv, NEW c \in Commits, NEW x \in Ancestors[c]
  PROVE  Ancestors[x] \subseteq Ancestors[c]
<1> DEFINE T == {y \in Ancestors[c] : ~(Ancestors[y] \subseteq Ancestors[c])}
<1>1. SUFFICES ASSUME T # {} PROVE FALSE
  OBVIOUS
<1>2. Ancestors[c] \subseteq Commits /\ T \in SUBSET Nat
  BY AncestorsClosed, CommitsAre
<1>3. PICK y \in T : \A z \in T : y <= z
  BY <1>1, <1>2, LeastIn
<1>4. \A q \in Parents(y) : q \in Ancestors[c] /\ q < y /\ q \in Nat /\ y \in Nat
  BY <1>2, AncestorsClosed, CommitsAre
<1>5. \A q \in Parents(y) : Ancestors[q] \subseteq Ancestors[c]
  BY <1>3, <1>4
<1>6. Ancestors[y] = {y} \cup UNION {Ancestors[q] : q \in Parents(y)}
  BY <1>2, AncestorsAre
<1> QED
  BY <1>5, <1>6

\* Commits are added, and none is changed.
Grows == /\ Commits \subseteq Commits'
         /\ \A c \in Commits : commits'[c] = commits[c]

\* What is behind a commit does not change when others are made.
LEMMA AncestorsStay ==
  ASSUME GraphInv, GraphInv', Grows
  PROVE  \A c \in Commits : Ancestors'[c] = Ancestors[c]
<1>1. \A c \in Commits : Parents(c)' = Parents(c)
  BY DEF Parents, Grows
<1>2. \A c \in Commits : Ancestors[c] = {c} \cup UNION {Ancestors[q] : q \in Parents(c)}
  BY AncestorsAre
<1>3. (\A c \in Commits : Ancestors[c] = {c} \cup UNION {Ancestors[q] : q \in Parents(c)})'
  <2>1. GraphInv' =>
          (\A c \in Commits : Ancestors[c] = {c} \cup UNION {Ancestors[q] : q \in Parents(c)})'
    BY AncestorsAre, PTL
  <2> QED
    BY <2>1
<1>4. \A c \in Commits : Ancestors'[c] = {c} \cup UNION {Ancestors'[q] : q \in Parents(c)}
  BY <1>1, <1>3 DEF Grows
<1> DEFINE T == {c \in Commits : Ancestors'[c] # Ancestors[c]}
<1>5. SUFFICES ASSUME T # {} PROVE FALSE
  OBVIOUS
<1>6. T \in SUBSET Nat
  BY CommitsAre
<1>7. PICK c \in T : \A d \in T : c <= d
  BY <1>5, <1>6, LeastIn
<1>8. \A q \in Parents(c) : q \in Commits /\ q < c /\ q \in Nat /\ c \in Nat
  BY CommitsAre
<1>9. \A q \in Parents(c) : Ancestors'[q] = Ancestors[q]
  BY <1>7, <1>8
<1>10. UNION {Ancestors'[q] : q \in Parents(c)} = UNION {Ancestors[q] : q \in Parents(c)}
  BY <1>9
<1> QED
  BY <1>2, <1>4, <1>10

-----------------------------------------------------------------------------
(* The walk of git rev-list.                                                *)

\* The walk goes on to parents: to all, or to one that has the path alike.
LEMMA FollowedAre ==
  ASSUME GraphInv, NEW range, NEW p, NEW c \in Commits
  PROVE  /\ Followed(range, p, c) \subseteq Parents(c)
         /\ Same(range, p, c) # {} =>
              \E i \in Same(range, p, c) : Followed(range, p, c) = {commits[c].parents[i]}
<1>1. DOMAIN commits[c].parents \in SUBSET Nat
  <2>1. commits[c] \in [parents : Seq(Nat), tree : [Paths -> Blobs]]
    BY CommitsAre, ElementOfSeq DEF GraphInv
  <2>2. commits[c].parents \in Seq(Nat)
    BY <2>1
  <2> QED
    BY <2>2, LenProperties
<1>2. Same(range, p, c) \subseteq DOMAIN commits[c].parents
  BY DEF Same
<1>3. CASE Same(range, p, c) = {}
  BY <1>3 DEF Followed
<1>4. CASE Same(range, p, c) # {}
  <2>1. Min(Same(range, p, c)) \in Same(range, p, c)
    BY <1>1, <1>2, <1>4, MinIsIn
  <2> QED
    BY <1>2, <1>4, <2>1 DEF Followed, Parents
<1> QED
  BY <1>3, <1>4

\* There is a function that fits the recursive definition: the walked commits
\* are the least set that has the tips and what is followed from its commits.
LEMMA WalkExists ==
  ASSUME GraphInv, NEW range, NEW p
  PROVE  \E f : f = [c \in Commits |->
                       \/ c \in Tips(range)
                       \/ \E d \in Commits : c \in Followed(range, p, d) /\ f[d]]
<1> DEFINE Closed(S) == /\ Tips(range) \cap Commits \subseteq S
                        /\ \A d \in S : Followed(range, p, d) \subseteq S
           W == {c \in Commits : \A S \in SUBSET Commits : Closed(S) => c \in S}
           f == [c \in Commits |-> c \in W]
           Reachable(c) == c \in Tips(range) \/ \E d \in W : c \in Followed(range, p, d)
<1>1. \A d \in Commits : Followed(range, p, d) \subseteq Commits
  BY FollowedAre, CommitsAre
<1>2. ASSUME NEW c \in Commits, Reachable(c) PROVE c \in W
  <2>1. ASSUME NEW S \in SUBSET Commits, Closed(S) PROVE c \in S
    BY <1>2, <2>1
  <2> QED
    BY <2>1
<1>3. ASSUME NEW c \in W PROVE Reachable(c)
  <2> DEFINE S == {d \in Commits : Reachable(d)}
  <2>1. S \in SUBSET Commits /\ Tips(range) \cap Commits \subseteq S
    OBVIOUS
  <2>2. ASSUME NEW d \in S PROVE Followed(range, p, d) \subseteq S
    <3>1. d \in W /\ d \in Commits
      BY <1>2
    <3> HIDE DEF W
    <3> QED
      BY <1>1, <3>1
  <2>3. Closed(S)
    BY <2>1, <2>2
  <2>4. c \in S
    BY <2>1, <2>3
  <2> QED
    BY <2>4
<1> HIDE DEF W
<1>4. \A c \in Commits : c \in W <=> Reachable(c)
  BY <1>2, <1>3
<1>5. \A c \in Commits : Reachable(c) <=> \/ c \in Tips(range)
                                     \/ \E d \in Commits : c \in Followed(range, p, d) /\ f[d]
  <2>1. W \subseteq Commits
    BY DEF W
  <2> QED
    BY <2>1
<1>6. f = [c \in Commits |-> \/ c \in Tips(range)
                             \/ \E d \in Commits : c \in Followed(range, p, d) /\ f[d]]
  <2> DEFINE Reached(c) == \/ c \in Tips(range)
                           \/ \E d \in Commits : c \in Followed(range, p, d) /\ f[d]
  <2>1. \A c \in Commits : (c \in W) = Reached(c)
    <3>1. \A c \in Commits : c \in W <=> Reached(c)
      BY <1>4, <1>5
    <3>2. \A c \in Commits : Reached(c) \in BOOLEAN /\ (c \in W) \in BOOLEAN
      OBVIOUS
    <3> HIDE DEF Reached, f
    <3> QED
      BY <3>1, <3>2
  <2> HIDE DEF Reached
  <2>2. f = [c \in Commits |-> Reached(c)]
    BY <2>1, Zenon
  <2> QED
    BY <2>2 DEF Reached
<1> QED
  BY <1>6

\* The walk has the tips and what is followed from its commits, and no more.
LEMMA WalkIs ==
  ASSUME GraphInv, NEW range, NEW p, NEW c \in Commits
  PROVE  c \in Walk(range, p) <=>
           \/ c \in Tips(range)
           \/ \E d \in Walk(range, p) : c \in Followed(range, p, d)
<1> DEFINE walked[d \in Commits] ==
             \/ d \in Tips(range)
             \/ \E e \in Commits : d \in Followed(range, p, e) /\ walked[e]
<1>1. Walk(range, p) = {d \in Commits : walked[d]}
  BY DEF Walk
<1>2. walked = [d \in Commits |->
                  \/ d \in Tips(range)
                  \/ \E e \in Commits : d \in Followed(range, p, e) /\ walked[e]]
  <2>1. \E f : f = [d \in Commits |->
                      \/ d \in Tips(range)
                      \/ \E e \in Commits : d \in Followed(range, p, e) /\ f[e]]
    BY WalkExists
  <2> QED
    BY <2>1, Zenon
<1> HIDE DEF walked
<1>3. walked[c] <=> \/ c \in Tips(range)
                    \/ \E e \in Commits : c \in Followed(range, p, e) /\ walked[e]
  BY <1>2
<1> QED
  BY <1>1, <1>3

\* The walk stays behind its tips.
LEMMA WalkIsBehind ==
  ASSUME GraphInv, NEW range, NEW p, Tips(range) \subseteq Commits
  PROVE  Walk(range, p) \subseteq Reach(Tips(range))
<1> DEFINE T == Walk(range, p) \ Reach(Tips(range))
<1>1. SUFFICES ASSUME T # {} PROVE FALSE
  OBVIOUS
<1>2. Walk(range, p) \subseteq Commits
  BY DEF Walk
<1>3. T \in SUBSET (0..Len(commits))
  BY <1>2, CommitsAre
<1>4. PICK c \in T : \A d \in T : d <= c
  BY <1>1, <1>3, CommitsAre, GreatestIn
<1>5. c \in Commits
  BY <1>2
<1>6. CASE c \in Tips(range)
  <2>1. c \in Ancestors[c]
    BY <1>5, AncestorsClosed
  <2> QED
    BY <1>6, <2>1 DEF Reach
<1>7. CASE c \notin Tips(range)
  <2>1. PICK d \in Walk(range, p) : c \in Followed(range, p, d)
    BY <1>5, <1>7, WalkIs
  <2>2. d \in Commits /\ c \in Parents(d)
    BY <1>2, <2>1, FollowedAre
  <2>3. d \in Nat /\ c \in Nat /\ c < d
    BY <1>5, <2>2, CommitsAre
  <2>4. d \in Reach(Tips(range))
    BY <1>4, <2>3
  <2>5. PICK t \in Tips(range) : d \in Ancestors[t]
    BY <2>4 DEF Reach
  <2>6. c \in Ancestors[t]
    BY <2>2, <2>5, AncestorsClosed
  <2> QED
    BY <2>6 DEF Reach
<1> QED
  BY <1>6, <1>7

-----------------------------------------------------------------------------
(* What a list without a violation says.                                    *)

\* What a commit holds at a path is one of the contents.
LEMMA AtType ==
  ASSUME GraphInv, NEW c \in Commits, NEW p \in Paths
  PROVE  At(c, p) \in Blobs
<1>1. commits[c] \in [parents : Seq(Nat), tree : [Paths -> Blobs]]
  BY CommitsAre, ElementOfSeq DEF GraphInv
<1> QED
  BY <1>1 DEF At

\* The scan reports what must not be in a history, and nothing else.
LEMMA ViolatesIsBad ==
  ASSUME GraphInv, NEW c \in Commits, NEW p \in Paths
  PROVE  Violates(p, At(c, p)) <=> Bad(p, c)
BY AtType, HistoryAssumption
DEF Violates, PlaintextViolation, CiphertextViolation, Parses, DetectFormat, Bad, Blobs, Paths

\* Nothing that the scan has been given to read violates anything.
CleanList(range, p) == \A c \in RevList(range, p) : ~Violates(p, At(c, p))

\* If the walk comes to something bad and does not print it, a parent has it too;
\* the walk goes on there, or it is behind the excluded end.
LEMMA PassedOver ==
  ASSUME GraphInv, NEW p \in Paths, NEW range, CleanList(range, p),
         NEW c \in Walk(range, p) \ Excluded(range), Bad(p, c)
  PROVE  \E q \in Parents(c) :
           /\ At(q, p) = At(c, p)
           /\ \/ Relevant(range, q) /\ q \in Walk(range, p)
              \/ ~Relevant(range, q)
<1>1. c \in Commits
  BY DEF Walk
<1>2. ~Touched(range, p, c)
  BY <1>1, ViolatesIsBad DEF CleanList, RevList
<1>3. Parents(c) # {}
  BY <1>2 DEF Touched, Bad
<1>4. CASE Same(range, p, c) = {}
  BY <1>2, <1>3, <1>4 DEF Touched
<1>5. CASE Same(range, p, c) # {}
  <2>1. PICK i \in Same(range, p, c) : Followed(range, p, c) = {commits[c].parents[i]}
    BY <1>1, <1>5, FollowedAre
  <2> DEFINE q == commits[c].parents[i]
  <2>2. q \in Parents(c) /\ Relevant(range, q) /\ At(q, p) = At(c, p)
    BY DEF Same, Parents
  <2>3. q \in Walk(range, p)
    BY <1>1, <2>1, <2>2, CommitsAre, WalkIs
  <2> QED
    BY <2>2, <2>3
<1> QED
  BY <1>4, <1>5

\* Behind the excluded end, all that is behind a commit is excluded with it.
LEMMA ExcludedIs ==
  ASSUME GraphInv, NEW range, range # Everything => refs[range[1]] \in Commits
  PROVE  /\ Excluded(range) \subseteq Commits
         /\ \A x \in Excluded(range) : Ancestors[x] \subseteq Excluded(range)
<1>1. CASE range = Everything
  BY <1>1 DEF Excluded
<1>2. CASE range # Everything
  BY <1>2, AncestorsClosed, AncestorsAreTransitive, CommitsAre DEF Excluded
<1> QED
  BY <1>1, <1>2

\* The walk comes to nothing bad that is not behind the excluded end as well: it
\* goes on to parents that hold the same, until one of them is excluded.  When
\* everything is scanned none is.
LEMMA WalkedAreKnown ==
  ASSUME GraphInv, NEW p \in Paths, NEW range, CleanList(range, p),
         NEW c \in Walk(range, p) \ Excluded(range), Bad(p, c)
  PROVE  \E e \in Excluded(range) : At(e, p) = At(c, p)
<1> SUFFICES ASSUME \A e \in Excluded(range) : At(e, p) # At(c, p)
             PROVE  FALSE
  OBVIOUS
<1> DEFINE T == {d \in Walk(range, p) \ Excluded(range) : At(d, p) = At(c, p)}
<1>1. Walk(range, p) \subseteq Commits /\ T \in SUBSET Nat
  BY CommitsAre DEF Walk
<1>2. PICK d \in T : \A e \in T : d <= e
  BY <1>1, LeastIn
<1>3. Bad(p, d)
  BY DEF Bad
<1>4. PICK q \in Parents(d) :
        /\ At(q, p) = At(d, p)
        /\ \/ Relevant(range, q) /\ q \in Walk(range, p)
           \/ ~Relevant(range, q)
  BY <1>3, PassedOver
<1>5. q \notin Excluded(range)
  BY <1>4
<1>6. q \in T
  BY <1>4, <1>5 DEF Relevant
<1>7. q < d /\ q \in Nat /\ d \in Nat
  BY <1>1, CommitsAre
<1> QED
  BY <1>2, <1>6, <1>7

\* What is bad among some commits and all behind them, but for the excluded
\* ones, is in an excluded commit too or was dropped by a merge among them.
Explained(tips, without, p) ==
  \A c \in Reach(tips) \ without : Bad(p, c) =>
    \/ \E e \in without : At(e, p) = At(c, p)
    \/ \E m \in Reach(tips) \ without : Drops(m, p, c)

\* What a clean list does not have is explained so: the last commit of the walk
\* that still had it behind it dropped it, if the walk never came to it.
LEMMA HiddenIsExplained ==
  ASSUME GraphInv, NEW p \in Paths, NEW range, CleanList(range, p),
         Tips(range) \subseteq Commits, range # Everything => refs[range[1]] \in Commits
  PROVE  Explained(Tips(range), Excluded(range), p)
<1> SUFFICES ASSUME NEW c \in Reach(Tips(range)) \ Excluded(range), Bad(p, c),
                    \A e \in Excluded(range) : At(e, p) # At(c, p)
             PROVE  \E m \in Reach(Tips(range)) \ Excluded(range) : Drops(m, p, c)
  BY DEF Explained
<1> DEFINE T == {d \in Walk(range, p) : c \in Ancestors[d]}
<1>1. Walk(range, p) \subseteq Commits /\ T \in SUBSET Nat
  BY CommitsAre DEF Walk
<1>2. \A d \in T : d \notin Excluded(range)
  BY ExcludedIs
<1>3. T # {}
  <2>1. PICK t \in Tips(range) : c \in Ancestors[t]
    BY DEF Reach
  <2>2. t \in Walk(range, p)
    BY WalkIs
  <2> QED
    BY <2>1, <2>2
<1>4. PICK m \in T : \A e \in T : m <= e
  BY <1>1, <1>3, LeastIn
<1>5. c # m
  BY <1>2, WalkedAreKnown
<1>6. PICK q \in Parents(m) : c \in Ancestors[q]
  BY <1>1, <1>5, AncestorsAre
<1>7. \A h \in Parents(m) : h \in Nat /\ h < m /\ m \in Nat
  BY <1>1, CommitsAre
<1>8. \A h \in Parents(m) : c \in Ancestors[h] => h \notin Followed(range, p, m)
  <2>1. ASSUME NEW h \in Followed(range, p, m) PROVE h \in Walk(range, p)
    BY <1>1, CommitsAre, FollowedAre, WalkIs
  <2> QED
    BY <1>4, <1>7, <2>1
<1>9. Same(range, p, m) # {}
  BY <1>6, <1>8 DEF Followed
<1>10. PICK j \in Same(range, p, m) : Followed(range, p, m) = {commits[m].parents[j]}
  BY <1>1, <1>9, FollowedAre
<1>11. /\ j \in DOMAIN commits[m].parents
       /\ At(commits[m].parents[j], p) = At(m, p)
       /\ commits[m].parents[j] \in Parents(m)
  BY DEF Same, Parents
<1>12. c \notin Ancestors[commits[m].parents[j]]
  BY <1>8, <1>10, <1>11
<1>13. PICK i \in DOMAIN commits[m].parents : q = commits[m].parents[i]
  BY DEF Parents
<1>14. Drops(m, p, c)
  BY <1>6, <1>11, <1>12, <1>13 DEF Drops
<1>15. m \in Reach(Tips(range)) \ Excluded(range)
  BY <1>2, WalkIsBehind
<1> QED
  BY <1>14, <1>15

-----------------------------------------------------------------------------
(* The invariant of a scan beside Git.                                      *)

RefsInv == refs \in [Refs -> {0} \cup Commits]

ScanType ==
  /\ scan \in [pc : {"idle", "plain", "cipher", "done", "failed"}, range : Ranges,
               found : SUBSET (Commits \X Paths), from : [Paths -> SUBSET Commits],
               without : [Paths -> SUBSET Commits]]
  /\ scan.pc = "idle" => scan = Idle

\* The scan has listed a path and has found nothing there.
Clean(p) ==
  /\ scan.pc = "done" \/ (p = "plain" /\ scan.pc = "cipher")
  /\ \A c \in Commits : <<c, p>> \notin scan.found

\* What a clean path means, of the branches as they were when it was listed.
CleanInv ==
  \A p \in Paths : Clean(p) =>
    /\ Explained(scan.from[p], scan.without[p], p)
    /\ scan.range = Everything => scan.without[p] = {}

IndInv == GraphInv /\ RefsInv /\ ScanType /\ CleanInv

\* The invariant holds of a new repository.
LEMMA InitInv == Init => IndInv
<1> SUFFICES ASSUME Init PROVE IndInv
  OBVIOUS
<1>1. GraphInv
  BY DEF Init, GraphInv, Commits, Parents, Blobs
<1>2. RefsInv
  BY DEF Init, RefsInv, Commits
<1>3. ScanType
  BY DEF Init, ScanType, Idle, Ranges
<1>4. CleanInv
  BY DEF Init, CleanInv, Clean, Idle
<1> QED
  BY <1>1, <1>2, <1>3, <1>4 DEF IndInv

\* A new commit comes after its parents.
LEMMA AddKeepsGraph ==
  ASSUME IndInv, NEW b \in Refs, NEW commit \in [parents : Seq(Nat), tree : [Paths -> Blobs]],
         \A i \in DOMAIN commit.parents : commit.parents[i] \in Commits,
         Add(b, commit)
  PROVE  GraphInv' /\ RefsInv' /\ Grows
<1>1. /\ commits' = Append(commits, commit)
      /\ refs' = [refs EXCEPT ![b] = Len(commits) + 1]
  BY DEF Add
<1>2. Len(commits) \in Nat /\ Commits = 1..Len(commits)
  BY CommitsAre DEF IndInv
<1>3. /\ commits' \in Seq([parents : Seq(Nat), tree : [Paths -> Blobs]])
      /\ Len(commits') = Len(commits) + 1
      /\ \A c \in Commits : commits'[c] = commits[c]
      /\ commits'[Len(commits) + 1] = commit
  BY <1>1, <1>2, AppendProperties DEF IndInv, GraphInv
<1>4. Commits' = 1..(Len(commits) + 1)
  BY <1>3, LenProperties DEF Commits
<1>5. Grows
  BY <1>2, <1>3, <1>4 DEF Grows
<1>6. ASSUME NEW c \in Commits' PROVE Parents(c)' \subseteq 1..(c - 1)
  <2>1. CASE c \in Commits
    BY <1>3, <2>1 DEF IndInv, GraphInv, Parents
  <2>2. CASE c = Len(commits) + 1
    BY <1>2, <1>3, <2>2 DEF Parents
  <2> QED
    BY <1>2, <1>4, <2>1, <2>2
<1>7. RefsInv'
  BY <1>1, <1>2, <1>4 DEF IndInv, RefsInv
<1> QED
  BY <1>3, <1>5, <1>6, <1>7 DEF GraphInv

\* Git makes no other steps.
LEMMA GitKeepsGraph ==
  ASSUME IndInv, GitStep
  PROVE  GraphInv' /\ RefsInv' /\ Grows /\ UNCHANGED scan
<1>1. PICK b \in Refs : \/ Commit(b) \/ DeleteBranch(b)
                        \/ \E d \in Refs \ {b} : Merge(b, d) \/ Branch(b, d)
  BY DEF GitStep
<1>2. \A d \in Refs : refs[d] # 0 => refs[d] \in Commits
  BY DEF IndInv, RefsInv
<1>3. \A c \in Commits : c \in Nat /\ commits[c].tree \in [Paths -> Blobs]
  <2>1. \A c \in Commits : commits[c] \in [parents : Seq(Nat), tree : [Paths -> Blobs]]
    BY CommitsAre, ElementOfSeq DEF IndInv, GraphInv
  <2> QED
    BY <2>1, CommitsAre DEF IndInv
<1>4. CASE Commit(b)
  <2>1. refs[b] \in Commits
    BY <1>2, <1>4 DEF Commit
  <2>2. PICK change \in Changes :
          Add(b, [parents |-> <<refs[b]>>,
                  tree |-> [commits[refs[b]].tree EXCEPT ![change[1]] = change[2]]])
    BY <1>4 DEF Commit
  <2> DEFINE tree == [commits[refs[b]].tree EXCEPT ![change[1]] = change[2]]
  <2>3. change[2] \in Blobs
    BY HistoryAssumption DEF Blobs
  <2>4. tree \in [Paths -> Blobs]
    BY <1>3, <2>1, <2>3
  <2> HIDE DEF tree
  <2> DEFINE commit == [parents |-> <<refs[b]>>, tree |-> tree]
  <2>5. /\ commit \in [parents : Seq(Nat), tree : [Paths -> Blobs]]
        /\ \A i \in DOMAIN commit.parents : commit.parents[i] \in Commits
    BY <1>3, <2>1, <2>4
  <2>6. Add(b, commit)
    BY <2>2 DEF tree
  <2> HIDE DEF commit
  <2>7. UNCHANGED scan
    BY <2>6 DEF Add
  <2> QED
    BY <2>5, <2>6, <2>7, AddKeepsGraph
<1>5. CASE \E d \in Refs \ {b} : Merge(b, d)
  <2>1. PICK d \in Refs \ {b} : Merge(b, d)
    BY <1>5
  <2>2. refs[b] \in Commits /\ refs[d] \in Commits
    BY <1>2, <2>1 DEF Merge
  <2>3. PICK plain \in MergedBlobs(refs[b], refs[d], "plain"),
             cipher \in MergedBlobs(refs[b], refs[d], "cipher") :
          Add(b, [parents |-> <<refs[b], refs[d]>>,
                  tree |-> [p \in Paths |-> IF p = "plain" THEN plain ELSE cipher]])
    BY <2>1 DEF Merge
  <2>4. \A p \in Paths : MergedBlobs(refs[b], refs[d], p) \subseteq Blobs
    BY <2>2, AtType DEF IndInv, MergedBlobs
  <2>5. plain \in Blobs /\ cipher \in Blobs
    BY <2>4 DEF Paths
  <2> DEFINE commit == [parents |-> <<refs[b], refs[d]>>,
                        tree |-> [p \in Paths |-> IF p = "plain" THEN plain ELSE cipher]]
  <2>6. /\ commit \in [parents : Seq(Nat), tree : [Paths -> Blobs]]
        /\ \A i \in DOMAIN commit.parents : commit.parents[i] \in Commits
    BY <1>3, <2>2, <2>5
  <2>7. Add(b, commit)
    BY <2>3
  <2> HIDE DEF commit
  <2>8. UNCHANGED scan
    BY <2>7 DEF Add
  <2> QED
    BY <2>6, <2>7, <2>8, AddKeepsGraph
<1>6. CASE DeleteBranch(b) \/ \E d \in Refs \ {b} : Branch(b, d)
  BY <1>6 DEF DeleteBranch, Branch, IndInv, GraphInv, RefsInv, Grows, Commits, Parents
<1> QED
  BY <1>1, <1>4, <1>5, <1>6

\* What was found of some commits stays true of them while the history grows.
LEMMA FactsStay ==
  ASSUME GraphInv, GraphInv', Grows, NEW tips \in SUBSET Commits,
         NEW without \in SUBSET Commits, NEW p \in Paths, Explained(tips, without, p)
  PROVE  Explained(tips, without, p)'
<1>1. /\ \A c \in Commits : Ancestors'[c] = Ancestors[c] /\ Ancestors[c] \subseteq Commits
      /\ \A c \in Commits : At(c, p)' = At(c, p)
  <2>1. \A c \in Commits : Ancestors[c] \subseteq Commits
    BY AncestorsClosed, CommitsAre
  <2> QED
    BY <2>1, AncestorsStay DEF At, Grows
<1>2. Reach(tips)' = Reach(tips) /\ Reach(tips) \subseteq Commits
  BY <1>1 DEF Reach
<1>3. ASSUME NEW c \in Reach(tips) \ without, Bad(p, c)'
      PROVE  \/ \E e \in without : At(e, p)' = At(c, p)'
             \/ \E m \in Reach(tips) \ without : Drops(m, p, c)'
  <2>1. Bad(p, c)
    BY <1>1, <1>2, <1>3 DEF Bad
  <2>2. CASE \E e \in without : At(e, p) = At(c, p)
    BY <1>1, <1>2, <2>2
  <2>3. CASE \E m \in Reach(tips) \ without : Drops(m, p, c)
    <3>1. PICK m \in Reach(tips) \ without : Drops(m, p, c)
      BY <2>3
    <3>2. commits'[m] = commits[m]
      BY <1>2 DEF Grows
    <3>3. \A i \in DOMAIN commits[m].parents : commits[m].parents[i] \in Commits
      BY <1>2, CommitsAre DEF Parents
    <3>4. Drops(m, p, c)'
      BY <1>1, <1>2, <3>1, <3>2, <3>3 DEF Drops
    <3> QED
      BY <3>4
  <2> QED
    BY <2>1, <2>2, <2>3 DEF Explained
<1> QED
  BY <1>2, <1>3 DEF Explained

\* A scan in flight is none of Git's business.
LEMMA GitKeepsScan ==
  ASSUME IndInv, GraphInv', Grows, UNCHANGED scan
  PROVE  ScanType' /\ CleanInv'
<1>1. ScanType'
  BY DEF IndInv, ScanType, Grows
<1>2. ASSUME NEW p \in Paths, Clean(p)'
      PROVE  Clean(p) /\ scan.from[p] \in SUBSET Commits /\ scan.without[p] \in SUBSET Commits
  BY <1>2 DEF IndInv, ScanType, Clean, Grows
<1>3. CleanInv'
  <2> SUFFICES ASSUME NEW p \in Paths, Clean(p)'
               PROVE  /\ Explained(scan.from[p], scan.without[p], p)'
                      /\ scan.range = Everything => scan.without[p] = {}
    BY DEF CleanInv
  <2>1. Clean(p) /\ scan.from[p] \in SUBSET Commits /\ scan.without[p] \in SUBSET Commits
    BY <1>2
  <2> QED
    BY <2>1, FactsStay DEF IndInv, CleanInv
<1> QED
  BY <1>1, <1>3

\* A path is listed as Git prints it, or the scan fails and reports nothing.
LEMMA ScanPathKeeps ==
  ASSUME IndInv, NEW p \in Paths, NEW next \in {"cipher", "done"},
         p = "plain" <=> next = "cipher", ScanPath(p, next)
  PROVE  ScanType' /\ CleanInv'
<1>1. UNCHANGED <<commits, refs>>
  BY DEF ScanPath
<1>2. \/ scan' = [Idle EXCEPT !.pc = "failed"]
      \/ /\ scan.range # Everything => refs[scan.range[1]] # 0 /\ refs[scan.range[2]] # 0
         /\ scan' = [scan EXCEPT !.pc = next,
                       !.found = @ \cup {<<c, p>> : c \in {d \in RevList(scan.range, p) :
                                                            Violates(p, At(d, p))}},
                       !.from[p] = Tips(scan.range), !.without[p] = Excluded(scan.range)]
  BY DEF ScanPath
<1>3. CASE scan' = [Idle EXCEPT !.pc = "failed"]
  <2>1. /\ scan'.pc = "failed" /\ scan'.range = Everything /\ scan'.found = {}
        /\ scan' \in [pc : {"failed"}, range : Ranges, found : {{}},
                      from : [Paths -> SUBSET Commits], without : [Paths -> SUBSET Commits]]
    BY <1>3 DEF Idle, Ranges
  <2> QED
    BY <1>1, <2>1 DEF ScanType, CleanInv, Clean, Commits
<1>4. CASE scan' = [scan EXCEPT !.pc = next,
                      !.found = @ \cup {<<c, p>> : c \in {d \in RevList(scan.range, p) :
                                                           Violates(p, At(d, p))}},
                      !.from[p] = Tips(scan.range), !.without[p] = Excluded(scan.range)]
           /\ (scan.range # Everything => refs[scan.range[1]] # 0 /\ refs[scan.range[2]] # 0)
  <2> DEFINE found == {<<c, p>> : c \in {d \in RevList(scan.range, p) : Violates(p, At(d, p))}}
  <2>1. RevList(scan.range, p) \subseteq Commits
    BY DEF RevList, Walk
  <2>2. scan.range # Everything =>
          refs[scan.range[1]] \in Commits /\ refs[scan.range[2]] \in Commits
    <3>1. scan.range # Everything => scan.range[1] \in Refs /\ scan.range[2] \in Refs
      BY DEF IndInv, ScanType, Ranges
    <3> QED
      BY <1>4, <3>1 DEF IndInv, RefsInv
  <2>3. Tips(scan.range) \subseteq Commits /\ Excluded(scan.range) \subseteq Commits
    <3>1. CASE scan.range = Everything
      BY <3>1 DEF Tips, Excluded, IndInv, RefsInv
    <3>2. CASE scan.range # Everything
      BY <2>2, <3>2, AncestorsClosed, CommitsAre DEF Tips, Excluded, IndInv
    <3> QED
      BY <3>1, <3>2
  <2>4. /\ scan'.pc = next /\ scan'.range = scan.range
        /\ scan'.found = scan.found \cup found
        /\ scan'.from = [scan.from EXCEPT ![p] = Tips(scan.range)]
        /\ scan'.without = [scan.without EXCEPT ![p] = Excluded(scan.range)]
    BY <1>4 DEF IndInv, ScanType
  <2>5. ScanType'
    <3>1. found \subseteq Commits \X Paths
      BY <2>1
    <3>2. scan' = [pc |-> scan'.pc, range |-> scan'.range, found |-> scan'.found,
                   from |-> scan'.from, without |-> scan'.without]
      BY <1>4 DEF IndInv, ScanType
    <3> HIDE DEF found
    <3> QED
      BY <1>1, <2>3, <2>4, <3>1, <3>2 DEF IndInv, ScanType, Commits
  <2>6. ASSUME NEW q \in Paths, Clean(q)'
        PROVE  /\ Explained(scan'.from[q], scan'.without[q], q)
               /\ scan'.range = Everything => scan'.without[q] = {}
    <3>1. \A c \in Commits : <<c, q>> \notin scan.found /\ <<c, q>> \notin found
      BY <1>1, <2>4, <2>6 DEF Clean, Commits
    <3>2. CASE q = p
      <4>1. CleanList(scan.range, p)
        BY <2>1, <3>1, <3>2 DEF CleanList
      <4>2. scan'.from[q] = Tips(scan.range) /\ scan'.without[q] = Excluded(scan.range)
        BY <2>4, <3>2 DEF IndInv, ScanType
      <4> QED
        BY <2>2, <2>3, <2>4, <3>2, <4>1, <4>2, HiddenIsExplained DEF IndInv, Excluded
    <3>3. CASE q # p
      <4>1. q = "plain" /\ p = "cipher"
        BY <2>4, <2>6, <3>3 DEF Clean, Paths
      <4>2. scan.pc = "cipher"
        BY <4>1 DEF ScanPath
      <4>3. Clean(q)
        BY <3>1, <4>1, <4>2 DEF Clean
      <4>4. scan'.from[q] = scan.from[q] /\ scan'.without[q] = scan.without[q]
        BY <2>4, <3>3 DEF IndInv, ScanType
      <4> QED
        BY <2>4, <4>3, <4>4 DEF IndInv, CleanInv
    <3> QED
      BY <3>2, <3>3
  <2>7. CleanInv'
    <3> SUFFICES ASSUME NEW q \in Paths, Clean(q)'
                 PROVE  /\ Explained(scan.from[q], scan.without[q], q)'
                        /\ scan'.range = Everything => scan'.without[q] = {}
      BY DEF CleanInv
    <3>1. GraphInv' /\ Grows
      BY <1>1 DEF IndInv, GraphInv, Grows, Commits, Parents
    <3>2. scan'.from[q] \in SUBSET Commits /\ scan'.without[q] \in SUBSET Commits
      BY <1>1, <2>5 DEF ScanType, Commits
    <3>3. Explained(scan'.from[q], scan'.without[q], q)
      BY <2>6
    <3>4. Explained(scan.from[q], scan.without[q], q)'
      BY <3>1, <3>2, <3>3, FactsStay DEF IndInv
    <3> QED
      BY <2>6, <3>4
  <2> QED
    BY <2>5, <2>7
<1> QED
  BY <1>2, <1>3, <1>4

\* The other steps of a scan begin or end it.
LEMMA OtherStepsKeep ==
  ASSUME IndInv, (\E range \in Ranges : Verify(range)) \/ GitFails \/ Exit
  PROVE  ScanType' /\ CleanInv' /\ UNCHANGED <<commits, refs>>
<1>1. UNCHANGED <<commits, refs>>
  BY DEF Verify, GitFails, Exit
<1> DEFINE Starting(pc, range) ==
             [pc |-> pc, range |-> range, found |-> {}, from |-> [p \in Paths |-> {}],
              without |-> [p \in Paths |-> {}]]
<1>2. Everything \in Ranges
  BY DEF Ranges
<1>3. PICK pc \in {"idle", "plain", "failed"}, range \in Ranges :
        /\ pc = "idle" => range = Everything
        /\ scan' = Starting(pc, range)
  <2>1. CASE \E range \in Ranges : Verify(range)
    <3>1. PICK range \in Ranges : scan' = Starting("plain", range)
      BY <2>1 DEF Verify, Idle
    <3> HIDE DEF Starting
    <3> QED
      BY <3>1
  <2>2. CASE GitFails
    <3>1. scan' = Starting("failed", Everything)
      BY <2>2 DEF GitFails, Idle
    <3> HIDE DEF Starting
    <3> QED
      BY <1>2, <3>1
  <2>3. CASE Exit
    <3>1. scan' = Starting("idle", Everything)
      BY <2>3 DEF Exit, Idle
    <3> HIDE DEF Starting
    <3> QED
      BY <1>2, <3>1
  <2> QED
    BY <2>1, <2>2, <2>3
<1>4. ScanType'
  BY <1>1, <1>3 DEF ScanType, Idle, Commits
<1>5. CleanInv'
  BY <1>3 DEF CleanInv, Clean
<1> QED
  BY <1>1, <1>4, <1>5

\* Every step keeps the invariant.
LEMMA NextKeepsInv ==
  ASSUME IndInv, [Next]_vars
  PROVE  IndInv'
<1>1. CASE GitStep
  BY <1>1, GitKeepsGraph, GitKeepsScan DEF IndInv
<1>2. CASE ScanStep
  <2>1. ScanType' /\ CleanInv' /\ UNCHANGED <<commits, refs>>
    <3>1. CASE ScanPlaintext
      <4>1. UNCHANGED <<commits, refs>>
        BY <3>1 DEF ScanPlaintext, ScanPath
      <4> QED
        BY <3>1, <4>1, ScanPathKeeps DEF ScanPlaintext, Paths
    <3>2. CASE ScanCiphertext
      <4>1. UNCHANGED <<commits, refs>>
        BY <3>2 DEF ScanCiphertext, ScanPath
      <4> QED
        BY <3>2, <4>1, ScanPathKeeps DEF ScanCiphertext, Paths
    <3>3. CASE (\E range \in Ranges : Verify(range)) \/ GitFails \/ Exit
      BY <3>3, OtherStepsKeep
    <3> QED
      BY <1>2, <3>1, <3>2, <3>3 DEF ScanStep
  <2> QED
    BY <2>1 DEF IndInv, GraphInv, RefsInv, Commits, Parents
<1>3. CASE UNCHANGED vars
  <2>1. GraphInv' /\ RefsInv' /\ Grows /\ UNCHANGED scan
    BY <1>3 DEF vars, IndInv, GraphInv, RefsInv, Grows, Commits, Parents
  <2> QED
    BY <2>1, GitKeepsScan DEF IndInv
<1> QED
  BY <1>1, <1>2, <1>3 DEF Next

-----------------------------------------------------------------------------
(* The properties.                                                          *)

\* The invariant of a scan beside Git.
THEOREM HistoryInvariant == Spec => []IndInv
<1>1. IndInv /\ [Next]_vars => IndInv'
  BY NextKeepsInv
<1> QED
  BY <1>1, InitInv, PTL DEF Spec

\* Commits, branches and the scan keep their form: a scan reports commits only,
\* however the branches move while it runs.
THEOREM HistoryTypes == Spec => []TypeOK
<1>1. IndInv => TypeOK
  <2> SUFFICES ASSUME IndInv PROVE TypeOK
    OBVIOUS
  <2>1. \A c \in Commits : /\ \A i \in DOMAIN commits[c].parents : commits[c].parents[i] \in 1..(c - 1)
                           /\ commits[c].tree \in [Paths -> Blobs]
    <3>1. \A c \in Commits : commits[c] \in [parents : Seq(Nat), tree : [Paths -> Blobs]]
      BY CommitsAre, ElementOfSeq DEF IndInv, GraphInv
    <3> QED
      BY <3>1 DEF IndInv, GraphInv, Parents
  <2> QED
    BY <2>1 DEF IndInv, RefsInv, ScanType, TypeOK
<1> QED
  BY <1>1, HistoryInvariant, PTL

\* In a history of any length, whatever Git and its failures do beside the scan:
\* what a clean scan of everything passes over was dropped by a merge
\* (verify.rs:140-142).
THEOREM OnlyMergesHideLeaks == Spec => []OnlyMergesHide
<1>1. IndInv => OnlyMergesHide
  <2> SUFFICES ASSUME IndInv, scan.pc = "done", scan.found = {}, scan.range = Everything,
                      NEW p \in Paths
               PROVE  Explained(scan.from[p], {}, p)
    BY DEF OnlyMergesHide, ExitCode, Explained
  <2>1. Clean(p)
    BY DEF Clean
  <2> QED
    BY <2>1 DEF IndInv, CleanInv
<1> QED
  BY <1>1, HistoryInvariant, PTL

\* Of every bad commit that a..b brings into the history of a, however long the
\* branches are and however often they were merged: if a scan of the range is
\* clean, the same was in a's history before or a merge of the range dropped it
\* (README.md:187).  A branch without merges brings nothing new.
THEOREM CleanRangesBringOnlyDropped == Spec => []CleanRangeBringsOnlyDropped
<1>1. IndInv => CleanRangeBringsOnlyDropped
  <2> SUFFICES ASSUME IndInv, scan.pc = "done", scan.found = {}, scan.range # Everything,
                      NEW p \in Paths
               PROVE  Explained(scan.from[p], scan.without[p], p)
    BY DEF CleanRangeBringsOnlyDropped, ExitCode, Explained
  <2>1. Clean(p)
    BY DEF Clean
  <2> QED
    BY <2>1 DEF IndInv, CleanInv
<1> QED
  BY <1>1, HistoryInvariant, PTL
=============================================================================
