------------------------------ MODULE History ------------------------------
(* `gitveil verify` (verify.rs): a scan of the commits for plaintext that was
   committed and for ciphertext files that are no envelopes.

   Commits are numbered in the order they were made, commit 1 is empty.  Git
   is external: which commits `git rev-list -- path` prints is modelled with
   its default history simplification, because the scan relies on it.  Of a
   file only what the scan can tell apart is kept: a format stands for a valid
   envelope of that format, "leaky" for one that says it has the declared
   format and is not valid, "text" for anything else.  One managed pair: the
   entries of a manifest are scanned one after the other and share nothing.  *)
EXTENDS Naturals, Sequences, FiniteSets, FiniteSetsExt

CONSTANTS Refs,         \* names of branches
          Formats,      \* formats of envelopes
          Declared,     \* the format the manifest declares for the pair
          Changes,      \* what a commit may do: <<path, new content>>
          MaxCommits    \* bound: commits ever made

ASSUME HistoryAssumption ==
  /\ Declared \in Formats /\ Formats \cap {"absent", "text", "leaky"} = {}
  /\ Changes \subseteq {"plain", "cipher"} \X ({"absent", "text", "leaky"} \cup Formats)
  /\ MaxCommits \in Nat \ {0}

VARIABLES commits,  \* sequence of [parents, tree]
          refs,     \* commit each branch is at, 0 when there is no branch
          scan      \* the running verify
vars == <<commits, refs, scan>>

Paths == {"plain", "cipher"}
Blobs == {"absent", "text", "leaky"} \cup Formats
Commits == DOMAIN commits
Everything == "all"
Ranges ==                                      \* <<a, b>> is a..b
  {Everything} \cup {r \in Refs \X Refs : r[1] # r[2]}

\* The branches and the excluded commits each list was made from are kept to
\* state the properties.
Idle == [pc |-> "idle", range |-> Everything, found |-> {},
         from |-> [p \in Paths |-> {}],
         without |-> [p \in Paths |-> {}]]

-----------------------------------------------------------------------------
(* Git.                                                                     *)

Parents(c) == {commits[c].parents[i] : i \in DOMAIN commits[c].parents}

\* The commit itself and everything behind it; parents have smaller numbers.
Ancestors[c \in Commits] == {c} \cup UNION {Ancestors[q] : q \in Parents(c)}

Reach(tips) == UNION {Ancestors[c] : c \in tips}

At(c, p) == commits[c].tree[p]

Tips(range) ==
  IF range = Everything THEN {refs[b] : b \in Refs} \ {0} ELSE {refs[range[2]]}
Excluded(range) == IF range = Everything THEN {} ELSE Ancestors[refs[range[1]]]

\* Parents behind the excluded end of a range do not count.
Relevant(range, q) == q \notin Excluded(range) \/ q = refs[range[1]]

\* Which parents of a commit have the path as it has it.
Same(range, p, c) ==
  {i \in DOMAIN commits[c].parents :
     LET q == commits[c].parents[i] IN Relevant(range, q) /\ At(q, p) = At(c, p)}

\* A merge that has the path from one of its parents is followed to the first
\* such parent only.
Followed(range, p, c) ==
  IF Same(range, p, c) = {} THEN Parents(c)
  ELSE {commits[c].parents[Min(Same(range, p, c))]}

\* And it is not printed.
Touched(range, p, c) ==
  IF Parents(c) = {} THEN At(c, p) # "absent"
  ELSE /\ Same(range, p, c) = {}
       /\ \E q \in Parents(c) : Relevant(range, q) \/ At(q, p) # At(c, p)

\* The walk from the newest commits down.
Walk(range, p) ==
  LET walked[c \in Commits] ==
        \/ c \in Tips(range)
        \/ \E d \in Commits : c \in Followed(range, p, d) /\ walked[d]
  IN  {c \in Commits : walked[c]}

\* The commits git rev-list prints for one path.
RevList(range, p) ==
  {c \in Walk(range, p) \ Excluded(range) : Touched(range, p, c)}

\* Where two sides last agreed.
MergeBase(c, d) == Max(Ancestors[c] \cap Ancestors[d])

\* A path that one side changed is taken from that side; a conflict is
\* resolved to either.
MergedBlobs(c, d, p) ==
  LET base == At(MergeBase(c, d), p)
  IN  CASE At(c, p) = base -> {At(d, p)}
        [] At(d, p) = base -> {At(c, p)}
        [] OTHER -> {At(c, p), At(d, p)}

Add(b, commit) ==
  /\ Len(commits) < MaxCommits
  /\ commits' = Append(commits, commit)
  /\ refs' = [refs EXCEPT ![b] = Len(commits) + 1]
  /\ UNCHANGED scan

\* Any file may be committed at either path, also with git add -f.  A commit
\* of other files leaves both as they are.
Commit(b) ==
  /\ refs[b] # 0
  /\ \E change \in Changes :
       Add(b, [parents |-> <<refs[b]>>,
               tree |-> [commits[refs[b]].tree EXCEPT ![change[1]] = change[2]]])

Merge(b, d) ==
  /\ refs[b] # 0 /\ refs[d] # 0
  /\ refs[d] \notin Ancestors[refs[b]] /\ refs[b] \notin Ancestors[refs[d]]
  /\ \E plain \in MergedBlobs(refs[b], refs[d], "plain"),
        cipher \in MergedBlobs(refs[b], refs[d], "cipher") :
       Add(b, [parents |-> <<refs[b], refs[d]>>,
               tree |-> [p \in Paths |-> IF p = "plain" THEN plain ELSE cipher]])

Branch(b, d) ==
  /\ refs[b] = 0 /\ refs[d] # 0
  /\ refs' = [refs EXCEPT ![b] = refs[d]]
  /\ UNCHANGED <<commits, scan>>

DeleteBranch(b) ==
  /\ refs[b] # 0 /\ \E d \in Refs \ {b} : refs[d] # 0
  /\ refs' = [refs EXCEPT ![b] = 0]
  /\ UNCHANGED <<commits, scan>>

-----------------------------------------------------------------------------
(* The scan.                                                                *)

\* The blob is a valid envelope of the format, by its structure alone.
Parses(blob, format) == blob = format /\ blob \in Formats

\* The format a file says it has.
DetectFormat(blob) ==
  CASE blob \in Formats -> blob [] blob = "leaky" -> Declared [] OTHER -> "none"

\* Mutant: what says it is an envelope is taken for one.
SaysNothing(blob) == blob # "absent" /\ DetectFormat(blob) = "none"

\* A plaintext path may hold envelopes, from repositories that once kept them
\* there.
PlaintextViolation(blob) ==
  blob # "absent" /\ ~Parses(blob, DetectFormat(blob))

CiphertextViolation(blob) ==
  /\ blob # "absent"
  /\ \/ DetectFormat(blob) # Declared
     \/ ~Parses(blob, Declared)

Violates(p, blob) ==
  IF p = "plain" THEN PlaintextViolation(blob) ELSE CiphertextViolation(blob)

\* A range names revisions, not options.
Verify(range) ==
  /\ scan.pc = "idle"
  /\ range # Everything => refs[range[1]] # 0 /\ refs[range[2]] # 0
  /\ scan' = [Idle EXCEPT !.pc = "plain", !.range = range]
  /\ UNCHANGED <<commits, refs>>

\* Mutant: a commit that cannot be read is taken for one that removed the path.
ScanOrSkip(p, next) ==
  /\ scan.pc = p
  /\ IF scan.range # Everything /\ 0 \in {refs[scan.range[1]], refs[scan.range[2]]}
     THEN scan' = [Idle EXCEPT !.pc = "failed"]
     ELSE \E read \in SUBSET RevList(scan.range, p) :
            scan' = [scan EXCEPT !.pc = next,
                       !.found = @ \cup {<<c, p>> : c \in {d \in read : Violates(p, At(d, p))}},
                       !.from[p] = Tips(scan.range), !.without[p] = Excluded(scan.range)]
  /\ UNCHANGED <<commits, refs>>

\* List the commits that touch a path, then read each: a commit that removed
\* the path has nothing to report.  What a commit holds does not change, so
\* listing and reading are one step.  If a branch of the range has been deleted
\* Git does not know it.
ScanPath(p, next) ==
  /\ scan.pc = p
  /\ IF scan.range # Everything /\ 0 \in {refs[scan.range[1]], refs[scan.range[2]]}
     THEN scan' = [Idle EXCEPT !.pc = "failed"]
     ELSE scan' = [scan EXCEPT !.pc = next,
                     !.found = @ \cup {<<c, p>> : c \in {d \in RevList(scan.range, p) :
                                                          Violates(p, At(d, p))}},
                     !.from[p] = Tips(scan.range), !.without[p] = Excluded(scan.range)]
  /\ UNCHANGED <<commits, refs>>

ScanPlaintext == ScanPath("plain", "cipher")
ScanCiphertext == ScanPath("cipher", "done")

\* Any call of Git may fail (a pruned object, a path that was a directory).
\* The scan ends with nothing reported.
GitFails ==
  /\ scan.pc \in Paths
  /\ scan' = [Idle EXCEPT !.pc = "failed"]
  /\ UNCHANGED <<commits, refs>>

\* The documented exit code of a command that has come to its end.
ExitCode == CASE scan.pc = "done" /\ scan.found = {} -> 0
              [] scan.pc = "done" -> 3
              [] OTHER -> 1

\* Mutant: the next scan starts with what this one found.
ExitKeeping ==
  /\ scan.pc \in {"done", "failed"}
  /\ scan' = [Idle EXCEPT !.found = scan.found]
  /\ UNCHANGED <<commits, refs>>

Exit ==
  /\ scan.pc \in {"done", "failed"}
  /\ scan' = Idle
  /\ UNCHANGED <<commits, refs>>

-----------------------------------------------------------------------------
Init ==
  /\ commits = <<[parents |-> <<>>, tree |-> [p \in Paths |-> "absent"]]>>
  /\ \E b \in Refs : refs = [d \in Refs |-> IF d = b THEN 1 ELSE 0]
  /\ scan = Idle

GitStep ==
  \E b \in Refs :
    \/ Commit(b) \/ DeleteBranch(b)
    \/ \E d \in Refs \ {b} : Merge(b, d) \/ Branch(b, d)

ScanStep ==
  \/ \E range \in Ranges : Verify(range)
  \/ ScanPlaintext \/ ScanCiphertext \/ GitFails \/ Exit

Next == GitStep \/ ScanStep

Spec == Init /\ [][Next]_vars

-----------------------------------------------------------------------------
(* Properties.                                                              *)

TypeOK ==
  /\ \A c \in Commits :
       /\ \A i \in DOMAIN commits[c].parents : commits[c].parents[i] \in 1..(c - 1)
       /\ commits[c].tree \in [Paths -> Blobs]
  /\ refs \in [Refs -> {0} \cup Commits]
  /\ scan.pc \in {"idle", "plain", "cipher", "done", "failed"}
  /\ scan.range \in Ranges
  /\ scan.found \subseteq Commits \X Paths
  /\ scan.pc = "idle" => scan = Idle

\* What must not be in a history: at the plaintext path anything but envelopes
\* of old repositories, at the ciphertext path anything but the envelope.
Bad(p, c) == At(c, p) \notin {"absent"} \cup IF p = "plain" THEN Formats ELSE {Declared}

\* A merge that has p from one parent and gives up another one's c for it.
Drops(m, p, c) ==
  \E i, j \in DOMAIN commits[m].parents :
    /\ i # j /\ At(commits[m].parents[j], p) = At(m, p)
    /\ c \in Ancestors[commits[m].parents[i]] \ Ancestors[commits[m].parents[j]]

\* verify.rs:140-142.  What a scan of everything passes over in silence was
\* dropped by a merge: no plaintext and no broken ciphertext at the tip of a
\* branch, or behind it in a history without such merges, is missed, whatever
\* branches do meanwhile and however often Git fails.
OnlyMergesHide ==
  ExitCode = 0 /\ scan.range = Everything =>
    \A p \in Paths : \A c \in Reach(scan.from[p]) :
      Bad(p, c) => \E m \in Reach(scan.from[p]) : Drops(m, p, c)

\* README.md:187: a scan of a..b, the commits that are about to be merged.  If
\* it is clean, then all that is bad among them, and that b brings into the
\* history of a, was in a's history before or was dropped by a merge among them.
\* At b itself, which no such merge can drop, nothing bad is new to a.
CleanRangeBringsOnlyDropped ==
  ExitCode = 0 /\ scan.range # Everything =>
    \A p \in Paths :
      LET range == Reach(scan.from[p]) \ scan.without[p]
      IN  \A c \in range : Bad(p, c) =>
            \/ \E e \in scan.without[p] : At(e, p) = At(c, p)
            \/ \E m \in range : Drops(m, p, c)

\* verify.rs:3-6, 140-142: "Detects ... a manifest plaintext path that ever
\* entered a commit tree"; "A path that ever existed is always touched by at
\* least one commit".
EveryLeakIsFound ==
  ExitCode = 0 /\ scan.range = Everything =>
    \A p \in Paths : \A c \in Reach(scan.from[p]) : ~Bad(p, c)
=============================================================================
