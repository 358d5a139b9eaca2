------------------------------- MODULE Status -------------------------------
(***************************************************************************)
(* `gitveil status` beside the commands of PairSync.  It has no key: it    *)
(* compares the plaintext and the encrypted leaves with what the baseline  *)
(* record says of each.  It takes no lock: it reads the index, the         *)
(* plaintext, the ciphertext and the record one after the other, and       *)
(* anything may happen in between.                                         *)
(*                                                                         *)
(* The leaves of an envelope are its document and a label: the same value  *)
(* encrypted again makes other leaves, equal leaves hold equal values.     *)
(* Drift of the recipients is a comparison of two sets (Authorization) and *)
(* left out, and so are files that cannot be parsed.                       *)
(***************************************************************************)
EXTENDS PairSync

CONSTANT Labels   \* bound: labels of envelopes that are told apart

VARIABLES
  label,     \* the label of the ciphertext file
  ours,      \* the label of the ours stage
  recorded,  \* the leaves the baseline record was made with
  look,      \* what a status in flight has read
  alike      \* history: both files were as recorded during this status

keyless == <<label, ours, recorded>>
statusVars == <<vars, keyless, look, alike>>

First == CHOOSE l \in Labels : TRUE

NoLook == [at |-> "rest", unmerged |-> FALSE, plain |-> Missing,
           leaves |-> <<Missing, First>>]

Leaves == (Documents \cup {Missing, Markers}) \X Labels

\* There is a label beside those of the files, the index and a look.
ASSUME LabelsAssumption ==
  /\ Labels # {}
  /\ \A a, b, c, d \in Labels : \E l \in Labels : l \notin {a, b, c, d}
  /\ NoRecord \notin Leaves

Looks == [at : {"rest", "plaintext", "ciphertext", "record"}, unmerged : BOOLEAN,
          plain : Documents \cup {Missing, Markers}, leaves : Leaves]

\* The record has both halves or none, and an answer is made of real reads.
StatusTypeOK ==
  /\ label \in Labels /\ ours \in Labels
  /\ recorded \in Leaves \cup {NoRecord}
  /\ recorded = NoRecord <=> base = NoRecord
  /\ look \in Looks
  /\ alike \in BOOLEAN

-----------------------------------------------------------------------------
(* What status says.                                                        *)

\* Mutant: does not look for units that are gone.
MovedOrAdded(rec, d) ==
  {p \in Parts : IF p = Residual THEN rec[p] # d[p]
                 ELSE d[p] # Absent /\ ~SameView(rec, d, p)}

\* diff_plain: the parts of the plaintext that are not as recorded.
Moved(rec, d) ==
  {p \in Parts : IF p = Residual THEN rec[p] # d[p] ELSE ~SameView(rec, d, p)}

\* diff_cipher: whether any leaf is not as recorded.
MovedLeaves(rec, leaves) == leaves # rec

UnitNames(d) == {u \in Units : d[u] # Absent}

\* Mutant: takes a side that moved for the other one.
BaselineStatusSwapped(rec, recLeaves, p, leaves) ==
  IF Moved(rec, p) = {}
  THEN IF MovedLeaves(recLeaves, leaves) THEN "LocalEdits" ELSE "Clean"
  ELSE IF MovedLeaves(recLeaves, leaves) THEN "Diverged" ELSE "Behind"

BaselineStatus(rec, recLeaves, p, leaves) ==
  IF Moved(rec, p) = {}
  THEN IF MovedLeaves(recLeaves, leaves) THEN "Behind" ELSE "Clean"
  ELSE IF MovedLeaves(recLeaves, leaves) THEN "Diverged" ELSE "LocalEdits"

KeylessStatus(p, c) == IF UnitNames(p) = UnitNames(c) THEN "Unknown" ELSE "Differs"

Verdict(unmerged, p, leaves, rec, recLeaves) ==
  LET c == leaves[1]
  IN  IF c = Missing THEN IF p = Missing THEN "Missing" ELSE "CiphertextMissing"
      ELSE IF c = Markers \/ unmerged \/ p = Markers THEN "Conflicted"
      ELSE IF p = Missing THEN "PlaintextMissing"
      ELSE IF rec = NoRecord THEN KeylessStatus(p, c)
      ELSE BaselineStatus(rec, recLeaves, p, leaves)

\* What status would say if nothing moved while it reads.
Now == Verdict(stages # NoStages, plain, <<cipher, label>>, base, recorded)

\* Both files hold what the record says of them.
AsRecorded == base # NoRecord /\ plain = base /\ cipher = recorded[1]

-----------------------------------------------------------------------------
StatusInit ==
  /\ Init
  /\ label = First /\ ours = First
  /\ recorded = NoRecord
  /\ look = NoLook
  /\ alike = FALSE

\* A label that gives document d leaves which nobody has seen.
InPlay == {<<cipher, label>>, recorded, look.leaves} \cup
          (IF stages = NoStages THEN {} ELSE {<<stages.ours, ours>>})
Fresh(d) == CHOOSE l \in Labels : <<d, l>> \notin InPlay
Possible(d) == {Fresh(d)} \cup {l \in Labels : <<d, l>> \in InPlay}

\* Another envelope comes in, perhaps an earlier one; or the same document,
\* encrypted again elsewhere.
PullLeaves ==
  /\ \/ GitPull
     \/ /\ cmd = Idle /\ stages = NoStages /\ IsDocument(cipher)
        /\ UNCHANGED vars
  /\ label' \in Possible(cipher')
  /\ UNCHANGED <<ours, recorded>>

ConflictLeaves ==
  /\ GitMergeConflict
  /\ ours' = label
  /\ UNCHANGED <<label, recorded>>

AbortLeaves ==
  /\ GitMergeAbort
  /\ label' = ours /\ ours' = First
  /\ UNCHANGED recorded

\* Seal encrypts what has changed again; a rewrap keeps all leaves and a
\* rotation none; resolve edits the ours side, rotates it, or restores it.
WriteLeaves ==
  /\ WriteCiphertext
  /\ label' \in
       CASE cmd.op = "seal" -> {Fresh(cmd.toCipher)}
         [] cmd.op = "converge" -> {label, Fresh(cmd.toCipher)}
         [] cmd.op = "resolve" /\ cmd.toPlain = Markers -> {ours}
         [] cmd.op = "resolve" /\ cmd.toPlain # Markers ->
              {Fresh(cmd.toCipher)} \cup
              (IF cmd.toCipher = stages.ours THEN {ours} ELSE {})
  /\ UNCHANGED <<ours, recorded>>

\* Mutant: records the plaintext half only.
RecordPlainHalf ==
  /\ SaveBaseline
  /\ UNCHANGED keyless

\* record_baseline: both halves of a record are made from what the command
\* leaves behind.
RecordLeaves ==
  /\ SaveBaseline
  /\ recorded' = <<cipher, label>>
  /\ UNCHANGED <<label, ours>>

LoseLeaves ==
  /\ LoseBaseline
  /\ recorded' = NoRecord
  /\ UNCHANGED <<label, ours>>

AddLeaves ==
  /\ GitAdd
  /\ ours' = First
  /\ UNCHANGED <<label, recorded>>

OtherStep ==
  /\ \/ UserStep \/ Die
     \/ StartOpen \/ StartSeal \/ StartResolve \/ StartConverge \/ WritePlaintext
  /\ UNCHANGED keyless

\* A step of open, seal or resolve.  Beside a status in flight there are no
\* others: if a user, Git or a recipient command moves a file between its
\* reads, the code promises nothing of what it says.
SyncStep == {cmd.op, cmd'.op} \subseteq {"none", "open", "seal", "resolve"} /\ cmd' # cmd

PairStep ==
  /\ \/ PullLeaves \/ ConflictLeaves \/ AbortLeaves \/ AddLeaves
     \/ WriteLeaves \/ RecordLeaves \/ LoseLeaves \/ OtherStep
  /\ look = NoLook \/ SyncStep
  /\ alike' = (look # NoLook /\ (alike \/ AsRecorded'))
  /\ UNCHANGED look

-----------------------------------------------------------------------------
(* The reads of status.                                                     *)

Reading == UNCHANGED <<vars, keyless>>

StartStatus ==
  /\ look = NoLook
  /\ look' = [NoLook EXCEPT !.at = "plaintext", !.unmerged = (stages # NoStages)]
  /\ alike' = AsRecorded
  /\ Reading

ReadPlaintext ==
  /\ look.at = "plaintext"
  /\ look' = [look EXCEPT !.at = "ciphertext", !.plain = plain]
  /\ UNCHANGED alike /\ Reading

ReadCiphertext ==
  /\ look.at = "ciphertext"
  /\ look' = [look EXCEPT !.at = "record", !.leaves = <<cipher, label>>]
  /\ UNCHANGED alike /\ Reading

\* The record is read last and the verdict given.
ReadRecord ==
  /\ look.at = "record"
  /\ look' = NoLook /\ alike' = FALSE
  /\ Reading

StatusNext ==
  PairStep \/ StartStatus \/ ReadPlaintext \/ ReadCiphertext \/ ReadRecord

StatusSpec == StatusInit /\ [][StatusNext]_statusVars

-----------------------------------------------------------------------------
(* Properties.                                                              *)

Given == Verdict(look.unmerged, look.plain, look.leaves, base, recorded)

\* Open, seal and resolve may replace every file between the reads of status
\* (status.rs status_entry takes no lock); if it then says "clean", there was
\* a moment of this status at which both files held what the record says.
CleanWasTrue ==
  look.at = "record" /\ Given = "Clean" => alike

\* A value typed since the last successful command and held nowhere else is
\* never passed over by "clean" or "behind".
FreshEditsAreReported ==
  Now \in {"Clean", "Behind"} => \A p \in Parts : plain[p] \in known[p]

\* What "behind" advises works: open now ends without a dispute and brings
\* the plaintext up to the ciphertext (status.rs:19, open/plan.rs).
BehindCanBeOpened ==
  Now = "Behind" =>
    LET plan == PlanOpen(base, plain, cipher)
    IN  plan.disputed = {} /\ (plan.structural \/ plan.document \in {cipher, Missing})

\* What "local edits" advises is safe: seal now takes back nothing that
\* came in since the pair last agreed.
SealAdviceIsSafe ==
  Now \in {"LocalEdits", "Clean"} =>
    \A p \in Parts \ clouded : plain[p] # cipher[p] => cipher[p] = agreed[p]
=============================================================================
