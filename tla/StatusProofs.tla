---------------------------- MODULE StatusProofs ----------------------------
(***************************************************************************)
(* What `gitveil status` may be trusted with, for any keys, values, labels *)
(* and merge stages.  LookInv is the inductive invariant of the verdict    *)
(* "clean": as long as the record fits the plaintext that was read, and no *)
(* moment was yet as the record says, the ciphertext is none that fits.    *)
(***************************************************************************)
EXTENDS Status, PairSyncProofs

\* The record was made of the ciphertext whose values were agreed upon.
RecordedInv ==
  \A p \in Parts \ clouded : recorded # NoRecord /\ recorded[1][p] = agreed[p]

LabelInv == PairInv /\ StatusTypeOK /\ RecordedInv

\* A resolve in flight is one of a merge that is not over.
ResolveInv == cmd.op = "resolve" => stages # NoStages

\* What the reads of a status in flight have to do with each other.
LookInv ==
  /\ look.at = "rest" => look = NoLook
  /\ look # NoLook =>
       /\ AsRecorded => alike
       /\ ~look.unmerged => stages = NoStages
       /\ ~alike /\ ~look.unmerged /\ base # NoRecord /\ look.plain = base =>
            /\ look.at = "ciphertext" => <<cipher, label>> # recorded
            /\ look.at = "record" => look.leaves # recorded

StatusInv == LabelInv /\ SyncInv /\ ResolveInv /\ LookInv

-----------------------------------------------------------------------------
(* Labels.                                                                  *)

\* Encrypting anew gives leaves that are in no file, record or look.
LEMMA FreshIs ==
  ASSUME StatusTypeOK, NEW d \in Documents \cup {Missing, Markers}
  PROVE  Fresh(d) \in Labels /\ <<d, Fresh(d)>> \notin InPlay
<1> DEFINE r == IF recorded = NoRecord THEN label ELSE recorded[2]
<1>1. label \in Labels /\ ours \in Labels /\ look.leaves[2] \in Labels /\ r \in Labels
  BY DEF StatusTypeOK, Leaves, Looks
<1>2. PICK l \in Labels : l \notin {label, ours, look.leaves[2], r}
  <2> HIDE DEF r
  <2> QED
    BY <1>1, LabelsAssumption
<1>3. <<d, l>> \in Leaves
  BY DEF Leaves
<1>4. <<d, l>> # recorded
  <2>1. CASE recorded = NoRecord
    BY <1>3, <2>1, LabelsAssumption
  <2>2. CASE recorded # NoRecord
    BY <1>2, <2>2
  <2> QED
    BY <2>1, <2>2
<1>5. <<d, l>> # look.leaves /\ <<d, l>> # <<cipher, label>>
  BY <1>2 DEF StatusTypeOK, Leaves, Looks
<1>6. <<d, l>> \notin InPlay
  BY <1>2, <1>4, <1>5 DEF InPlay
<1> QED
  BY <1>6 DEF Fresh

\* Every step of StatusNext is one of the pair, or none of its business.
LEMMA StatusIsPairStep == StatusNext \/ UNCHANGED statusVars => [Next]_vars
BY DEF StatusNext, PairStep, PullLeaves, ConflictLeaves, AbortLeaves, AddLeaves, WriteLeaves,
       RecordLeaves, LoseLeaves, OtherStep, StartStatus, ReadPlaintext, ReadCiphertext,
       ReadRecord, Reading, statusVars, Next, GitStep, CommandStep

\* What the steps of the pair do to labels and to the record's leaves.
LEMMA LabelStep ==
  ASSUME LabelInv, PairStep, PairInv'
  PROVE  /\ label' \in Labels /\ ours' \in Labels
         /\ \/ UNCHANGED <<recorded, agreed, clouded>> /\ base' = base
            \/ recorded' = NoRecord /\ base' = NoRecord /\ clouded' = Parts
            \/ SaveBaseline /\ recorded' = <<cipher, label>>
<1> USE DEF keyless, history, files
<1>1. label \in Labels /\ ours \in Labels /\ First \in Labels
  BY LabelsAssumption DEF LabelInv, StatusTypeOK, First
<1>2. cipher \in Documents \cup {Missing, Markers} /\ cipher' \in Documents \cup {Missing, Markers}
      /\ cmd.toCipher \in Documents \cup {Missing}
  BY DEF LabelInv, PairInv, TypeOK, Commands
<1>3. \A d \in Documents \cup {Missing, Markers} : Fresh(d) \in Labels
  BY FreshIs DEF LabelInv
<1>4. CASE PullLeaves
  BY <1>1, <1>2, <1>3, <1>4 DEF PullLeaves, Possible, GitPull, vars
<1>5. CASE ConflictLeaves
  BY <1>1, <1>5 DEF ConflictLeaves, GitMergeConflict
<1>6. CASE AbortLeaves
  BY <1>1, <1>6 DEF AbortLeaves, GitMergeAbort
<1>7. CASE AddLeaves
  BY <1>1, <1>7 DEF AddLeaves, GitAdd
<1>8. CASE WriteLeaves
  <2>1. cmd.op \in {"open", "seal", "converge", "resolve"} /\ Fresh(cmd.toCipher) \in Labels
    <3>1. cmd.op # "none"
      BY <1>8 DEF WriteLeaves, WriteCiphertext, LabelInv, PairInv, BusyInv, Idle
    <3> QED
      BY <1>2, <1>3, <3>1 DEF LabelInv, PairInv, TypeOK, Commands
  <2>2. UNCHANGED <<ours, recorded, agreed, clouded>> /\ base' = base
    BY <1>8 DEF WriteLeaves, WriteCiphertext
  <2>3. CASE cmd.op # "open"
    <3>1. label' \in {label, ours, Fresh(cmd.toCipher)}
      BY <1>8, <2>1, <2>3 DEF WriteLeaves
    <3> QED
      BY <1>1, <2>1, <2>2, <3>1
  <2>4. CASE cmd.op = "open"
    BY <1>8, <2>4 DEF LabelInv, PairInv, BusyInv, WriteLeaves, WriteCiphertext
  <2> QED
    BY <2>3, <2>4
<1>9. CASE RecordLeaves
  BY <1>1, <1>9 DEF RecordLeaves
<1>10. CASE LoseLeaves
  BY <1>1, <1>10 DEF LoseLeaves, LoseBaseline
<1>11. CASE OtherStep
  BY <1>1, <1>11
  DEF OtherStep, UserStep, EditPlaintext, DeletePlaintext, Die, StartOpen, StartSeal,
      StartResolve, StartConverge, WritePlaintext
<1> QED
  BY <1>4, <1>5, <1>6, <1>7, <1>8, <1>9, <1>10, <1>11 DEF PairStep

-----------------------------------------------------------------------------
(* The invariant of status beside any steps.                                *)

\* The invariant holds at first.
LEMMA InitLabelInv == StatusInit => LabelInv
<1> SUFFICES ASSUME StatusInit PROVE LabelInv
  OBVIOUS
<1>1. PairInv
  BY InitPairInv DEF StatusInit
<1>2. First \in Labels
  BY LabelsAssumption DEF First
<1>3. StatusTypeOK
  BY <1>2 DEF StatusInit, Init, StatusTypeOK, NoLook, Looks, Leaves
<1>4. RecordedInv
  BY DEF StatusInit, Init, RecordedInv
<1> QED
  BY <1>1, <1>3, <1>4 DEF LabelInv

\* The reads of status change nothing, and read what is there.
LEMMA ReadKeepsLabels ==
  ASSUME LabelInv, StartStatus \/ ReadPlaintext \/ ReadCiphertext \/ ReadRecord
  PROVE  StatusTypeOK' /\ RecordedInv'
<1>1. UNCHANGED <<vars, keyless>>
  BY DEF StartStatus, ReadPlaintext, ReadCiphertext, ReadRecord, Reading
<1>2. RecordedInv'
  BY <1>1 DEF vars, keyless, LabelInv, RecordedInv
<1>3. NoLook \in Looks
  BY LabelsAssumption DEF NoLook, Looks, Leaves, First
<1>4. look' \in Looks /\ alike' \in BOOLEAN
  <2>1. /\ plain \in Documents \cup {Missing, Markers} /\ <<cipher, label>> \in Leaves
        /\ look \in Looks /\ alike \in BOOLEAN /\ AsRecorded \in BOOLEAN
    BY DEF LabelInv, PairInv, TypeOK, StatusTypeOK, Leaves, AsRecorded
  <2>2. CASE StartStatus
    BY <1>3, <2>1, <2>2 DEF StartStatus, Looks
  <2>3. CASE ReadPlaintext
    BY <2>1, <2>3 DEF ReadPlaintext, Looks
  <2>4. CASE ReadCiphertext
    BY <2>1, <2>4 DEF ReadCiphertext, Looks
  <2>5. CASE ReadRecord
    BY <1>3, <2>5 DEF ReadRecord
  <2> QED
    BY <2>2, <2>3, <2>4, <2>5
<1>5. StatusTypeOK'
  BY <1>1, <1>4 DEF vars, keyless, LabelInv, StatusTypeOK, Leaves, Looks
<1> QED
  BY <1>2, <1>5

\* A step of the pair leaves a record of the ciphertext that was agreed upon.
LEMMA PairStepKeepsLabels ==
  ASSUME LabelInv, PairStep, PairInv'
  PROVE  StatusTypeOK' /\ RecordedInv'
<1>1. /\ label' \in Labels /\ ours' \in Labels
      /\ \/ UNCHANGED <<recorded, agreed, clouded>> /\ base' = base
         \/ recorded' = NoRecord /\ base' = NoRecord /\ clouded' = Parts
         \/ SaveBaseline /\ recorded' = <<cipher, label>>
  BY LabelStep
<1>2. look' = look /\ look \in Looks /\ alike' \in BOOLEAN
  BY DEF PairStep, LabelInv, StatusTypeOK
<1>3. CASE UNCHANGED <<recorded, agreed, clouded>> /\ base' = base
  BY <1>1, <1>2, <1>3 DEF LabelInv, StatusTypeOK, RecordedInv, Leaves, Looks
<1>4. CASE recorded' = NoRecord /\ base' = NoRecord /\ clouded' = Parts
  BY <1>1, <1>2, <1>4 DEF StatusTypeOK, RecordedInv, Leaves, Looks
<1>5. CASE SaveBaseline /\ recorded' = <<cipher, label>>
  <2>1. <<cipher, label>> \in Leaves /\ <<cipher, label>> # NoRecord
    <3>1. cipher \in Documents \cup {Missing, Markers} /\ label \in Labels
      BY DEF LabelInv, PairInv, TypeOK, StatusTypeOK
    <3>2. <<cipher, label>> \in Leaves
      BY <3>1 DEF Leaves
    <3> QED
      BY <3>2, LabelsAssumption
  <2>2. base' # NoRecord
    <3>1. base' = cmd.toRecord /\ cmd.toRecord # Missing
      BY <1>5 DEF SaveBaseline
    <3>2. cmd.toRecord \in Documents \cup {Missing}
      BY DEF LabelInv, PairInv, TypeOK, Commands
    <3> QED
      BY <3>1, <3>2, DocumentIsNot
  <2>3. StatusTypeOK'
    BY <1>1, <1>2, <1>5, <2>1, <2>2 DEF StatusTypeOK, Leaves, Looks
  <2>4. RecordedInv'
    <3>1. \A p \in Agreement : p \in Parts /\ plain[p] = cipher[p]
      BY DEF Agreement
    <3>2. \A p \in Parts \ clouded' : agreed'[p] = cipher[p]
      BY <1>5, <3>1 DEF SaveBaseline
    <3> QED
      BY <1>5, <2>1, <3>2 DEF RecordedInv
  <2> QED
    BY <2>3, <2>4
<1> QED
  BY <1>1, <1>3, <1>4, <1>5

\* Every step keeps the invariant.
LEMMA NextKeepsLabels ==
  ASSUME LabelInv, [StatusNext]_statusVars
  PROVE  LabelInv'
<1>1. PairInv'
  BY StatusIsPairStep, NextKeepsPair DEF LabelInv
<1>2. CASE UNCHANGED statusVars
  BY <1>1, <1>2
  DEF statusVars, vars, keyless, LabelInv, StatusTypeOK, RecordedInv, Leaves, Looks
<1>3. CASE StatusNext
  BY <1>1, <1>3, PairStepKeepsLabels, ReadKeepsLabels DEF StatusNext, LabelInv
<1> QED
  BY <1>2, <1>3

\* The invariant of status beside any steps.
THEOREM LabelInvariant == StatusSpec => []LabelInv
<1>1. LabelInv /\ [StatusNext]_statusVars => LabelInv'
  BY NextKeepsLabels
<1> QED
  BY <1>1, InitLabelInv, PTL DEF StatusSpec

\* The record has both halves or none, whatever happens between the reads.
THEOREM StatusTypes == StatusSpec => []StatusTypeOK
<1>1. LabelInv => StatusTypeOK
  BY DEF LabelInv
<1> QED
  BY <1>1, LabelInvariant, PTL

-----------------------------------------------------------------------------
(* The verdicts on files that keep still.                                   *)

\* The verdicts on a pair with a record are made of two documents.
LEMMA VerdictOfRecord ==
  ASSUME NEW unmerged, NEW p, NEW leaves, NEW rec, NEW recLeaves, NEW verdict,
         verdict = Verdict(unmerged, p, leaves, rec, recLeaves),
         verdict \in {"Clean", "Behind", "LocalEdits"}
  PROVE  /\ rec # NoRecord /\ ~unmerged
         /\ leaves[1] \notin {Missing, Markers} /\ p \notin {Missing, Markers}
         /\ verdict \in {"Clean", "Behind"} => Moved(rec, p) = {}
         /\ verdict \in {"Clean", "LocalEdits"} => leaves = recLeaves
BY DEF Verdict, BaselineStatus, KeylessStatus, MovedLeaves

\* A plaintext in which nothing has moved is what the record says.
LEMMA NothingMoved ==
  ASSUME NEW rec \in Documents, NEW d \in Documents, Moved(rec, d) = {}
  PROVE  d = rec
<1>1. \A p \in Parts : rec[p] = d[p]
  BY DEF Moved, SameView
<1> QED
  BY <1>1, SameParts

\* Neither "clean" nor "behind" passes over a value that was typed since the last
\* successful command and is held nowhere else.
THEOREM FreshEditsAreSeen == StatusSpec => []FreshEditsAreReported
<1>1. LabelInv => FreshEditsAreReported
  <2> SUFFICES ASSUME LabelInv, Now \in {"Clean", "Behind"}
               PROVE  \A p \in Parts : plain[p] \in known[p]
    BY DEF FreshEditsAreReported
  <2>1. /\ base # NoRecord /\ plain \notin {Missing, Markers} /\ Moved(base, plain) = {}
    BY VerdictOfRecord DEF Now
  <2>2. base \in Documents /\ plain \in Documents
    BY <2>1 DEF LabelInv, PairInv, TypeOK
  <2>3. plain = base
    BY <2>1, <2>2, NothingMoved
  <2> QED
    BY <2>1, <2>3 DEF LabelInv, PairInv, KnownInv
<1> QED
  BY <1>1, LabelInvariant, PTL

\* Who follows the advice of "behind" gets the ciphertext, without a dispute
\* (status.rs:19, open/plan.rs).
THEOREM BehindOpens == StatusSpec => []BehindCanBeOpened
<1>1. LabelInv => BehindCanBeOpened
  <2> SUFFICES ASSUME LabelInv, Now = "Behind" PROVE BehindCanBeOpened
    BY DEF BehindCanBeOpened
  <2>1. /\ base # NoRecord /\ plain \notin {Missing, Markers} /\ Moved(base, plain) = {}
        /\ cipher \notin {Missing, Markers}
    BY VerdictOfRecord DEF Now
  <2>2. base \in Documents /\ plain \in Documents /\ cipher \in Documents
    BY <2>1 DEF LabelInv, PairInv, TypeOK
  <2>3. plain = base
    BY <2>1, <2>2, NothingMoved
  <2>4. Disputed(base, base, cipher) = {} /\ Merged(base, base, cipher) \in {base, cipher}
    BY <2>2, PlanOfRecorded
  <2> QED
    BY <2>2, <2>3, <2>4, DocumentIsNot DEF PlanOpen, BehindCanBeOpened
<1> QED
  BY <1>1, LabelInvariant, PTL

\* Who follows the advice of "local edits" takes back nothing that came in since
\* the pair last agreed.
THEOREM SealAdvice == StatusSpec => []SealAdviceIsSafe
<1>1. LabelInv => SealAdviceIsSafe
  <2> SUFFICES ASSUME LabelInv, Now \in {"LocalEdits", "Clean"}, NEW p \in Parts \ clouded
               PROVE  cipher[p] = agreed[p]
    BY DEF SealAdviceIsSafe
  <2>1. recorded = <<cipher, label>>
    BY VerdictOfRecord DEF Now
  <2> QED
    BY <2>1 DEF LabelInv, RecordedInv
<1> QED
  BY <1>1, LabelInvariant, PTL
-----------------------------------------------------------------------------
(* The verdict "clean" on files that are replaced between the reads.        *)

\* A look is taken from its start to its end.
LEMMA InitStatusInv == StatusInit => StatusInv
<1> SUFFICES ASSUME StatusInit PROVE StatusInv
  OBVIOUS
<1>1. SyncInv /\ LabelInv
  BY InitSyncInv, InitLabelInv DEF StatusInit
<1>2. ResolveInv /\ LookInv
  BY DEF StatusInit, Init, Idle, ResolveInv, LookInv, NoLook
<1> QED
  BY <1>1, <1>2 DEF StatusInv

\* Git ends no merge while a resolve is in flight.
LEMMA StepKeepsResolve ==
  ASSUME ResolveInv, [Next]_vars
  PROVE  ResolveInv'
<1> USE DEF ResolveInv, files
<1>1. CASE UNCHANGED vars
  BY <1>1 DEF vars
<1>2. CASE UserStep
  BY <1>2 DEF UserStep, EditPlaintext, DeletePlaintext
<1>3. CASE GitStep \/ LoseBaseline
  BY <1>3 DEF GitStep, GitPull, GitMergeConflict, GitAdd, GitMergeAbort, LoseBaseline, Idle
<1>4. CASE StartOpen \/ StartSeal \/ StartResolve \/ StartConverge
  BY <1>4 DEF StartOpen, StartSeal, StartResolve, StartConverge, Owing, Idle
<1>5. CASE WriteCiphertext \/ WritePlaintext
  BY <1>5 DEF WriteCiphertext, WritePlaintext, Owing, Idle
<1>6. CASE SaveBaseline \/ Die
  BY <1>6 DEF SaveBaseline, Die, Idle
<1> QED
  BY <1>1, <1>2, <1>3, <1>4, <1>5, <1>6 DEF Next, CommandStep

\* Beside a status only open, seal and resolve take steps, and none of them
\* touches the index.
LEMMA SyncStepIs ==
  ASSUME PairStep, SyncStep
  PROVE  /\ UNCHANGED stages
         /\ cmd.op \in {"none", "open", "seal", "resolve"}
         /\ \/ WriteLeaves
            \/ RecordLeaves
            \/ UNCHANGED <<cipher, base, label, recorded>>
<1> USE DEF files, history, keyless
<1>1. cmd' # cmd /\ cmd.op \in {"none", "open", "seal", "resolve"}
  BY DEF SyncStep
<1>2. ~(PullLeaves \/ ConflictLeaves \/ AbortLeaves \/ AddLeaves \/ LoseLeaves)
  BY <1>1 DEF PullLeaves, ConflictLeaves, AbortLeaves, AddLeaves, LoseLeaves, GitPull,
              GitMergeConflict, GitMergeAbort, GitAdd, LoseBaseline, vars
<1>3. CASE WriteLeaves
  BY <1>1, <1>3 DEF WriteLeaves, WriteCiphertext
<1>4. CASE RecordLeaves
  BY <1>1, <1>4 DEF RecordLeaves, SaveBaseline
<1>5. CASE OtherStep
  BY <1>1, <1>5 DEF OtherStep, UserStep, EditPlaintext, DeletePlaintext, Die, StartOpen, StartSeal,
               StartResolve, StartConverge, WritePlaintext
<1> QED
  BY <1>2, <1>3, <1>4, <1>5 DEF PairStep

\* A record that open or seal saves says what both files hold.
LEMMA SavedIsAsRecorded ==
  ASSUME StatusInv, RecordLeaves, cmd.op \in {"none", "open", "seal"}
  PROVE  AsRecorded'
<1>1. /\ cmd.toCipher = Missing /\ cmd.toPlain = Missing /\ cmd.toRecord # Missing
      /\ base' = cmd.toRecord /\ plain' = plain /\ cipher' = cipher
      /\ recorded' = <<cipher, label>>
  BY DEF RecordLeaves, SaveBaseline, files
<1>2. cmd.op \in {"open", "seal"}
  BY <1>1 DEF StatusInv, LabelInv, PairInv, BusyInv, Idle
<1>3. plain = cmd.toRecord
  BY <1>1, <1>2 DEF StatusInv, SyncInv, OpenInv, OwedInv
<1>4. cmd.toRecord \in Documents
  BY <1>1 DEF StatusInv, LabelInv, PairInv, TypeOK, Commands
<1> QED
  BY <1>1, <1>3, <1>4, DocumentIsNot DEF AsRecorded

\* What seal writes is not what the record was made of: it is encrypted anew.
LEMMA SealedIsNew ==
  ASSUME StatusInv, WriteLeaves, cmd.op \in {"none", "open", "seal"}
  PROVE  <<cipher, label>>' # recorded'
<1>1. /\ cmd.toCipher # Missing /\ cipher' = cmd.toCipher /\ recorded' = recorded
  BY DEF WriteLeaves, WriteCiphertext
<1>2. cmd.op = "seal"
  BY <1>1 DEF StatusInv, LabelInv, PairInv, BusyInv, Idle
<1>3. label' = Fresh(cmd.toCipher)
  BY <1>2 DEF WriteLeaves
<1>4. cmd.toCipher \in Documents \cup {Missing, Markers} /\ StatusTypeOK
  BY DEF StatusInv, LabelInv, PairInv, TypeOK, Commands
<1>5. <<cmd.toCipher, Fresh(cmd.toCipher)>> # recorded
  BY <1>4, FreshIs DEF InPlay
<1> QED
  BY <1>1, <1>3, <1>5

\* Steps beside a status keep what its reads have to do with each other.
LEMMA PairStepKeepsLook ==
  ASSUME StatusInv, PairStep
  PROVE  LookInv'
<1>1. look' = look /\ alike' = (look # NoLook /\ (alike \/ AsRecorded'))
  BY DEF PairStep
<1>2. CASE look = NoLook
  BY <1>1, <1>2 DEF LookInv, NoLook
<1>3. CASE look # NoLook
  <2>1. SyncStep
    BY <1>3 DEF PairStep
  <2>2. /\ UNCHANGED stages
        /\ cmd.op \in {"none", "open", "seal", "resolve"}
        /\ \/ WriteLeaves
           \/ RecordLeaves
           \/ UNCHANGED <<cipher, base, label, recorded>>
    BY <2>1, SyncStepIs
  <2>3. /\ look.at # "rest"
        /\ AsRecorded' => alike'
        /\ ~look.unmerged => stages' = NoStages
    BY <1>1, <1>3, <2>2 DEF StatusInv, LookInv
  <2>4. ASSUME ~alike', ~look.unmerged, base' # NoRecord, look.plain = base'
        PROVE  /\ look.at = "ciphertext" => <<cipher, label>>' # recorded'
               /\ look.at = "record" => look.leaves # recorded'
    <3>1. ~alike /\ ~AsRecorded'
      BY <1>1, <1>3, <2>4
    <3>2. cmd.op \in {"none", "open", "seal"}
      BY <1>3, <2>2, <2>4 DEF StatusInv, LookInv, ResolveInv
    <3>3. CASE RecordLeaves
      BY <3>1, <3>2, <3>3, SavedIsAsRecorded
    <3>4. CASE WriteLeaves
      <4>1. <<cipher, label>>' # recorded'
        BY <3>2, <3>4, SealedIsNew
      <4>2. base' = base /\ recorded' = recorded
        BY <3>4 DEF WriteLeaves, WriteCiphertext
      <4> QED
        BY <1>3, <2>4, <3>1, <4>1, <4>2 DEF StatusInv, LookInv
    <3>5. CASE UNCHANGED <<cipher, base, label, recorded>>
      BY <1>3, <2>4, <3>1, <3>5 DEF StatusInv, LookInv
    <3> QED
      BY <2>2, <3>3, <3>4, <3>5
  <2> QED
    BY <1>1, <2>3, <2>4 DEF LookInv
<1> QED
  BY <1>2, <1>3

\* A read sees what is there at its moment.
LEMMA ReadKeepsLook ==
  ASSUME StatusInv, StartStatus \/ ReadPlaintext \/ ReadCiphertext \/ ReadRecord
  PROVE  LookInv'
<1>1. UNCHANGED <<plain, cipher, base, stages, label, recorded>>
  BY DEF StartStatus, ReadPlaintext, ReadCiphertext, ReadRecord, Reading, vars, keyless
<1>2. AsRecorded' = AsRecorded
  BY <1>1 DEF AsRecorded
<1>3. look \in Looks
  BY DEF StatusInv, LabelInv, StatusTypeOK
<1>4. CASE StartStatus
  BY <1>1, <1>2, <1>4 DEF StartStatus, NoLook, LookInv
<1>5. CASE ReadPlaintext
  <2>1. /\ look'.at = "ciphertext" /\ look'.plain = plain
        /\ look'.unmerged = look.unmerged /\ alike' = alike
    BY <1>3, <1>5 DEF ReadPlaintext, Looks
  <2>2. look # NoLook
    BY <1>5 DEF ReadPlaintext, NoLook
  <2>3. (AsRecorded => alike) /\ (~look.unmerged => stages = NoStages)
    BY <2>2 DEF StatusInv, LookInv
  <2>4. ASSUME ~alike, base # NoRecord, plain = base
        PROVE  <<cipher, label>> # recorded
    <3>1. cipher # recorded[1]
      BY <2>3, <2>4 DEF AsRecorded
    <3> QED
      BY <3>1
  <2> QED
    BY <1>1, <1>2, <2>1, <2>3, <2>4 DEF LookInv
<1>6. CASE ReadCiphertext
  <2>1. /\ look'.at = "record" /\ look'.plain = look.plain
        /\ look'.leaves = <<cipher, label>>
        /\ look'.unmerged = look.unmerged /\ alike' = alike /\ look.at = "ciphertext"
    BY <1>3, <1>6 DEF ReadCiphertext, Looks
  <2>2. look # NoLook
    BY <2>1 DEF NoLook
  <2> QED
    BY <1>1, <1>2, <2>1, <2>2 DEF StatusInv, LookInv
<1>7. CASE ReadRecord
  BY <1>7 DEF ReadRecord, LookInv, NoLook
<1> QED
  BY <1>4, <1>5, <1>6, <1>7

\* Every step keeps the invariant of the verdict.
LEMMA NextKeepsStatus ==
  ASSUME ~EditsWhileRunning, StatusInv, [StatusNext]_statusVars
  PROVE  StatusInv'
<1>1. [Next]_vars
  BY StatusIsPairStep
<1>2. LabelInv' /\ SyncInv' /\ ResolveInv'
  BY <1>1, NextKeepsLabels, NextKeepsSync, StepKeepsResolve DEF StatusInv
<1>3. LookInv'
  <2>1. CASE UNCHANGED statusVars
    BY <2>1 DEF statusVars, vars, keyless, StatusInv, LookInv, AsRecorded
  <2>2. CASE StatusNext
    BY <2>2, PairStepKeepsLook, ReadKeepsLook DEF StatusNext
  <2> QED
    BY <2>1, <2>2
<1> QED
  BY <1>2, <1>3 DEF StatusInv

\* Though open, seal and resolve may replace every file between the reads of a
\* status that takes no lock, when it says "clean" there was a moment at which
\* both files held what the record says of them (status.rs status_entry).
THEOREM CleanVerdict ==
  ASSUME ~EditsWhileRunning
  PROVE  StatusSpec => []CleanWasTrue
<1>1. StatusInv /\ [StatusNext]_statusVars => StatusInv'
  BY NextKeepsStatus
<1>2. StatusInv => CleanWasTrue
  <2> SUFFICES ASSUME StatusInv, look.at = "record", Given = "Clean" PROVE alike
    BY DEF CleanWasTrue
  <2>1. /\ base # NoRecord /\ ~look.unmerged /\ look.plain \notin {Missing, Markers}
        /\ Moved(base, look.plain) = {} /\ look.leaves = recorded
    BY VerdictOfRecord DEF Given
  <2>2. base \in Documents /\ look.plain \in Documents
    BY <2>1 DEF StatusInv, LabelInv, PairInv, TypeOK, StatusTypeOK, Looks
  <2>3. look.plain = base
    BY <2>1, <2>2, NothingMoved
  <2>4. look # NoLook
    BY DEF NoLook
  <2> QED
    BY <2>1, <2>3, <2>4 DEF StatusInv, LookInv, StatusTypeOK, LabelInv
<1> QED
  BY <1>1, <1>2, InitStatusInv, PTL DEF StatusSpec
=============================================================================
