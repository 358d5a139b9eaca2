------------------------------ MODULE PairSync ------------------------------
(***************************************************************************)
(* One managed pair, FILE and FILE.gitveil, with its baseline record and   *)
(* the index stages of a conflicted merge, under the commands that         *)
(* synchronize it: open, seal, resolve, and the convergence step of        *)
(* recipient add/remove.  All of them run under the repository lock, so at *)
(* most one command is in flight; each is a start step (reads and plan)    *)
(* followed by its writes in the order of the code, and it may die between *)
(* any two of them.  The user and Git act on the pair without the lock.    *)
(*                                                                         *)
(* A command that is refused (drifted recipients, no identity, a failed    *)
(* verification) changes nothing and so is no step here; who the envelope  *)
(* is encrypted to is the subject of module Authorization.                 *)
(***************************************************************************)
EXTENDS OpenPlan

CONSTANTS
  Markers,            \* a file left with conflict markers
  NoStages,           \* no conflicted merge in the Git index
  DefaultLayout,      \* layout of the empty document
  MergeBases,         \* bound: what stage 1 of a conflict may hold
  MergeTheirs,        \* bound: what stage 3 of a conflict may hold
  EditsWhileRunning,  \* may the user edit while a command is in flight?
  BaselineMayVanish   \* may the baseline record be lost?

ASSUME FilesAssumption ==
  /\ Markers \notin Documents \cup {Missing}
  /\ NoRecord # Missing
  /\ DefaultLayout \in Layouts
  /\ MergeBases \subseteq Rendered \cup {Missing}
  /\ MergeTheirs \subseteq Rendered
  /\ EditsWhileRunning \in BOOLEAN
  /\ BaselineMayVanish \in BOOLEAN

VARIABLES
  plain,     \* the plaintext file
  cipher,    \* what the ciphertext file decrypts to
  base,      \* the baseline record
  stages,    \* the index stages of the ciphertext
  cmd,       \* the command in flight and the writes it still owes
  agreed,    \* history: the value a part had when the pair last agreed on it
  clouded,   \* history: parts on which the last record was no agreement
  known      \* history: values of a part some file or record holds elsewhere

files == <<plain, cipher, stages>>
history == <<agreed, clouded, known>>
vars == <<plain, cipher, base, stages, cmd, agreed, clouded, known>>

-----------------------------------------------------------------------------
IsDocument(file) == file \notin {Missing, Markers}

Values == Vals \cup WholeVals \cup Layouts \cup {Absent}
Stages == [base : Documents \cup {Missing}, ours : Documents, theirs : Documents]
Commands == [op       : {"none", "open", "seal", "resolve", "converge"},
             toCipher : Documents \cup {Missing},
             toPlain  : Documents \cup {Missing, Markers},
             toRecord : Documents \cup {Missing}]

Idle == [op |-> "none", toCipher |-> Missing, toPlain |-> Missing,
         toRecord |-> Missing]

\* A command that still owes the given writes; with none left it has ended.
Owing(op, c, p, r) ==
  IF c = Missing /\ p = Missing /\ r = Missing THEN Idle
  ELSE [op |-> op, toCipher |-> c, toPlain |-> p, toRecord |-> r]

TypeOK ==
  /\ plain \in Documents \cup {Missing, Markers}
  /\ cipher \in Documents \cup {Missing, Markers}
  /\ base \in Documents \cup {NoRecord}
  /\ stages \in Stages \cup {NoStages}
  /\ cmd \in Commands
  /\ agreed \in [Parts -> Values \cup {NoRecord}]
  /\ clouded \subseteq Parts
  /\ known \in [Parts -> SUBSET Values]

\* The parts on which the plaintext and the ciphertext now agree.
Agreement ==
  {p \in Parts : IsDocument(plain) /\ IsDocument(cipher) /\ plain[p] = cipher[p]}

\* The values of known once the ciphertext file holds document c as well.
AlsoKnown(c) == [p \in Parts |-> known[p] \cup {c[p]}]

-----------------------------------------------------------------------------
(* A pair starts as a plaintext that was never sealed, or as a fresh clone. *)
Init ==
  /\ \/ plain \in Rendered /\ cipher = Missing
     \/ plain = Missing /\ cipher \in Rendered
  /\ base = NoRecord
  /\ stages = NoStages
  /\ cmd = Idle
  /\ agreed = [p \in Parts |-> NoRecord]
  /\ clouded = Parts
  /\ known = [p \in Parts |-> IF cipher = Missing THEN {} ELSE {cipher[p]}]

-----------------------------------------------------------------------------
(* The user and Git.                                                        *)

UserMayAct == cmd = Idle \/ EditsWhileRunning

EditPlaintext ==
  /\ UserMayAct
  /\ plain # Missing
  /\ \E d \in Rendered \ {plain} : plain' = d
  /\ UNCHANGED <<cipher, base, stages, cmd, history>>

DeletePlaintext ==
  /\ UserMayAct
  /\ plain # Missing
  /\ plain' = Missing
  /\ UNCHANGED <<cipher, base, stages, cmd, history>>

\* A fast-forward or clean merge brings in another ciphertext.
GitPull ==
  /\ cmd = Idle /\ stages = NoStages /\ cipher # Markers
  /\ \E d \in Rendered \ {cipher} :
       cipher' = d /\ known' = AlsoKnown(d)
  /\ UNCHANGED <<plain, base, stages, cmd, agreed, clouded>>

\* A merge conflicts in the ciphertext: markers in the file, three stages.
GitMergeConflict ==
  /\ cmd = Idle /\ stages = NoStages /\ IsDocument(cipher)
  /\ \E b \in MergeBases, t \in MergeTheirs \ {cipher} :
       stages' = [base |-> b, ours |-> cipher, theirs |-> t]
  /\ cipher' = Markers
  /\ UNCHANGED <<plain, base, cmd, history>>

GitAdd ==
  /\ cmd = Idle /\ stages # NoStages /\ IsDocument(cipher)
  /\ stages' = NoStages
  /\ UNCHANGED <<plain, cipher, base, cmd, history>>

GitMergeAbort ==
  /\ cmd = Idle /\ stages # NoStages
  /\ cipher' = stages.ours
  /\ known' = AlsoKnown(stages.ours)
  /\ stages' = NoStages
  /\ UNCHANGED <<plain, base, cmd, agreed, clouded>>

\* The record is unreadable or gone; load answers None.
LoseBaseline ==
  /\ BaselineMayVanish /\ cmd = Idle /\ base # NoRecord
  /\ base' = NoRecord
  /\ clouded' = Parts
  /\ UNCHANGED <<files, cmd, agreed, known>>

-----------------------------------------------------------------------------
(* The commands: reads and plan.                                            *)

\* Open records what the plaintext then holds, but only without conflicts.
StartOpen ==
  /\ cmd = Idle
  /\ IsDocument(cipher) /\ plain # Markers
  /\ LET plan   == PlanOpen(base, plain, cipher)
         synced == IF plan.document = Missing THEN plain ELSE plan.document
     IN  cmd' = Owing("open", Missing, plan.document,
                      IF ConflictFree(plan) THEN synced ELSE Missing)
  /\ UNCHANGED <<files, base, history>>

\* Mutant: seal no longer parses the plaintext first.
SealUnparsed ==
  /\ cmd = Idle
  /\ plain # Missing /\ cipher # Markers
  /\ cmd' = Owing("seal", IF cipher = plain THEN Missing ELSE plain,
                  Missing, plain)
  /\ UNCHANGED <<files, base, history>>

\* Seal records even when the ciphertext already says the same.
StartSeal ==
  /\ cmd = Idle
  /\ IsDocument(plain) /\ cipher # Markers
  /\ cmd' = Owing("seal", IF cipher = plain THEN Missing ELSE plain,
                  Missing, plain)
  /\ UNCHANGED <<files, base, history>>

EmptyDocument == [p \in Parts |-> IF p = Residual THEN DefaultLayout ELSE Absent]

\* A clean merge goes to both files and the record; a conflict restores the
\* ours side of the ciphertext and hands a marked plaintext to the user.
StartResolve ==
  /\ cmd = Idle /\ stages # NoStages
  /\ LET b      == IF stages.base = Missing THEN EmptyDocument ELSE stages.base
         merged == MergeStages(b, stages.ours, stages.theirs)
     IN  IF MergeConflicts(b, stages.ours, stages.theirs) = {}
         THEN /\ merged \notin Unrenderable
              /\ cmd' = Owing("resolve", merged, merged, merged)
         ELSE cmd' = Owing("resolve", stages.ours, Markers, Missing)
  /\ UNCHANGED <<files, base, history>>

\* recipient add/remove rewrites the envelope around the same document and
\* records that document; it never reads the plaintext file.
StartConverge ==
  /\ cmd = Idle /\ IsDocument(cipher)
  /\ cmd' = Owing("converge", cipher, Missing, cipher)
  /\ UNCHANGED <<files, base, history>>

-----------------------------------------------------------------------------
(* The commands: writes, each an atomic replacement of one file.            *)

WriteCiphertext ==
  /\ cmd.toCipher # Missing
  /\ cipher' = cmd.toCipher
  /\ known' = AlsoKnown(cmd.toCipher)
  /\ cmd' = Owing(cmd.op, Missing, cmd.toPlain, cmd.toRecord)
  /\ UNCHANGED <<plain, base, stages, agreed, clouded>>

WritePlaintext ==
  /\ cmd.toCipher = Missing /\ cmd.toPlain # Missing
  /\ plain' = cmd.toPlain
  /\ cmd' = Owing(cmd.op, Missing, Missing, cmd.toRecord)
  /\ UNCHANGED <<cipher, base, stages, history>>

\* The command succeeds.  Where the files now agree, that is the agreement;
\* a record made by open, seal or resolve accounts for the plaintext too.
SaveBaseline ==
  /\ cmd.toCipher = Missing /\ cmd.toPlain = Missing /\ cmd.toRecord # Missing
  /\ base' = cmd.toRecord
  /\ agreed' = [p \in Parts |-> IF p \in Agreement THEN plain[p] ELSE agreed[p]]
  /\ clouded' = Parts \ Agreement
  /\ known' = [p \in Parts |->
                 IF cmd.op = "converge" THEN known[p] \cup {cmd.toRecord[p]}
                 ELSE {cmd.toRecord[p]}
                      \cup (IF IsDocument(cipher) THEN {cipher[p]} ELSE {})]
  /\ cmd' = Idle
  /\ UNCHANGED files

\* A crash, or a write that fails: what is written stays, the rest is lost.
Die ==
  /\ cmd # Idle
  /\ cmd' = Idle
  /\ UNCHANGED <<files, base, history>>

-----------------------------------------------------------------------------
UserStep == EditPlaintext \/ DeletePlaintext
GitStep == GitPull \/ GitMergeConflict \/ GitAdd \/ GitMergeAbort
CommandStep ==
  \/ StartOpen \/ StartSeal \/ StartResolve \/ StartConverge
  \/ WriteCiphertext \/ WritePlaintext \/ SaveBaseline \/ Die

Next == UserStep \/ GitStep \/ LoseBaseline \/ CommandStep

Spec == Init /\ [][Next]_vars

-----------------------------------------------------------------------------
(* Properties.                                                              *)

BothMappings ==
  /\ IsDocument(plain) /\ IsMapping(plain)
  /\ IsDocument(cipher) /\ IsMapping(cipher)

\* A value typed since the last successful command and held nowhere else is
\* never overwritten or dropped by open, whatever was pulled, lost, converged
\* or interrupted in between.  A deletion is only protected while there is a
\* baseline record to tell it from a remote addition (open/plan.rs arbitrate).
KeepsFreshEdits ==
  [][cmd.op = "open" /\ BothMappings =>
       \A p \in Parts :
         /\ plain[p] \notin known[p]
         /\ ~(plain[p] = Absent /\ base = NoRecord)
         => plain'[p] = plain[p]]_plain

\* An open that ends without a conflict leaves apart only what the user
\* alone changed: no part that also moved in the ciphertext since the pair
\* last agreed on it is passed over silently (open.rs open_entry).
CleanOpenIsSynchronized ==
  cmd.op = "open" /\ cmd.toPlain = Missing /\ BothMappings =>
    \A p \in Parts \ clouded : plain[p] # cipher[p] => cipher[p] = agreed[p]

\* If open dies between writing the plaintext and saving the record, running
\* it again finds nothing to write and no conflict (open.rs:120-137).
InterruptedOpenRecovers ==
  cmd.op = "open" /\ cmd.toPlain = Missing =>
    LET again == PlanOpen(base, plain, cipher)
    IN  again.document = Missing /\ ConflictFree(again)

\* README.md:195: "plaintext-only changes remain local".  Open keeps a part
\* that changed in the plaintext and not in the ciphertext since both agreed.
PlaintextOnlyChangesRemain ==
  [][cmd.op = "open" /\ BothMappings =>
       \A p \in Parts :
         /\ agreed[p] # NoRecord
         /\ plain[p] # agreed[p] /\ cipher[p] = agreed[p]
         => plain'[p] = plain[p]]_plain

\* README.md:195: "Ciphertext-only changes synchronize automatically".  When
\* open ends without a conflict, no part of the plaintext is still what both
\* sides agreed on while the ciphertext has moved on.
CiphertextOnlyChangesSync ==
  cmd.op = "open" /\ cmd.toPlain = Missing /\ BothMappings =>
    \A p \in Parts :
      agreed[p] # NoRecord /\ plain[p] = agreed[p] => cipher[p] = agreed[p]

\* open/plan.rs:7-8: without a baseline "disagreements become reported
\* conflicts and local-only units are always preserved".
ConservativeModePreserves ==
  [][cmd.op = "open" /\ base = NoRecord /\ IsDocument(plain) =>
       \A u \in Units :
         plain[u] # Absent /\ cipher[u] = Absent => plain'[u] = plain[u]]_plain
=============================================================================
