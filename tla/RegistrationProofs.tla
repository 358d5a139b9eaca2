------------------------- MODULE RegistrationProofs -------------------------
(***************************************************************************)
(* What Registration guarantees for any paths, requests and hand edits, as *)
(* long as no edit falls between a check and the write it guards.  IndInv  *)
(* says, for each point of a command, what it still knows about the two    *)
(* files it has read.                                                      *)
(***************************************************************************)
EXTENDS Registration, TLAPS

\* A planned add protects the loaded paths and those it has found.
PlanInv ==
  /\ cmd.pc \in {"idle", "initialize"} => cmd.loaded = NoFile /\ cmd.existing = {}
  /\ cmd.pc \notin {"idle", "initialize"} =>
       /\ cmd.loaded \in SUBSET Paths
       /\ cmd.loaded \subseteq cmd.lists
       /\ cmd.existing \subseteq cmd.lists

\* The manifest is still the one read wherever a write relies on it.
ManifestInv ==
  /\ cmd.pc \in {"write", "publish"} => manifest = cmd.loaded
  /\ cmd.pc \in {"recheck", "rewrite"} => Listed \subseteq cmd.lists

\* So is the .gitignore.
IgnoreInv ==
  /\ cmd.pc \in {"write", "rewrite"} => ignore = cmd.original
  /\ cmd.pc \in {"restoring", "publish"} => ignore = Candidate

AllProtected == \A p \in cmd.lists : Protected(ignore, nested, p)

\* A proof that succeeded is one about the candidate, or it is not used.
ProofInv ==
  /\ cmd.pc = "judge" /\ cmd.proven /\ ignore = Candidate => AllProtected
  /\ cmd.pc = "tighten" /\ ignore = Candidate => AllProtected
  /\ cmd.pc = "publish" => AllProtected

\* What was found safe beforehand was safe under the original file.
SafeInv ==
  /\ /\ cmd.pc \in {"check", "write", "prove", "judge", "restore", "restoring"}
     /\ cmd.safe
     /\ cmd.pc = "check" => ignore = cmd.original
     => \A p \in cmd.existing : PlaintextIgnored(cmd.original, nested, p)
  /\ cmd.pc \in {"restore", "restoring"} => cmd.safe

IndInv ==
  /\ TypeOK
  /\ PlanInv /\ ManifestInv /\ IgnoreInv /\ ProofInv /\ SafeInv

-----------------------------------------------------------------------------
(* Lemmas about ignore files.                                               *)

\* One stretch of rules after another is a stretch of rules.
LEMMA ThenType ==
  ASSUME NEW s \in Stretches, NEW t \in Stretches
  PROVE  Then(s, t) \in Stretches
BY DEF Then, Stretches

\* Two stretches leave nothing to an empty third one.
LEMMA ThenNoRules ==
  ASSUME NEW s \in Stretches
  PROVE  Then(s, NoRules) = s
BY DEF Then, Stretches, NoRules

\* So is none, and no file.
LEMMA EmptyType == NoRules \in Stretches /\ EmptyIgnore \in IgnoreFiles
BY DEF NoRules, Stretches, Rules, EmptyIgnore, IgnoreFiles

\* What a command reads of a file that may not be there is an ignore file.
LEMMA ContentsType ==
  ASSUME NEW g \in {NoFile} \cup IgnoreFiles
  PROVE  Contents(g) \in IgnoreFiles /\ UserRules(g) \in Stretches
<1>1. Contents(g) \in IgnoreFiles
  BY EmptyType DEF Contents
<1>2. Contents(g).before \in Stretches /\ Contents(g).after \in Stretches
  BY <1>1 DEF IgnoreFiles
<1> QED
  BY <1>1, <1>2, ThenType DEF UserRules

\* Rendering makes a file of its own, with the rules of the user ...
LEMMA RenderType ==
  ASSUME NEW g \in {NoFile} \cup IgnoreFiles, NEW paths \in SUBSET Paths
  PROVE  /\ Render(g, paths) \in IgnoreFiles
         /\ Render(g, paths) \notin {NoFile, Malformed}
         /\ UserRules(Render(g, paths)) = UserRules(g)
<1>1. UserRules(g) \in Stretches
  BY ContentsType
<1>2. Render(g, paths) \in IgnoreFiles
  BY <1>1, EmptyType DEF Render, IgnoreFiles
<1>3. Render(g, paths) \notin {NoFile, Malformed}
  BY <1>2, RegistrationAssumption
<1>4. UserRules(Render(g, paths)) = Then(UserRules(g), NoRules)
  BY <1>3 DEF UserRules, Contents, Render
<1> QED
  BY <1>1, <1>2, <1>3, <1>4, ThenNoRules

\* ... that ignores all it ignored of the paths in its block.
LEMMA RenderKeepsIgnored ==
  ASSUME NEW g \in {NoFile} \cup IgnoreFiles, NEW paths \in SUBSET Paths,
         NEW n \in Stretches, NEW p \in paths, PlaintextIgnored(g, n, p)
  PROVE  PlaintextIgnored(Render(g, paths), n, p)
<1> DEFINE b == Contents(g).before
           a == Contents(g).after
           r == Render(g, paths)
<1>1. a \in Stretches /\ b \in Stretches /\ p \in Paths
  BY ContentsType DEF IgnoreFiles
<1>2. /\ r # Malformed /\ Contents(r) = r
      /\ r.before = Then(b, a) /\ r.after = NoRules /\ InBlock(r, p)
  BY RenderType, RegistrationAssumption DEF Contents, Render, UserRules, InBlock
<1>3. Later(r, n)[p] = n[p] /\ Later(g, n)[p] = IF a[p] = "dir" \/ n[p] = "none"
                                                 THEN a[p] ELSE n[p]
  BY <1>1, <1>2 DEF Later, Then, NoRules, Stretches
<1>4. r.before[p] = IF b[p] = "dir" \/ a[p] = "none" THEN b[p] ELSE a[p]
  BY <1>1, <1>2 DEF Then, Stretches
<1> QED
  BY <1>1, <1>2, <1>3, <1>4 DEF PlaintextIgnored, Stretches, Rules

-----------------------------------------------------------------------------
(* The inductive invariant.                                                 *)

\* The invariant holds at first.
LEMMA InitIndInv == Init => IndInv
<1> SUFFICES ASSUME Init PROVE IndInv
  OBVIOUS
<1>1. TypeOK
  BY EmptyType DEF Init, TypeOK, Idle, Commands
<1> QED
  BY <1>1 DEF Init, Idle, IndInv, PlanInv, ManifestInv, IgnoreInv, ProofInv, SafeInv

\* The edits that keep the invariant: neither at a bad moment nor reverting.
LEMMA HandStepIndInv ==
  ASSUME ~RacyEdits, IndInv, HandStep
  PROVE  IndInv'
<1>1. CASE EditManifest
  <2>1. manifest' \in {NoFile, Garbage} \cup SUBSET Paths
    BY <1>1, RegistrationAssumption DEF EditManifest
  <2> QED
    BY <1>1, <2>1 DEF EditManifest, IndInv, TypeOK, PlanInv, ManifestInv, IgnoreInv,
       ProofInv, SafeInv, AllProtected, Candidate, ManifestWindow
<1>2. CASE EditIgnore
  <2>1. ignore' \in {NoFile, Malformed} \cup IgnoreFiles
    <3>1. CASE ignore = Malformed
      BY <1>2, <3>1, EmptyType DEF EditIgnore, HandEdited
    <3>2. CASE ignore # Malformed
      <4>1. Contents(ignore) \in IgnoreFiles
        BY <3>2, ContentsType DEF IndInv, TypeOK
      <4>2. ASSUME NEW r \in HandRules
            PROVE  [Contents(ignore) EXCEPT
                      !.after = Then(@, [NoRules EXCEPT ![r[1]] = r[2]])] \in IgnoreFiles
        <5>1. [NoRules EXCEPT ![r[1]] = r[2]] \in Stretches
          BY <4>2, RegistrationAssumption DEF NoRules, Stretches, Rules
        <5> QED
          BY <4>1, <5>1, ThenType DEF IgnoreFiles
      <4>3. /\ [Contents(ignore) EXCEPT !.before = NoRules, !.after = NoRules] \in IgnoreFiles
            /\ [Contents(ignore) EXCEPT !.block = NoBlock] \in IgnoreFiles
        BY <4>1, EmptyType DEF IgnoreFiles
      <4> QED
        BY <1>2, <3>2, <4>2, <4>3, EmptyType DEF EditIgnore, HandEdited
    <3> QED
      BY <3>1, <3>2
  <2>2. /\ UNCHANGED <<manifest, nested, cmd>>
        /\ cmd.pc \notin IgnoreWindow
        /\ cmd # Idle => ignore' \notin {cmd.original, Candidate}
    BY <1>2 DEF EditIgnore
  <2>3. Candidate' = Candidate /\ Listed' = Listed
    BY <2>2 DEF Candidate, Listed
  <2> QED
    BY <2>1, <2>2, <2>3 DEF IndInv, TypeOK, PlanInv, ManifestInv, IgnoreInv,
       ProofInv, SafeInv, AllProtected, IgnoreWindow, Idle
<1>3. CASE EditNested
  BY <1>3 DEF EditNested, IndInv, TypeOK, PlanInv, ManifestInv, IgnoreInv, ProofInv,
     SafeInv, Idle, Listed
<1> QED
  BY <1>1, <1>2, <1>3 DEF HandStep

\* With no command in flight only the types matter.
LEMMA IdleIndInv ==
  ASSUME TypeOK', cmd' = Idle
  PROVE  IndInv'
BY DEF Idle, IndInv, PlanInv, ManifestInv, IgnoreInv, ProofInv, SafeInv

\* It is kept by the end of a command,
LEMMA EndIndInv ==
  ASSUME IndInv, End
  PROVE  IndInv'
<1>1. TypeOK'
  BY DEF End, IndInv, TypeOK, Idle, Commands
<1> QED
  BY <1>1, IdleIndInv DEF End

\* by the steps of `init`,
LEMMA InitStepIndInv ==
  ASSUME IndInv, InitStep
  PROVE  IndInv'
<1>1. CASE StartInit
  BY <1>1 DEF StartInit, Goto, Idle, IndInv, TypeOK, Commands, PlanInv, ManifestInv,
     IgnoreInv, ProofInv, SafeInv
<1>2. CASE PublishInitial
  <2>1. TypeOK'
    BY <1>2 DEF PublishInitial, IndInv, TypeOK, Idle, Commands
  <2> QED
    BY <1>2, <2>1, IdleIndInv DEF PublishInitial
<1> QED
  BY <1>1, <1>2 DEF InitStep

\* Each step of add.
LEMMA AddStepIndInv ==
  ASSUME IndInv, AddStep
  PROVE  IndInv'
<1> USE DEF IndInv, PlanInv, ManifestInv, IgnoreInv, ProofInv, SafeInv
<1> USE DEF Goto
<1>1. CASE StartAdd
  <2>1. PICK paths \in Requests, existing \in SUBSET Paths :
          /\ existing \subseteq paths
          /\ cmd' = [Idle EXCEPT !.pc = "prepare", !.loaded = manifest,
                       !.lists = manifest \cup paths, !.existing = existing]
    BY <1>1 DEF StartAdd
  <2>2. paths \in SUBSET Paths /\ manifest \in SUBSET Paths
    BY <1>1, RegistrationAssumption DEF StartAdd, TypeOK
  <2> QED
    BY <1>1, <2>1, <2>2 DEF StartAdd, Idle, TypeOK, Commands
<1>2. CASE PrepareIgnore
  <2>1. CASE End
    BY <2>1, EndIndInv
  <2>2. CASE ~End
    <3>1. /\ ignore \in {NoFile} \cup IgnoreFiles
          /\ cmd' = [cmd EXCEPT !.pc = "match", !.original = ignore]
          /\ UNCHANGED <<manifest, ignore, nested>>
      BY <1>2, <2>2 DEF PrepareIgnore, TypeOK
    <3>2. cmd.pc = "prepare" /\ cmd \in Commands
      BY <1>2 DEF PrepareIgnore, TypeOK
    <3>3. /\ cmd' \in Commands /\ cmd'.pc = "match" /\ cmd'.loaded = cmd.loaded
          /\ cmd'.lists = cmd.lists /\ cmd'.existing = cmd.existing
      BY <3>1, <3>2 DEF Commands
    <3> QED
      BY <3>1, <3>2, <3>3 DEF TypeOK
  <2> QED
    BY <2>1, <2>2
<1>3. CASE MatchBefore
  BY <1>3 DEF MatchBefore, TypeOK, Commands
<1>4. CASE CheckConfiguration
  <2>1. CASE End
    BY <2>1, EndIndInv
  <2>2. CASE ~End
    BY <1>4, <2>2 DEF CheckConfiguration, TypeOK, Commands
  <2> QED
    BY <2>1, <2>2
<1>5. CASE WriteIgnore
  <2>1. Candidate \in IgnoreFiles
    BY RenderType DEF TypeOK, Commands, Candidate
  <2> QED
    BY <1>5, <2>1 DEF WriteIgnore, TypeOK, Commands
<1>6. CASE Prove
  BY <1>6 DEF Prove, TypeOK, Commands, Candidate, AllProtected
<1>7. CASE Judge
  <2>1. CASE End
    BY <2>1, EndIndInv
  <2>2. CASE ~End
    <3>1. PICK pc \in {"recover", "tighten", "restore"} :
          /\ cmd' = [cmd EXCEPT !.pc = pc] /\ UNCHANGED <<manifest, ignore, nested>>
          /\ pc # "recover" => ignore = Candidate /\ manifest = cmd.loaded
          /\ pc = "restore" => cmd.safe
          /\ pc = "tighten" => cmd.proven
      BY <1>7, <2>2 DEF Judge
    <3>2. cmd.pc = "judge" /\ cmd \in Commands
      BY <1>7 DEF Judge, TypeOK
    <3>3. /\ cmd' \in Commands /\ cmd'.pc = pc
          /\ \A field \in {"loaded", "lists", "existing", "original", "safe", "proven"} :
               cmd'[field] = cmd[field]
      BY <3>1, <3>2 DEF Commands
    <3>4. Candidate' = Candidate /\ AllProtected' = AllProtected
      BY <3>1, <3>3 DEF Candidate, AllProtected
    <3> QED
      BY <3>1, <3>2, <3>3, <3>4 DEF TypeOK
  <2> QED
    BY <2>1, <2>2
<1>8. CASE CheckRestore
  <2>1. CASE End
    BY <2>1, EndIndInv
  <2>2. CASE ~End
    BY <1>8, <2>2 DEF CheckRestore, TypeOK, Commands, Candidate
  <2> QED
    BY <2>1, <2>2
<1>9. CASE Restore
  <2>1. TypeOK'
    BY <1>9 DEF Restore, TypeOK, Commands, Idle
  <2> QED
    BY <1>9, <2>1, IdleIndInv DEF Restore
<1>10. CASE Tighten
  <2>1. CASE End
    BY <2>1, EndIndInv
  <2>2. CASE ~End
    <3>1. PICK pc \in {"recover", "publish"} :
          /\ cmd' = [cmd EXCEPT !.pc = pc] /\ UNCHANGED <<manifest, ignore, nested>>
          /\ pc = "publish" => ignore = Candidate /\ manifest = cmd.loaded
      BY <1>10, <2>2 DEF Tighten
    <3>2. cmd.pc = "tighten" /\ cmd \in Commands
      BY <1>10 DEF Tighten, TypeOK
    <3>3. /\ cmd' \in Commands /\ cmd'.pc = pc
          /\ \A field \in {"loaded", "lists", "existing", "original", "safe", "proven"} :
               cmd'[field] = cmd[field]
      BY <3>1, <3>2 DEF Commands
    <3>4. Candidate' = Candidate /\ AllProtected' = AllProtected
      BY <3>1, <3>3 DEF Candidate, AllProtected
    <3> QED
      BY <3>1, <3>2, <3>3, <3>4 DEF TypeOK
  <2> QED
    BY <2>1, <2>2
<1>11. CASE PublishManifest
  <2>1. TypeOK'
    BY <1>11 DEF PublishManifest, TypeOK, Commands, Idle
  <2> QED
    BY <1>11, <2>1, IdleIndInv DEF PublishManifest
<1>12. CASE Recover
  <2>1. CASE End
    BY <2>1, EndIndInv
  <2>2. CASE ~End
    <3>1. /\ ignore # Malformed
          /\ cmd' = [cmd EXCEPT !.pc = "recheck", !.lists = cmd.lists \cup Listed,
                       !.original = Contents(ignore)]
          /\ UNCHANGED <<manifest, ignore, nested>>
      BY <1>12, <2>2 DEF Recover
    <3>2. Contents(ignore) \in IgnoreFiles /\ Listed \in SUBSET Paths /\ Listed' = Listed
      BY <3>1, ContentsType DEF TypeOK, Listed
    <3> QED
      BY <1>12, <3>1, <3>2 DEF Recover, TypeOK, Commands
  <2> QED
    BY <2>1, <2>2
<1>13. CASE Recheck
  <2>1. CASE End
    BY <2>1, EndIndInv
  <2>2. CASE ~End
    BY <1>13, <2>2 DEF Recheck, TypeOK, Commands, Listed
  <2> QED
    BY <2>1, <2>2
<1>14. CASE WriteRecovered
  <2>1. Candidate \in IgnoreFiles
    BY RenderType DEF TypeOK, Commands, Candidate
  <2>2. TypeOK'
    BY <1>14, <2>1 DEF WriteRecovered, TypeOK, Commands, Idle
  <2> QED
    BY <1>14, <2>2, IdleIndInv DEF WriteRecovered
<1> QED
  BY <1>1, <1>2, <1>3, <1>4, <1>5, <1>6, <1>7, <1>8, <1>9, <1>10, <1>11, <1>12,
     <1>13, <1>14 DEF AddStep

\* and by all of them.
LEMMA NextIndInv ==
  ASSUME ~RacyEdits, IndInv, [Next]_vars
  PROVE  IndInv'
<1>1. CASE UNCHANGED vars
  BY <1>1 DEF vars, IndInv, TypeOK, PlanInv, ManifestInv, IgnoreInv, ProofInv, SafeInv,
     AllProtected, Candidate, Listed
<1>2. CASE Die
  BY <1>2, EndIndInv DEF Die
<1> QED
  BY <1>1, <1>2, HandStepIndInv, InitStepIndInv, AddStepIndInv DEF Next

\* IndInv is an invariant of the specification without racy edits.
THEOREM Invariance ==
  ASSUME ~RacyEdits
  PROVE  Spec => []IndInv
<1>1. IndInv /\ [Next]_vars => IndInv'
  BY NextIndInv
<1> QED
  BY <1>1, InitIndInv, PTL DEF Spec

-----------------------------------------------------------------------------
(* The properties.                                                          *)

\* Which steps of the commands write which file.
LEMMA Writers ==
  ASSUME [Next]_vars, cmd' # cmd
  PROVE  /\ UNCHANGED nested
         /\ manifest' # manifest => PublishInitial \/ PublishManifest
         /\ ignore' # ignore => WriteIgnore \/ Restore \/ WriteRecovered
BY DEF vars, Next, HandStep, EditManifest, EditIgnore, EditNested, InitStep, StartInit,
   AddStep, StartAdd, PrepareIgnore, MatchBefore, CheckConfiguration, Prove, Judge,
   CheckRestore, Tighten, Recover, Recheck, Die, End, Goto, PublishInitial,
   PublishManifest, WriteIgnore, Restore, WriteRecovered

\* Files and commands are well-formed: in particular a command goes on with a
\* .gitignore only if its managed block could be read.
THEOREM TypeCorrect ==
  ASSUME ~RacyEdits
  PROVE  Spec => []TypeOK
<1>1. IndInv => TypeOK
  BY DEF IndInv
<1> QED
  BY <1>1, Invariance, PTL

\* README.md:144: init and add replace the manifest they have read and no
\* other.
THEOREM NoManifestOverwritten ==
  ASSUME ~RacyEdits
  PROVE  Spec => NoOverwrittenManifest
<1> DEFINE P == cmd' # cmd /\ manifest' # manifest => manifest = cmd.loaded
<1>1. IndInv /\ [Next]_vars => P
  BY Writers DEF IndInv, PlanInv, ManifestInv, PublishInitial, PublishManifest
<1> HIDE DEF P
<1>2. Spec => [][P]_vars
  BY <1>1, Invariance, PTL DEF Spec
<1> QED
  BY <1>2 DEF NoOverwrittenManifest, P

\* README.md:144: no write of .gitignore, its withdrawal and its recovery
\* included, loses a rule of the user.
THEOREM NoUserRuleLost ==
  ASSUME ~RacyEdits
  PROVE  Spec => UserRulesSurvive
<1> DEFINE P == cmd' # cmd /\ ignore' # ignore =>
                  ignore # Malformed /\ UserRules(ignore') = UserRules(ignore)
<1>1. IndInv /\ [Next]_vars => P
  <2> SUFFICES ASSUME IndInv, [Next]_vars, cmd' # cmd, ignore' # ignore
               PROVE  ignore # Malformed /\ UserRules(ignore') = UserRules(ignore)
    OBVIOUS
  <2>1. /\ cmd.original \in {NoFile} \cup IgnoreFiles
        /\ cmd.lists \in SUBSET Paths
    BY DEF IndInv, TypeOK, Commands
  <2>2. /\ Candidate # Malformed
        /\ UserRules(Candidate) = UserRules(cmd.original)
        /\ cmd.original # Malformed
    BY <2>1, RenderType, RegistrationAssumption DEF Candidate
  <2> QED
    BY <2>2, Writers DEF IndInv, IgnoreInv, WriteIgnore, Restore, WriteRecovered
<1> HIDE DEF P
<1>2. Spec => [][P]_vars
  BY <1>1, Invariance, PTL DEF Spec
<1> QED
  BY <1>2 DEF UserRulesSurvive, P

\* README.md:114,135: every path in a manifest that add publishes is
\* protected at that moment.
THEOREM OnlyProtectedPublished ==
  ASSUME ~RacyEdits
  PROVE  Spec => PublishedIsProtected
<1> DEFINE P == cmd' # cmd /\ manifest' # manifest =>
                  \A p \in manifest' : Protected(ignore, nested, p)
<1>1. IndInv /\ [Next]_vars => P
  BY Writers DEF IndInv, ProofInv, AllProtected, PublishInitial, PublishManifest
<1> HIDE DEF P
<1>2. Spec => [][P]_vars
  BY <1>1, Invariance, PTL DEF Spec
<1> QED
  BY <1>2 DEF PublishedIsProtected, P

\* configure.rs publish_registration: commands expose no plaintext they have
\* found, and listed paths only by withdrawing a failed candidate.
THEOREM NothingExposed ==
  ASSUME ~RacyEdits
  PROVE  Spec => ProtectionIsRetained
<1> DEFINE P ==
      cmd' # cmd =>
        \A p \in cmd.existing \cup (IF cmd.pc = "restoring" THEN {} ELSE Listed) :
          PlaintextIgnored(ignore, nested, p) => PlaintextIgnored(ignore', nested', p)
<1>1. IndInv /\ [Next]_vars => P
  <2> SUFFICES ASSUME IndInv, [Next]_vars, cmd' # cmd, ignore' # ignore,
                      NEW p \in cmd.existing
                                \cup (IF cmd.pc = "restoring" THEN {} ELSE Listed),
                      PlaintextIgnored(ignore, nested, p)
               PROVE  PlaintextIgnored(ignore', nested', p)
    BY Writers
  <2>1. UNCHANGED nested /\ (WriteIgnore \/ Restore \/ WriteRecovered)
    BY Writers
  <2>2. /\ cmd.original \in {NoFile} \cup IgnoreFiles
        /\ cmd.lists \in SUBSET Paths
        /\ nested \in Stretches
    BY RegistrationAssumption DEF IndInv, TypeOK, Commands
  <2>3. CASE WriteIgnore \/ WriteRecovered
    <3>1. ignore = cmd.original /\ ignore' = Candidate
      BY <2>3 DEF WriteIgnore, WriteRecovered, IndInv, IgnoreInv
    <3>2. p \in cmd.lists
      BY <2>3 DEF WriteIgnore, WriteRecovered, IndInv, PlanInv, ManifestInv, Listed
    <3> QED
      BY <2>1, <2>2, <3>1, <3>2, RenderKeepsIgnored DEF Candidate
  <2>4. CASE Restore
    BY <2>1, <2>4 DEF Restore, IndInv, SafeInv
  <2> QED
    BY <2>1, <2>3, <2>4
<1> HIDE DEF P
<1>2. Spec => [][P]_vars
  BY <1>1, Invariance, PTL DEF Spec
<1> QED
  BY <1>2 DEF ProtectionIsRetained, P

\* configure.rs recover_concurrent_manifest: the block that recovery writes
\* covers both sides of the lost race.
THEOREM RecoveryCoversBoth ==
  ASSUME ~RacyEdits
  PROVE  Spec => RecoveryProtectsBoth
<1> DEFINE P == cmd.pc = "rewrite" /\ ignore' # ignore =>
                  \A p \in Listed \cup cmd.lists : InBlock(ignore', p)
<1>1. IndInv /\ [Next]_vars => P
  <2> SUFFICES ASSUME IndInv, [Next]_vars, cmd.pc = "rewrite", ignore' # ignore,
                      NEW p \in Listed \cup cmd.lists
               PROVE  InBlock(ignore', p)
    OBVIOUS
  <2>1. WriteRecovered
    <3>1. ~HandStep
      BY DEF HandStep, EditManifest, EditIgnore, EditNested, IgnoreWindow
    <3>2. Next
      BY DEF vars
    <3>3. ~InitStep /\ ~Die
      BY DEF InitStep, StartInit, PublishInitial, Die, End, Goto
    <3> QED
      BY <3>1, <3>2, <3>3 DEF Next, AddStep, StartAdd, PrepareIgnore, MatchBefore,
         CheckConfiguration, WriteIgnore, Prove, Judge, CheckRestore, Restore, Tighten,
         PublishManifest, Recover, Recheck
  <2>2. /\ Candidate \notin {NoFile} /\ cmd.lists \in SUBSET Paths
        /\ p \in cmd.lists
    BY RenderType DEF IndInv, TypeOK, Commands, ManifestInv, Candidate
  <2>3. cmd.lists # NoBlock
    BY <2>2, RegistrationAssumption
  <2> QED
    BY <2>1, <2>2, <2>3 DEF WriteRecovered, Candidate, InBlock, Contents, Render
<1> HIDE DEF P
<1>2. Spec => [][P]_vars
  BY <1>1, Invariance, PTL DEF Spec
<1> QED
  BY <1>2 DEF RecoveryProtectsBoth, P
=============================================================================
