---------------------------- MODULE Registration ----------------------------
(***************************************************************************)
(* `gitveil init` and `gitveil add`: the manifest that lists managed paths *)
(* and the .gitignore that keeps their plaintext out of Git are two files, *)
(* written one after the other, while editors and Git write them too.  The *)
(* commands hold the operation lock, so there is one at a time; it may die *)
(* at any step.  A command that is refused before it wrote anything (no    *)
(* manifest, a tracked or malformed plaintext, a conflicting entry) is no  *)
(* step here.                                                              *)
(*                                                                         *)
(* A .gitignore is the managed block, with the user's rules before and     *)
(* after it; for each path only the last rule of a stretch counts, but an  *)
(* ignored parent directory counts always: Git cannot re-include from it.  *)
(***************************************************************************)
EXTENDS FiniteSets

CONSTANTS
  Paths,         \* plaintext paths, each with its ciphertext beside it
  Requests,      \* bound: sets of paths named on a command line
  HandManifests, \* bound: path lists somebody may write into the manifest
  HandRules,     \* bound: <<path, rule>> somebody may append to .gitignore
  NestedRules,   \* bound: rules of ignore files in subdirectories
  NoFile,        \* the file does not exist
  Garbage,       \* a manifest that does not parse
  Malformed,     \* a .gitignore whose managed block is damaged
  NoBlock,       \* a .gitignore without managed block
  RacyEdits      \* may edits fall between a check and the write it guards,
                 \* or revert to just what the command has read or written?

\* What a user rule does to a path: nothing, ignore it and its ciphertext,
\* re-include it, or ignore a directory above it.
Rules == {"none", "hide", "show", "dir"}
Stretches == [Paths -> Rules]
NoRules == [p \in Paths |-> "none"]

IgnoreFiles == [before : Stretches, block : {NoBlock} \cup SUBSET Paths,
                after : Stretches]
EmptyIgnore == [before |-> NoRules, block |-> NoBlock, after |-> NoRules]

ASSUME RegistrationAssumption ==
  /\ Requests \subseteq SUBSET Paths
  /\ HandManifests \subseteq SUBSET Paths
  /\ HandRules \subseteq Paths \X Rules
  /\ NestedRules \subseteq Stretches /\ NestedRules # {}
  /\ \A paths \in SUBSET Paths : paths \notin {NoFile, Garbage, NoBlock}
  /\ \A g \in IgnoreFiles : g \notin {NoFile, Malformed}
  /\ NoFile # Garbage /\ NoFile # Malformed
  /\ RacyEdits \in BOOLEAN

VARIABLES
  manifest,   \* the paths that .gitveilrc.json lists
  ignore,     \* the .gitignore of the repository root
  nested,     \* rules of the ignore files below, which bind more strongly
  cmd         \* the command in flight

vars == <<manifest, ignore, nested, cmd>>

Commands ==
  [pc       : {"idle", "initialize", "prepare", "match", "check", "write", "prove",
               "judge", "restore", "restoring", "tighten", "publish",
               "recover", "recheck", "rewrite"},
   loaded   : {NoFile} \cup SUBSET Paths,       \* the manifest as read
   lists    : SUBSET Paths,                       \* paths to be protected
   existing : SUBSET Paths,                       \* requested, with a plaintext
   original : {NoFile} \cup IgnoreFiles,          \* .gitignore as read
   safe     : BOOLEAN,   \* the existing ones were ignored beforehand
   proven   : BOOLEAN]   \* Git found everything visible as it should be

Idle == [pc |-> "idle", loaded |-> NoFile, lists |-> {}, existing |-> {},
         original |-> NoFile, safe |-> FALSE, proven |-> FALSE]

TypeOK ==
  /\ manifest \in {NoFile, Garbage} \cup SUBSET Paths
  /\ ignore \in {NoFile, Malformed} \cup IgnoreFiles
  /\ nested \in NestedRules
  /\ cmd \in Commands

-----------------------------------------------------------------------------
(* Git's view.                                                              *)

Contents(g) == IF g = NoFile THEN EmptyIgnore ELSE g

\* Of two stretches of rules, one after the other, the later one decides.
Then(s, t) ==
  [p \in Paths |-> IF s[p] = "dir" \/ t[p] = "none" THEN s[p] ELSE t[p]]

\* The user's rules, the block left out.
UserRules(g) == Then(Contents(g).before, Contents(g).after)

\* Rules that come after the block, the nested ones n included.
Later(g, n) == Then(Contents(g).after, n)

InBlock(g, p) == Contents(g).block # NoBlock /\ p \in Contents(g).block

\* Git ignores the plaintext p; of a damaged file nothing is assumed.
PlaintextIgnored(g, n, p) ==
  /\ g # Malformed
  /\ \/ Contents(g).before[p] = "dir"
     \/ Later(g, n)[p] \in {"hide", "dir"}
     \/ Later(g, n)[p] = "none" /\ (InBlock(g, p) \/ Contents(g).before[p] = "hide")

CiphertextIgnored(g, n, p) ==
  /\ g # Malformed
  /\ \/ Contents(g).before[p] = "dir"
     \/ Later(g, n)[p] \in {"hide", "dir"}
     \/ Later(g, n)[p] = "none" /\ ~InBlock(g, p) /\ Contents(g).before[p] = "hide"

Protected(g, n, p) == PlaintextIgnored(g, n, p) /\ ~CiphertextIgnored(g, n, p)

\* render_managed_ignore: any old block goes, a new one comes last.
Render(g, paths) ==
  [before |-> UserRules(g), block |-> paths, after |-> NoRules]

\* What the command has written, or is about to write, to .gitignore.
Candidate == Render(cmd.original, cmd.lists)

Listed == IF manifest \in {NoFile, Garbage} THEN {} ELSE manifest

-----------------------------------------------------------------------------
Init ==
  /\ manifest = NoFile
  /\ ignore \in {NoFile, EmptyIgnore}
  /\ nested \in NestedRules
  /\ cmd = Idle

(* Editors and Git, under no lock.                                          *)

\* Moments when a write is decided on and not yet done.
IgnoreWindow == {"write", "restoring", "publish", "rewrite"}
ManifestWindow == {"write", "publish", "recheck", "rewrite"}

EditManifest ==
  /\ RacyEdits \/ cmd.pc \notin ManifestWindow
  /\ manifest' \in (HandManifests \cup {NoFile, Garbage}) \ {manifest}
  /\ UNCHANGED <<ignore, nested, cmd>>

\* Append a rule, drop the rules, drop the block, the file, or damage it.
HandEdited(g) ==
  {NoFile, EmptyIgnore, Malformed} \cup
  (IF g = Malformed THEN {}
   ELSE {[Contents(g) EXCEPT !.after = Then(@, [NoRules EXCEPT ![r[1]] = r[2]])] :
           r \in HandRules}
        \cup {[Contents(g) EXCEPT !.before = NoRules, !.after = NoRules],
              [Contents(g) EXCEPT !.block = NoBlock]})

EditIgnore ==
  /\ ignore' \in HandEdited(ignore) \ {ignore}
  /\ RacyEdits \/ /\ cmd.pc \notin IgnoreWindow
                  /\ cmd # Idle => ignore' \notin {cmd.original, Candidate}
  /\ UNCHANGED <<manifest, nested, cmd>>

EditNested ==
  /\ RacyEdits \/ cmd = Idle
  /\ nested' \in NestedRules \ {nested}
  /\ UNCHANGED <<manifest, ignore, cmd>>

-----------------------------------------------------------------------------
End == cmd' = Idle /\ UNCHANGED <<manifest, ignore, nested>>

Goto(pc) == cmd' = [cmd EXCEPT !.pc = pc] /\ UNCHANGED <<manifest, ignore, nested>>

\* gitveil init: only where there is no manifest ...
StartInit ==
  /\ cmd = Idle /\ manifest = NoFile
  /\ Goto("initialize")

\* ... and it never replaces one that has appeared meanwhile.
PublishInitial ==
  /\ cmd.pc = "initialize"
  /\ manifest' = IF manifest = NoFile THEN {} ELSE manifest
  /\ cmd' = Idle
  /\ UNCHANGED <<ignore, nested>>

\* gitveil add: load the manifest and plan its new contents.
StartAdd ==
  /\ cmd = Idle /\ manifest \notin {NoFile, Garbage}
  /\ \E paths \in Requests, existing \in SUBSET Paths :
       /\ existing \subseteq paths
       /\ cmd' = [Idle EXCEPT !.pc = "prepare", !.loaded = manifest,
                    !.lists = manifest \cup paths, !.existing = existing]
  /\ UNCHANGED <<manifest, ignore, nested>>

\* Mutant: renders over a damaged block.
PrepareAnything ==
  /\ cmd.pc = "prepare"
  /\ cmd' = [cmd EXCEPT !.pc = "match", !.original = ignore]
  /\ UNCHANGED <<manifest, ignore, nested>>

PrepareIgnore ==
  /\ cmd.pc = "prepare"
  /\ IF ignore = Malformed THEN End
     ELSE /\ cmd' = [cmd EXCEPT !.pc = "match", !.original = ignore]
          /\ UNCHANGED <<manifest, ignore, nested>>

\* Ask Git whether the existing plaintexts are ignored already.
MatchBefore ==
  /\ cmd.pc = "match"
  /\ cmd' = [cmd EXCEPT !.pc = "check",
       !.safe = \A p \in cmd.existing : PlaintextIgnored(ignore, nested, p)]
  /\ UNCHANGED <<manifest, ignore, nested>>

\* ensure_configuration_fresh.
CheckConfiguration ==
  /\ cmd.pc = "check"
  /\ IF manifest = cmd.loaded /\ ignore = cmd.original THEN Goto("write") ELSE End

WriteIgnore ==
  /\ cmd.pc = "write"
  /\ ignore' = Candidate
  /\ cmd' = [cmd EXCEPT !.pc = "prove"]
  /\ UNCHANGED <<manifest, nested>>

\* Mutant: asks about the plaintexts only.
ProvePlaintexts ==
  /\ cmd.pc = "prove"
  /\ cmd' = [cmd EXCEPT !.pc = "judge",
       !.proven = \A p \in cmd.lists : PlaintextIgnored(ignore, nested, p)]
  /\ UNCHANGED <<manifest, ignore, nested>>

\* Ask Git what it makes of the file as it is now.
Prove ==
  /\ cmd.pc = "prove"
  /\ cmd' = [cmd EXCEPT !.pc = "judge",
       !.proven = \A p \in cmd.lists : Protected(ignore, nested, p)]
  /\ UNCHANGED <<manifest, ignore, nested>>

\* Mutant: withdraws any candidate that failed.
JudgeWithdrawing ==
  /\ cmd.pc = "judge"
  /\ CASE ignore # Candidate -> End
       [] ignore = Candidate /\ manifest # cmd.loaded -> Goto("recover")
       [] ignore = Candidate /\ manifest = cmd.loaded ->
            IF cmd.proven THEN Goto("tighten") ELSE Goto("restore")

\* Both files must be as expected before the proof counts; if it failed, the
\* candidate is withdrawn only where nothing was visible before.
Judge ==
  /\ cmd.pc = "judge"
  /\ CASE ignore # Candidate -> End
       [] ignore = Candidate /\ manifest # cmd.loaded -> Goto("recover")
       [] ignore = Candidate /\ manifest = cmd.loaded ->
            IF cmd.proven THEN Goto("tighten")
            ELSE IF cmd.safe THEN Goto("restore") ELSE End

\* Mutant: withdraws the candidate whatever has become of it.
RestoreUnchecked == cmd.pc = "restore" /\ Goto("restoring")

CheckRestore ==
  /\ cmd.pc = "restore"
  /\ IF ignore = Candidate THEN Goto("restoring") ELSE End

Restore ==
  /\ cmd.pc = "restoring"
  /\ ignore' = cmd.original
  /\ cmd' = Idle
  /\ UNCHANGED <<manifest, nested>>

\* Mutant: relies on the checks made before the permissions were tightened.
TightenOnly == cmd.pc = "tighten" /\ Goto("publish")

\* Make the plaintexts private, then check both files once more.
Tighten ==
  /\ cmd.pc = "tighten"
  /\ CASE ignore # Candidate -> End
       [] ignore = Candidate /\ manifest # cmd.loaded -> Goto("recover")
       [] ignore = Candidate /\ manifest = cmd.loaded -> Goto("publish")

PublishManifest ==
  /\ cmd.pc = "publish"
  /\ manifest' = cmd.lists
  /\ cmd' = Idle
  /\ UNCHANGED <<ignore, nested>>

\* Mutant: recovery forgets what the other writer has listed.
RecoverOwnPaths ==
  /\ cmd.pc = "recover"
  /\ IF ignore = Malformed \/ Render(ignore, cmd.lists) = Contents(ignore)
     THEN End
     ELSE /\ cmd' = [cmd EXCEPT !.pc = "recheck", !.original = Contents(ignore)]
          /\ UNCHANGED <<manifest, ignore, nested>>

\* The race for the manifest is lost: protect what either side lists.  A
\* missing file is read as an empty one here, and found changed by Recheck.
Recover ==
  /\ cmd.pc = "recover"
  /\ LET protected == cmd.lists \cup Listed
     IN  IF ignore = Malformed \/ Render(ignore, protected) = Contents(ignore)
         THEN End
         ELSE /\ cmd' = [cmd EXCEPT !.pc = "recheck", !.lists = protected,
                           !.original = Contents(ignore)]
              /\ UNCHANGED <<manifest, ignore, nested>>

Recheck ==
  /\ cmd.pc = "recheck"
  /\ IF ignore = cmd.original THEN Goto("rewrite") ELSE End

WriteRecovered ==
  /\ cmd.pc = "rewrite"
  /\ ignore' = Candidate
  /\ cmd' = Idle
  /\ UNCHANGED <<manifest, nested>>

\* A crash, a failing write, a plaintext that has disappeared.
Die == cmd # Idle /\ End

-----------------------------------------------------------------------------
HandStep == EditManifest \/ EditIgnore \/ EditNested

InitStep == StartInit \/ PublishInitial

AddStep ==
  \/ StartAdd \/ PrepareIgnore \/ MatchBefore \/ CheckConfiguration \/ WriteIgnore
  \/ Prove \/ Judge \/ CheckRestore \/ Restore \/ Tighten \/ PublishManifest
  \/ Recover \/ Recheck \/ WriteRecovered

Next == HandStep \/ InitStep \/ AddStep \/ Die

Spec == Init /\ [][Next]_vars

-----------------------------------------------------------------------------
(* Properties.  A step of a command is one that changes cmd.                *)

\* What init or add replaces is what it read: no manifest written meanwhile
\* is lost (README.md:144; configure.rs publish_registration, initialize).
NoOverwrittenManifest ==
  [][cmd' # cmd /\ manifest' # manifest => manifest = cmd.loaded]_vars

\* Whatever succeeds, fails, is withdrawn or recovered: a command keeps every
\* ignore rule of the user (configure.rs restore_ignore_candidate,
\* recover_concurrent_manifest).
UserRulesSurvive ==
  [][cmd' # cmd /\ ignore' # ignore =>
       ignore # Malformed /\ UserRules(ignore') = UserRules(ignore)]_vars

\* The manifest that add publishes lists no path that Git would stage in
\* plaintext, or whose ciphertext it would not see (README.md:114,135).
PublishedIsProtected ==
  [][cmd' # cmd /\ manifest' # manifest =>
       \A p \in manifest' : Protected(ignore, nested, p)]_vars

\* No step of a command exposes a plaintext it has found, and only the
\* withdrawal of a failed candidate takes protection from a listed path,
\* whoever has listed it (configure.rs publish_registration).
ProtectionIsRetained ==
  [][cmd' # cmd =>
       \A p \in cmd.existing \cup (IF cmd.pc = "restoring" THEN {} ELSE Listed) :
         PlaintextIgnored(ignore, nested, p) => PlaintextIgnored(ignore', nested', p)]_vars

\* When recovery from a lost race writes, the block covers the paths that
\* the winner has listed as well (configure.rs recover_concurrent_manifest;
\* tests/integration_configure.rs:932 "preserved_and_protected").
RecoveryProtectsBoth ==
  [][cmd.pc = "rewrite" /\ ignore' # ignore =>
       \A p \in Listed \cup cmd.lists : InBlock(ignore', p)]_vars
=============================================================================
