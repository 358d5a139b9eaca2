# Verification of gitveil

gitveil keeps pairs of files in a Git repository: `FILE`, a plaintext
configuration file that is ignored by Git, and `FILE.gitveil`, the same document
as a SOPS/age envelope that is committed. This directory holds TLA+ models of the
parts of gitveil where several actors (the user, Git, other gitveil processes, a
crash) meet on shared files, the TLC configurations that check them on small
instances, and theorems about them checked by TLAPS.

Source paths below are relative to the repository; `seal.rs` is `src/seal.rs`.
Line numbers are those of the modelled commit.

## 1. Inventory

| component | state it keeps | operations | meets |
|---|---|---|---|
| workspace (`workspace.rs`, `confine.rs`, `path.rs`) | manifest as read at discovery, root, runtime directory | discover, entries, read, atomic writes, lock | every data command |
| operation lock (`runtime/lock.rs`, `runtime/temp.rs`) | `operation.lock`, orphaned runtime files | try every 25 ms until a timeout, clean up orphans | all mutating commands |
| seal (`seal.rs`, `seal/plan.rs`) | none | plaintext to ciphertext, baseline | workspace, SOPS, baseline |
| open (`open.rs`, `open/plan.rs`) | none | ciphertext into plaintext, key by key, baseline | workspace, SOPS, baseline |
| resolve (`resolve.rs`, `resolve/plan.rs`, `semantic/`, `source/document.rs` merge) | none | three-way merge of index stages, both files, baseline | Git index, SOPS, baseline |
| baseline (`baseline.rs`, `baseline/record.rs`) | one salted digest record per file | load, save, capture, match, diff | open, seal, resolve, recipients, status |
| recipients (`recipients.rs`, `recipients/plan.rs`) | none | add, remove: plan, publish manifest, converge envelopes | manifest, SOPS, baseline |
| manifest document (`manifest_document.rs`, `manifest.rs`) | `.gitveilrc.json` | load, freshness check, atomic publication | recipients, registration |
| registration (`configure.rs`, `configure/plan.rs`) | `.gitignore`, manifest | init, add, recovery of a lost race | Git ignore rules, manifest |
| status (`status.rs`) | none | classify a pair without a key and without the lock | baseline, Git index |
| SOPS client and editor channel (`sops/`, `runtime/ipc.rs`, `runtime/process.rs`) | child process, one-shot socket | encrypt, decrypt, edit through a one-time editor, rewrap | seal, resolve, recipients |
| identity (`identity.rs`, `age.rs`) | identity file, staging directory | generate without replacing, list recipients | age-keygen, other generations |
| history scan (`verify.rs`) | none | look for plaintext and non-envelopes in a revision range | Git |
| formats (`source/`, `envelope.rs`) | none | parse and generate dotenv, JSON, TOML, YAML; envelope | seal, open, resolve |
| Git adapter (`git/repository.rs`) | none | index stages, ignore rules, history through `git` | all |
| command line (`cli.rs`, `main.rs`, `error.rs`, `config.rs`) | none | arguments, reports, exit codes | all |

How they interact: there are no threads or callbacks that share memory (other
than the readers of child processes, `CapturedChild`). The components meet on files. All mutating
commands take one exclusive lock per repository, but the user and Git take none,
and data commands read the manifest before they take it. Every file is replaced
atomically, but a command replaces up to three of them, one after the other, and
nothing rolls back.

What is hard here:

* **two files and a record, one write at a time.** A crash between the writes of
  a command leaves a pair whose baseline describes another state. The next
  command must neither lose an edit nor invent a conflict.
* **long sequences.** `open` decides by comparing with a record made by an earlier
  seal, open, resolve or recipient command. Whether it is right depends on what that
  record meant, and a test rarely runs three commands with edits in between.
* **stale reads.** The manifest read at discovery is used after up to 30 s of
  waiting for the lock; an authorization plan is carried out after the manifest
  was published.
* **hand edits against commands.** The manifest is an ordinary file. Editing it
  must not grant access, and a publication must not overwrite an edit.
* **children.** SOPS and age-keygen hang, fail, write more than a pipe holds, and outlive
  their timeout; an editor outlives SOPS.
* **what others leave out.** The history scan sees the commits that Git chooses to list.
* **partial failure and retry.** A removal publishes the policy first and rotates
  keys file by file; a repeated command must pick up what is left.

What makes each component correct: for the pair, no edit is lost and a clean
open means that the sides agree but for edits the user made alone; for
authorization, nobody is on an envelope whom nobody vouched for, a removed recipient
never holds a key in use, a retried removal ends; for manifest publication, no edit is
overwritten; for registration, no plaintext path is ever listed but unprotected;
for the editor channel, the payload is delivered at most once and the edit
ends; for identity generation, no existing identity is replaced, what is published is
whole, and no secret is left elsewhere; for the history scan, nothing that was ever committed
is passed over.

## 2. Modules

| module | models |
|---|---|
| `OpenPlan` | pure: arbitration of `open` against a baseline record, merge of index stages for `resolve` |
| `PairSync` | one pair with record and index stages, under open, seal, resolve, recipient convergence, Git, the user, crashes; uses `OpenPlan` |
| `Authorization` | one policy, the envelopes under it, the lock, concurrent commands, crashes, Git, hand edits |
| `AuthorizationProofs` | inductive invariant and theorems about `Authorization` |
| `Registration` | `init` and `add` on the manifest and `.gitignore`, against editors of both and of nested ignore files, with crashes |
| `RegistrationProofs` | inductive invariant and theorems about `Registration` |
| `OneShotEdit` | abstract: what an edit through SOPS promises its callers |
| `PairSyncProofs` | lemmas about `OpenPlan`, invariants and theorems about `PairSync` |
| `EditorChannel` | the edit itself: parent, SOPS, the editors it opens, other processes on the socket; implements `OneShotEdit` |
| `EditorProofs` | inductive invariant and theorems about `EditorChannel`, the safe part of its refinement |
| `Status` | `status` with its unlocked reads beside the commands of `PairSync`, which it extends |
| `StatusProofs` | invariants and theorems about `Status` |
| `DocumentMerge` | how `resolve` merges documents: values, key order, layouts line by line, in two clones that edit and merge |
| `DocumentMergeProofs` | lemmas about orders, hunks and layouts, invariant and theorems about `DocumentMerge` |
| `History` | `verify` beside Git: commits, merges, branches, and which commits Git lists for a path |
| `HistoryProofs` | theorems about `History`, by induction over commits |
| `CapturedChild` | `run_capture`: a child with two pipes, two reader threads, a timeout |
| `Identity` | `identity generate`: concurrent generations, age-keygen (extends `CapturedChild`), the user, kills, power failures |
| `IdentityProofs` | inductive invariant and theorems about `Identity` |
| `MCPairSync`, `MCAuthorization`, `MCRegistration`, `MCStatus`, `MCDocumentMerge`, `MCHistory`, `MCIdentity` | instances for TLC (`EditorChannel` needs none) |

### OpenPlan

A document is a function on parts: one per top-level key, `Root` for a whole
document that is not a mapping, `Residual` for the layout that no key owns. This
is the granularity of `open/plan.rs`: a unit is compared (`SameView`, from
`baseline/record.rs` `unit_view`), matched against the record (`Matches`,
`unit_matches`), arbitrated (`Arbitrate`), and the residual layout has its own rule
(`ChooseResidual`). `PlanOpen` is `plan_open`; `MergeStages` and
`MergeConflicts` are `semantic/merge.rs` and `Layout::merge_three_way`.

Abstractions: values are opaque; digests are collision-free, so a record is the
document it was captured from; the order of keys is left out; nested mappings and lists
inside a key are one value, so a resolve that could merge below the top level
counts as a conflict; so do two changes of a layout template, which the code merges
line by line, and of dotenv entries that do not overlap (`DocumentMerge` has all of these).
The layout template of non-dotenv formats is the residual part.
`Unrenderable` is the set of documents the format cannot generate.

### PairSync

| variable | code |
|---|---|
| `plain` | the plaintext file: absent, a document, or conflict markers |
| `cipher` | what `FILE.gitveil` decrypts to: absent, a document, or markers |
| `base` | the record `BaselineStore::load` would return |
| `stages` | stages 1 to 3 of the ciphertext in the Git index |
| `cmd` | the command that holds the lock, with the writes it still owes |
| `agreed`, `clouded`, `known` | history variables of the properties only |

`StartOpen`, `StartSeal`, `StartResolve`, `StartConverge` are the reads, refusals
and the plan of `open_entry`, `seal_entry`, `resolve_entry`, and
of the convergence of one file. The writes follow in the order of the
code (`WriteCiphertext`, `WritePlaintext`, `SaveBaseline`), and `Die` may come before
each. Users and Git act between commands: `EditPlaintext`, `DeletePlaintext`,
`GitPull`, `GitMergeConflict`, `GitAdd`, `GitMergeAbort`; `LoseBaseline` is an
unreadable record or a workspace that lost its runtime directory. A command that
is refused changes nothing and is not a step.

### Authorization

| variable | code |
|---|---|
| `policy` | recipients of the policy in `.gitveilrc.json` |
| `envelope[f]` | recipients named by `FILE.gitveil`, with the recipients for whom its data key was ever wrapped |
| `ours[f]` | stage 2 of a conflicted ciphertext |
| `lock` | holder of `operation.lock` |
| `cmd[p]` | program counter, arguments, the policy as last read, files still to do, and of those a recipient command converges the envelope it has read (`planned`) |
| `vouched` | history: who was named by an add, brought in by a teammate's envelope, or trusted with the first seal |

`StartData` is `Workspace::discover`, which reads the manifest before `Acquire`
takes the lock. `StartAuthorization`, `Acquire`, `Plan`, `CheckFresh`, `Rename`,
`Rewrap`, `Rotate` follow `authorize` and `ConvergenceEngine::run`. `Plan` reads every
envelope; what is written after the publication is made of what `Plan` has read, whatever
the file has become meanwhile, as `converge_file` does with the bytes and target recipients it is given. `FirstSeal`,
`SealExisting`, `ResolveMerged` and `ResolveConflict` are what seal and resolve do to an
envelope; `PassOver` is a file that is refused or fails. Reading and writing the
content of a file is one step here, since `PairSync` takes it apart. Envelopes
that cannot be parsed are `Broken`.

Assumptions, beyond the constants: one policy (policies do not share
files). Git knows nothing of the lock: the files in `GitDuringAuthorization` it may
replace, or leave in conflict, also while a recipient command holds it (`GitMayReplace`), behind the
plan of that command. It leaves the other files alone meanwhile, and all files during a data command, which
reads and writes a file in one step here. `EditsDuringPublication` says whether somebody may edit the manifest between the
freshness check and the rename; an identity file does not change during a run.

### Registration

| variable | code |
|---|---|
| `manifest` | the paths `.gitveilrc.json` lists; absent; or not parseable |
| `ignore` | `.gitignore` of the root: the managed block with the user's rules before and after it; absent; or with damaged markers |
| `nested` | rules of the ignore files below the root, which bind more strongly |
| `cmd` | program counter of `init` or `add`, what it has read, the paths it protects, Git's answer |

The actions are the steps of `configure.rs` between which another writer can get in:
`StartAdd` (the validations before anything is written), `PrepareIgnore`,
`MatchBefore` (were the existing plaintexts ignored already?), `CheckConfiguration`,
`WriteIgnore`, `Prove` (`git check-ignore` of plaintexts and ciphertexts), `Judge` (go on,
keep the candidate, or withdraw it), `CheckRestore` and `Restore`, `Tighten` (make
plaintexts private, check both files again), `PublishManifest`, and the recovery
of a lost race (`Recover`, `Recheck`, `WriteRecovered`). `init` writes with
`persist_noclobber`, one step that fails if the file exists. `Die` may come between any two. Git's rules
are reduced to what they do to one path: a rule hides, shows, or ignores a
directory above, and from that Git cannot re-include.

`RacyEdits = FALSE` states the assumption under which the promises hold: nobody writes
a file between gitveil's last look at it and its rename over it, nor puts a file back
to exactly the bytes a running command has read or written, and nested ignore files are
edited between commands only. Without it `add` cannot keep its promises, since it has
no lock against editors; everything else may be edited at any other moment.

### EditorChannel

`run_edit` is a loop that polls the listener (`Receive`, `RejectReuse`, `ReadToken`,
`SendPayload`, `SendFails`), the child (`TryWait`) and the clock (`CheckDeadline`); a failure
leads to `Kill`, `Drain` (joining the threads that read the pipes of the child, which its
editors have inherited) and an error, success to `Join`. SOPS opens its editor, may open another one when it
dislikes what it reads, encrypts, fails or hangs. An editor is `gitveil sops-editor`:
`Connect`, `SendToken`, `ReplaceTarget`, or `Leave` with an error or after a timeout. Strays are
other processes on the socket; they connect and send nothing, a line that is not the token, or one byte
after the other of a line that never ends (`Drip`): the one second of `ipc.rs:77` is for each receive, so
`ReadToken` then waits anew, and `run_edit` does not come to `CheckDeadline`.
`Expire` is the clock; how long a timeout takes is left out, so any of them may strike first.
An error of `try_wait`, which the operating system returns for a child that is not ours, is left out.

Refinement: `KeepsPromise` is `OneShotEdit` with `written <- file`, liveness included, except that the end is not
promised while a stray goes on dripping (`DripsForever`).

### Status

`Status` adds to `PairSync` which encryption of a document a file holds: a
pair of document and label stands for the encrypted leaves, which are what
`diff_cipher` compares. `Verdict` is `status_entry` and `Now` what it says of the present
state. `StartStatus`, `ReadPlaintext`, `ReadCiphertext`, `ReadRecord` are its four
reads; commands may run between them.

What the model brought out, beyond the properties checked. Both follow from the two
disagreements about records in section 3 (`open_twice`, `CiphertextOnlyChangesSync`): after an `open` that kept unsealed edits, `status` says "clean" though
the plaintext is ahead (`status.rs:16`), because `open.rs:129` recorded it so; and after a pull and a
recipient command it says "local edits" of a plaintext that is behind, because
`recipients.rs:411` recorded the pulled document. The properties are stated so that these cases
are told apart: "clean" means as recorded, and parts on which the last record was no
agreement (`clouded`) are excepted from the advice to seal. If a user or Git moves files
between the reads, "clean" may combine two states that never met, and nothing is promised.

### DocumentMerge

`OpenPlan` looks at a document part by part; here it has its order and its lines. A text is
a sequence of lines (`Parse`, `Generate`: what each of the four formats keeps of it as values and as
layout). `Merges` is `plan_merge`: values by `MergeRoots` (`semantic/merge.rs`), the layout
by `MergedLayouts` (`source/document.rs`), one without the other. dotenv entries
are merged like values (`MergeItems`), TOML and YAML templates by hunks of lines
(`Hunks`, `Overlap`, `MergeHunks`). The diff library is external: it finds a longest
matching of equal lines, any of them (`Alignments`), and what holds must hold for each.
`EditOurs` and `EditTheirs` change, remove, insert or swap lines and seal; `Resolve` merges
and writes both files, `Seal` seals again, `Commit` goes on to the next merge. A text is `Readable`
if no key comes twice, and each parser refuses any other; the generator of TOML does too (`Generates`), so that `Resolve` fails without
writing anything. Nobody commits a text that gitveil refuses to read. `OneSidedEditsAreTaken` is about texts with each key
once; `ResolvedTextIsReadable` in section 3 shows that a merge may write another.

Abstractions: what is written around a key and its value is one `style`; nested mappings, tags and
lists are left out (a mapping inside a mapping follows the same rules with its own path), and so are a
file added by both clones (no base) and changed line endings of templates.

### History

| variable | code |
|---|---|
| `commits` | the commits of the repository: parents, and what is at the two paths of one pair |
| `refs` | the branches |
| `scan` | the running `verify`: its range, what it has found, and (for the properties) which commits each list was made from |

`Verify` is `verify` up to its loop; `ScanPlaintext` and `ScanCiphertext` are the two scans of an
entry, each a list of commits (`touching_commits`) and a look at each of them; `GitFails` ends
the scan, `ExitCode` is what `run_verify` makes of it. Listing and looking are one step, because what
a commit holds never changes; between the two scans branches move and disappear.

The heart is `RevList`, what `git rev-list <range> -- <path>` prints: the commits that the walk from the tips comes to
(`Walk`, along `Followed`) and that Git shows (`Touched`). Git simplifies a history by default: at a
merge that has the path from one of its parents it follows the first such parent and prints
nothing of the others, and a merge is itself printed only if it differs from all of them. Git is external,
and this operator is written from what Git does; it agrees with Git 2 on random histories of
merges and ranges. Merges of content are what Git does to a whole file: a
path that one side changed comes from that side, a conflict is resolved to either.

Abstractions: one entry, since the scans of several share nothing but the list of findings; a
criss-cross merge has one merge base here, the newest common commit; renames are two changes;
commits without parents other than the first are left out.

### CapturedChild and Identity

| variable | code |
|---|---|
| `call[c]` | the `run_capture` a process is in: its child, what that has still to write, the two pipes, whether it was late |
| `pc`, `outcome` | where `generate` is, and the `PublishDurability` it returns |
| `staged` | the file in the `.gitveil-identity-` directory |
| `residue` | history: secrets removed from a disk that were not overwritten before |
| `parent`, `dest`, `durable` | the destination's directory, the file there, and what of the directory is on disk |
| `promised` | history: whose file the destination must hold |

`CapturedChild` is `run_capture` in four steps (`Spawn`, `Wait`, `Kill`, `Join`) with the readers (`Read`)
beside them; nobody passes it an input. `Identity` is `generate` statement by statement: `CheckDestination`,
`CheckVersion`, `EnsureParent`, `Stage`, `Generated`, `Secure`, `Derived`, `Publish`, `SyncDirectory`, and the two
guards that are dropped at the end or on an error, `Wipe` before `RemoveStaging`. Every step may fail. A program in age-keygen's
place (`AGE_KEYGEN_BIN`) may leave a link or a file that others can read, succeed without writing a whole identity, hang,
and end between its timeout and its kill. The user creates and removes the destination, commands are killed, and a power failure
loses what was not flushed: names, and the content of files.

What the model brought out, beyond its properties: a publication without a warning may still be lost
if `ensure_parent` made the directory, because the directory above is never flushed
(`identity.rs:188-226`; README.md:95 speaks of the destination's directory only), which `PublishedIsKept` leaves out;
and the secret of a killed generation stays in its staging directory, which no command removes.

## 3. Runs

Runs expected to pass:

| run | module, cfg | shows |
|---|---|---|
| `pair` | `MCPairSync`, `MCPairSync.cfg` | fresh edits survive open, a clean open means synchronized, an interrupted open recovers, over every sequence of commands, edits, merges, crashes and baseline losses (1.8 million states) |
| `authorization` | `MCAuthorization`, `MCAuthorization.cfg` | no unnamed grant, keys follow recipients, changes only in the direction asked, no overwritten manifest, for two processes on two files, one of which Git may replace behind a plan (2.8 million states) |
| `removal_retry` | `MCAuthorization`, `RemovalRetry.cfg` | a removal that is repeated for as long as it fails converges every envelope that can be |
| `registration` | `MCRegistration`, `MCRegistration.cfg` | no manifest overwritten, no user rule lost, only protected paths listed, no exposure by a failed step, recovery protects both sides (1.6 million states) |
| `editor` | `EditorChannel`, `EditorChannel.cfg` | the edit implements the one-shot edit, succeeds with a single editor only, leaves nothing running, and ends unless a stray drips a line for ever (5739 states) |
| `status` | `MCStatus`, `MCStatus.cfg` | "clean" was true at one moment of the reads; "clean" and "behind" pass over no fresh edit; the open that "behind" advises works; the seal that "local edits" advises takes nothing back (6.8 million states) |
| `document_merge` | `MCDocumentMerge`, `MCDocumentMerge.cfg` | no change made by one side alone is lost or reverted by a clean merge; layout and values keep the same keys, although merged apart; the merge is the same from both sides; moved keys stay moved (480 thousand states) |
| `history` | `MCHistory`, `MCHistory.cfg` | what a clean scan of everything passes over was dropped by a merge, and by nothing else: no failure of Git, no branch that moves; after a clean scan of `a..b`, all that is bad among the commits `b` brings into `a` was there before or was dropped by a merge among them (6.3 million states) |
| `identity` | `MCIdentity`, `MCIdentity.cfg` | two generations for one destination: nobody's file is replaced, what is published is whole and private even after a crash, no secret is left, and every generation ends (380 thousand states) |

Runs that exhibit a disagreement between the code and what it says of itself:

| run | cfg | disagreement |
|---|---|---|
| `open_twice` | `OpenTwice.cfg` | "plaintext-only changes remain local" (README.md:195). `open` records the merged plaintext with unsealed edits as baseline (`open.rs:129`); the second `open` takes the edit for an unchanged local value and writes the older ciphertext value over it |
| `stale_manifest` | `StaleManifest.cfg` | "a recipient the policy already removed never receives the merged values" (README.md:215). A resolve that waits for the lock behind a `recipient remove` still uses the policy it read before |
| `merged_leak` | `MergedLeak.cfg` | "A path that ever existed is always touched by at least one commit" (`verify.rs:140-142`). `touching_commits` lists commits without `--full-history`: a plaintext that was committed on a branch, removed there and merged is reachable, and is not listed once the branch is gone; `verify` exits 0. Git 2 itself does the same after these steps |

Six more disagreements have a definition and no run of their own; each definition is violated when it takes the place of
the properties in the configuration named:

* `ChangesItsWayWhateverGitDoes` (an action property) in `MCAuthorization.cfg`: "`add` never removes anyone, `remove` never
  grants anyone" (README.md:164). A recipient command writes what it planned of the bytes it read (`recipients.rs:340-342`, `381-408`). If Git
  brings in a newer envelope between the plan and the write, that envelope is replaced by one for the recipients of the older one: an `add` removes
  whom a teammate had just added, and their version of the values is gone with it.
* `KeepsPromiseWhoeverDrips` in `EditorChannel.cfg`: "SOPS edit process timed out" (`sops/client.rs:308`, the deadline of an edit). A process
  that connects to the socket and sends a byte within each second, and no end of line, keeps `read_line`
  (`ipc.rs:82-85`) and with it the polling loop for ever; the deadline is never looked at. On Linux the socket is abstract and can be found by
  others; elsewhere it is in a private directory.
* `CiphertextOnlyChangesSync` (an invariant) in `OpenTwice.cfg`: "Ciphertext-only changes synchronize automatically" (README.md:195).
  `recipient add` or `remove` after a pull records the pulled document (`recipients.rs:411`), though the
  plaintext never saw it; `open` then keeps the old plaintext value as a local edit.
* `ConservativeModePreserves` (an action property) in `OpenTwice.cfg` with one value in `WholeVals`: "local-only units are
  always preserved" without a baseline (`open/plan.rs:7-8`). If the ciphertext holds a document that is not a mapping, `arbitrate`
  sees a local side without a root unit and takes the remote document whole.
* `SealAfterResolveIsUnchanged` (an invariant) in `MCDocumentMerge.cfg`: "`seal` ... preserves the entire ciphertext byte-for-byte
  when plaintext semantics and layout are unchanged" (README.md:193). If ours changes a value and theirs inserts a key between
  others, the merged values come in one order (ours, then the new key) and the merged layout in another
  (theirs); `resolve` encrypts that document, but the text it writes has one order only, and a seal right
  after it rewrites the ciphertext.
* `ResolvedTextIsReadable` (an invariant) in `MCDocumentMerge.cfg` with `FirstTexts <- MCCommented`, `Keys = {a}` and one value, style and rest:
  "every adapter rejects duplicate keys" (tests/contract_source.rs:157). If both clones move a YAML key among its
  comments, one past two of them and the other past three, both diffs delete the key at its old place (equal hunks, merged
  into one) and insert it at different ones (hunks that do not overlap). The placeholders are equal on all sides, and those of the merged template are not looked at
  (`source/document.rs:451-455`). `resolve` reports a clean merge and writes a text with the key twice, which `seal`
  refuses to read. (In TOML `resolve` itself fails, since `toml.rs:32-35` parses the template again.) The property
  is restricted to merges with a unique longest common subsequence of lines, and so a unique diff.

Also met: `cli.rs:222-234` documents exit code 3 for every failed ciphertext or integrity verification, and `open`, `seal`,
`resolve` and `status` answer 1 for one they report per file.

Bounds and why they suffice:

* `Keys = {k1}` with two values, and a layout with two values. Arbitration is per
  part, parts influence each other only through the shared conflict outcome and
  the shared record, and a key with a residual layout gives two parts with different
  rules. Two values are enough for a side to move, to move back, and (with
  `Absent`) to differ three ways. `Unrenderable` holds one document, the template
  layout without its key, so that structural conflicts occur.
* `MergeBases` and `MergeTheirs` are uniform documents, absent base included: each
  combination of who moved from the base occurs.
* `Vals` are interchangeable and so are `Procs` (symmetry sets). The files of `MCAuthorization.cfg` are not, since
  Git treats them differently.
  The runs with symmetry check invariants and action properties only.
* Two processes: one holds the lock, one waits with a stale manifest; a third
  adds nothing that another command of the second does not. Two files: a
  first seal needs another envelope to compare with, and a command can die between
  two files.
* Three recipients: the operator, whose identity is here, a teammate on the
  envelopes, an outsider on none. Hand edits drop a member or slip the outsider in. A command names the
  teammate alone, or two at once of whom the operator is one: members, strangers, and one's own identity.
* `GitDuringAuthorization` has one of the two files: Git overtakes the plan for one, and the other one, planned and written by
  the same command, has to change as the command says. It is empty in the other two configurations, which do not ask about it.
* `EditsWhileRunning = FALSE`, `EditsDuringPublication = FALSE` in passing runs:
  gitveil does not protect against an edit of the very file it is about to rename over.
  For the manifest this is less than README.md:144 says ("Concurrent configuration changes do not
  overwrite external manifest ... writes"): with `EditsDuringPublication = TRUE`, TLC finds
  `NoOverwrittenManifest` violated by an edit between `publish_if_fresh`'s check and its rename.
* Registration: two paths; requests for either or both; somebody may list either or
  none, so that the winner of a race lists what `add` requested, what it did not, or drops
  it; hand rules that re-include one path and ignore a directory above the other; a nested
  file that re-includes: proofs succeed and fail, candidates are kept and withdrawn. One process: the
  lock admits one, and other instances are the editors.
* Editor: two editors, since the second one is the case to get wrong, and one stray,
  which can connect before or after either.
* Status: one key with two values, one layout, five labels, one more than the envelopes that
  are ever compared; nobody but open, seal and resolve acts during the four reads.

* Documents: two keys to start from and a third to add, two values and two styles, two edits in either
  clone, all merges together. Two edits of one side make two hunks, or a hunk and a moved key; with one on the
  other side they can overlap at either end. Three keys are what one needs for orders
  that differ in a shared pair and in the place of an added key.
* History: five commits are a first one, two sides of two commits or a side of three, and a merge, or two merges; two
  branches, either of which may be deleted. The plaintext path holds a file that claims to be an envelope and is none, which the scan
  must not believe; the ciphertext path the right format and a wrong one.
* Identity: two generations, since a third one meets a destination that is taken as the second does; a child's output is more
  than a pipe holds, on the pipe that a careless reader would come to last. A child that does not hang is taken to be quicker than
  its timeout, so that nothing but a full pipe can hold it up.

Deadlock is checked in every run but `editor` and `document_merge`, where the edits are used up: the user can always edit, an idle process
can always start. An edit that has returned and whose clients are gone is over.

Fairness is used in `removal_retry` (`RemovalFairness`), `identity` and `editor`. In `identity` Gitveil's own steps and
readers are weakly fair, for as long as nobody kills it, and so is an age-keygen that does not hang; one that does is ended by its timeout. In `editor` the parent,
the clock and each editor are weakly fair: they are programs that run on, and what they wait for has a timeout, in
`ReadToken` each receive and not the line (`ipc.rs:77-85`). SOPS and strays get none and may hang for ever.

In `removal_retry` progress of a
running command is weakly fair (a program runs on). Acquiring the lock for a removal
is strongly fair: `acquire_lock` polls every 25 ms, so a lock that is free again and
again is got at last. Completing a plan in which every readable file decrypts,
publishing it and rotating each file are strongly fair, and so is starting the removal while the
lock is free: a command that is tried again and again is not interrupted for ever at the
same place. These describe an operator who repeats the command, which is what
`recipients.rs:9-10` tells them to do. Seals get no fairness and may stay away or
come in between at any time.

## 4. Proofs

`AuthorizationProofs` proves, for any set of recipients, files, processes, requests and
hand edits that satisfy `ConstantsAssumption`:

* `TypeCorrect`: `Spec => []TypeOK`. Types here include that the policy and the
  recipients of an envelope are never empty, which depends on what `Plan` rejects and on
  `Rotate` and `ResolveMerged` reading their result back.
* `NothingGrantedUnnamed`: `Spec => []NoUnnamedGrant`.
* `RemovedLoseTheKey`: `Spec => []OnlyRecipientsHoldTheKey`.
* `OnlyInItsDirection`: `Spec => ChangesOnlyInItsDirection`.
* `NothingOverwritten`: if nobody edits between check and rename, then
  `Spec => NoOverwrittenManifest`.

The invariants are not inductive as they stand. `IndInv` adds: who is past the
lock holds it (`LockInv`), without which two commands could interleave their writes;
only authorization commands plan and publish (`PlannerInv`); the files resolve
still has to do are conflicted ones (`TodoInv`); what a recipient command has planned for a file
is an envelope of vouched recipients who alone hold its key, and still what the file holds if Git leaves it alone
(`PlannedInv`); what is about to be published is a policy (`PublishInv`); and both
promises about envelopes hold for stage 2 of the index too, and for what an add is
about to grant (`VouchInv`, `KeyInv`), since resolve brings `ours` back into the file.
`ReplaceEnvelope` is the step all writers of envelopes share: a command replaces one
envelope by another that names vouched recipients only, who are the only holders of
its key. `FreshInv` (the publisher still has the manifest it loaded) is the
strengthening for `NothingOverwritten`, and `EnvelopeWriters` (under an authorization
command only its own rewraps and rotations change envelopes) the one for
`OnlyInItsDirection`: those write what was planned, and by `PlannedInv` that is what the file holds. The argument
needs the lock, without which another command could come between plan and write, and Git to stay away from the file,
which is why the theorem is about `Files \ GitDuringAuthorization`. The other theorems hold for any `GitDuringAuthorization`:
an overtaken plan grants nobody anything and brings no old key back.

`RegistrationProofs` proves, for any set of paths, requests, hand edits and nested rules
that satisfy `RegistrationAssumption`, and with `RacyEdits = FALSE`, all properties of the run
`registration`: `TypeCorrect`, `NoManifestOverwritten`, `NoUserRuleLost`, `OnlyProtectedPublished`,
`NothingExposed`, `RecoveryCoversBoth`. The paths of a command may be many here, where
the run has two. `IndInv` adds to the types: a planned add
protects what it has loaded and what it has found (`PlanInv`); wherever a write relies on
it, a file is still what the command has read or written (`ManifestInv`, `IgnoreInv`), which
is where the assumption on edits enters; a proof that is used was made of the candidate
that is in place (`ProofInv`); and what was ignored before the candidate was ignored under the
file that a withdrawal brings back (`SafeInv`). The lemma `RenderKeepsIgnored` is the heart of it: rendering the block for more paths
uncovers none.

`IdentityProofs` proves, for any number of generations, pipes of any size and any outputs of age-keygen that satisfy
`CapturedChildAssumption` and `IdentityAssumption`, the invariants of the run `identity`: `IdentityTypes`,
`GenerationsKeepWhatIsThere`, `PublishedIsWhole`, `GenerationLeavesNoSecret`. None but the types is inductive. `IndInv` adds:
only a generation that waits for a child is in a call (`CallInv`), which with the types (a call that has come back left no
living child) is why nobody writes to a staged file that was checked or wiped; what the staged file is at each point, whole, private
and flushed when it is about to be published (`StagedInv`); that only such files are at the destination or on the disk below it
(`FinishedInv`), so that a power failure takes no content from them; that files are in a directory that is there (`ParentInv`);
and that what was confirmed has reached the disk (`ConfirmedInv`), which is what a power failure leaves of the promise.
`ChildEffect`, `CallerEffect`, `SpawnEffect` and `ReleaseEffect` are about `CapturedChild` alone.

`PairSyncProofs` proves, for any keys, values, and layouts that satisfy the assumptions of `OpenPlan` and `PairSync`:

* `PlanAgain`, about `PlanOpen` alone: once a conflict-free plan is written, planning again with the same record has
  nothing to write and no conflict, for every pair of documents and every record.
* `PairTypes`: `Spec => []TypeOK`, from `PairInv`. Beyond the types it has: what the ciphertext and the record hold is
  known (`KnownInv`), so that a value that is not known is a fresh edit; only a command in flight owes a write, and open none of the ciphertext (`BusyInv`).
* `OpenRecovers`, `CleanOpenSynchronizes`, `FreshEditsAreKept`: the three properties of the run `pair`, under the hypothesis
  `~EditsWhileRunning`. It is there because gitveil does not notice an edit made between its read of the plaintext and its rename
  over it (`workspace.rs:196`). `SyncInv` adds: an open in flight writes what it would plan of the files as they still are (`OpenInv`); before a command
  saves its record, the file it is a record of holds the same (`OwedInv`); where the last record was an agreement, it
  says what was agreed (`AgreedInv`).

`StatusProofs` proves the five properties of the run `status`. `StatusTypes`, `FreshEditsAreSeen`, `BehindOpens` and
`SealAdvice` need no hypothesis: they are about an answer that fits the present files, and `LabelInv` is enough,
which adds to `PairInv` that a record that was an agreement was made of the ciphertext agreed upon. `CleanVerdict` is about an answer put together from four reads at different moments, needs
`~EditsWhileRunning`, and an invariant of what a status in flight has read against what a command in flight still owes
(`StatusInv`: `LookInv`, `ResolveInv`). `LabelsAssumption` says that encrypting anew always gives leaves that are
nowhere else, as SOPS's random nonces do; it needs no more than five labels, so the run has five.

`EditorProofs` proves, for any number of editors and strays, `EditorTypes`, `SuccessNeedsOneEditor`, `ReturnsAlone`, and
`EditRefinesOneShotEdit`: `Spec => Promise!Init /\ [][Promise!Next]_(Promise!vars)`, the safe part of `KeepsPromise`. `IndInv` says
that a connection is answered before anybody was served, and one at most is (`PeerInv`), that only editors ask and only who was sent the plaintext
has it (`ClientInv`), that what is in the target comes from an editor that has finished (`TargetInv`), and that SOPS and whoever
holds its pipes are gone before the parent comes to its end (`EndInv`).

`HistoryProofs` proves `OnlyMergesHide` and `CleanRangeBringsOnlyDropped` for histories of any length and any number of branches.
Both follow a commit back through its descendants: induction over the commits, of which there
may be any number. Since the library's induction theorems cannot be used, each is an argument by the least (or greatest) counterexample,
which exists because `<` is well-founded on the naturals (`LeastIn`, `GreatestIn`). For the same reason the recursive functions
`Ancestors` and `walked` first have to be shown to exist, as the least sets closed under their equations (`AncestorsExist`,
`WalkExists`). From there: what a walk passes over without printing it has the path as a parent that the walk goes on to, or as
one behind the excluded end (`PassedOver`); so
what is bad among the commits a clean walk comes to is in an excluded commit too (`WalkedAreKnown`), and when nothing is excluded there is none. A commit
of the range that the walk does not come to was dropped by the last commit of the walk that had it behind it. That is
`HiddenIsExplained`: every bad commit behind the tips and not excluded is `Explained` by an excluded commit with the same content or by a merge of the
range; the scan of everything is the case without excluded commits. A commit that is made later changes nothing about older ones (`FactsStay`), which is why
branches may move during a scan. `IndInv` is the graph (`GraphInv`: parents have smaller numbers), the branches,
and what each finished half of a scan has established (`CleanInv`).

`DocumentMergeProofs` proves the four properties of the run `document_merge`, for any keys, values and styles that satisfy `MergeAssumption`,
documents of any length, and as many edits and merges as one likes: `MovesAreAlwaysKept`, `LayoutsAlwaysCoverValues`,
`SidesAreAlwaysEqual`, `OneSidedEditsAreAlwaysTaken`. Most of it is about the operators, in this order:

* What is picked from a sequence keeps its order (`PickKeeps`): the place of an element in the result is its rank among the picked places, and
  `NthIs` shows that every rank is taken, by the least one that is not. Hence orders (`MergedOrderIs`) and merged items (`MergeItemsIs`: it has each merged
  field once, in the merged order, or conflicts).
* The lines of `Apply` are those of the base that no hunk covers and those of the hunks (`ApplyIs`), where `FlattenSeq` is recursive and its value
  is again found by the least counterexample (`FlatIs`). Hunks have every line of a side that is not matched (`HunksAre`). That
  is all that is needed of a diff besides that it matches equal lines in order: nothing depends on which of the longest matchings it finds.
* So the keys of a merged layout are those of merged presence, as those of merged values are (`LayoutIs`, `MergesAre`), and
  what the other side has left alone is taken (`Takes`), comments by counting copies (`CopiesAre`, `TemplatesAdd`).
* The text of a document has a row for each key (`GenerateIs`); parsing a readable text gives a document whose layout covers its values (`ParseIs`), and
  each edit of the model leaves a text readable (`EditedIs`).

The invariant, `MergeInv`, says that base and clones are documents a parser can have made (`Good`) and that what resolve wrote is one of their
merges. It is inductive because a merge whose text can be read is good again, although the merge
of two templates need not be (`ResolvedTextIsReadable` in section 3), which is why `Sound` and `Good` are told apart.

Model-checked only: `RemovalConverges`, `EveryGenerationEnds` and the liveness part of `KeepsPromise`, which are
out of the prover's reach.

## 5. Not modelled, and why

* Syntax and quoting of the formats (what a parser keeps of a text is in `DocumentMerge`), the envelope encoding, diagnostics, the command line:
  data, no interaction. Their failures are refusals.
* SOPS, age, Git: external. Modelled by what gitveil sees of them.
* Cryptography: an envelope is who can read it and what it says.
* The input that `git check-ignore` is given: it is written by a thread of its own while the output is read
  (`git/repository.rs:349-362`), as the readers of `CapturedChild` do for output. Git has no timeout.
* The clean-up of orphaned runtime files by whoever gets the lock (`runtime/temp.rs`): files of the holder are made after it and
  removed before the lock is given back. Outside a Git repository each process has a lock and a
  runtime directory of its own, and the lock excludes nobody.
* Descendants of a captured child: one that inherits its pipes would hold up the readers beyond the timeout, as
  `EditorChannel` has it for editors; age-keygen starts none.
* `identity recipients`, `help`, reports: they read and print.
* A workspace outside a Git repository: it has no baseline store, which is the
  `NoRecord` case throughout.
* Two gitveil clones: the other clone is Git's side of the model.

## 6. Plan

Done in this order, most important behaviour first: `OpenPlan` and `PairSync`,
`Authorization` with proofs, `Registration` with proofs, `EditorChannel` as a refinement,
`Status`, `DocumentMerge`, `History`, `CapturedChild` and `Identity` with proofs; then the proofs about
`EditorChannel`, `PairSync`, `Status`, `History` and `DocumentMerge`. To come:

1. Nested mappings and files without a base in `DocumentMerge`, and what `status`
   says after a resolve whose two files differ.
2. An abstract pair (two replicas and an agreement) that `PairSync` implements.
