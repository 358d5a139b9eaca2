--------------------------- MODULE Authorization ---------------------------
(***************************************************************************)
(* Who can decrypt: one recipient policy of the manifest, the envelopes of *)
(* the files under it, and the processes that change them.  Authorization  *)
(* commands (recipient add, recipient remove) take the operation lock,     *)
(* load the manifest, plan, publish the new policy and then converge each  *)
(* envelope.  Data commands (seal, resolve) load the manifest first, when  *)
(* the workspace is discovered, and take the lock afterwards.  A process   *)
(* may die anywhere; the lock goes with it.  The user edits the manifest   *)
(* by hand at any time; Git brings in envelopes and leaves conflicts.      *)
(*                                                                         *)
(* An envelope is the set of recipients it names, with a history variable  *)
(* inside: the recipients for whom its data key was ever wrapped.  What it *)
(* encrypts is the subject of PairSync.  A file that cannot be parsed as   *)
(* an envelope (conflict markers, damage) is Broken.                       *)
(***************************************************************************)
EXTENDS FiniteSets

CONSTANTS
  Recipients,     \* age recipients
  Mine,           \* recipients whose identity this working copy holds
  Files,          \* manifest entries under the policy
  Procs,          \* gitveil processes
  Requests,       \* bound: sets of recipients named on a command line
  TeamSets,       \* bound: recipient sets of envelopes that Git brings in
  HandEdits,      \* bound: policies somebody may write into the manifest
  NoFile,         \* no ciphertext yet
  Broken,         \* a ciphertext that does not parse
  Nobody,         \* the lock is free
  GitDuringAuthorization, \* files whose ciphertext Git may replace while an
                          \* authorization command holds the lock
  EditsDuringPublication  \* may the manifest be edited between the freshness
                          \* check of a publication and its rename?

RecipientSets == (SUBSET Recipients) \ {{}}
Envelopes == [recips : RecipientSets, holders : SUBSET Recipients]

ASSUME ConstantsAssumption ==
  /\ Mine \subseteq Recipients
  /\ Requests \subseteq RecipientSets
  /\ TeamSets \subseteq RecipientSets
  /\ HandEdits \subseteq RecipientSets
  /\ NoFile \notin Envelopes /\ Broken \notin Envelopes /\ NoFile # Broken
  /\ Nobody \notin Procs
  /\ GitDuringAuthorization \subseteq Files
  /\ EditsDuringPublication \in BOOLEAN

VARIABLES
  policy,     \* the recipients of the policy in .gitveilrc.json
  envelope,   \* envelope[f]: the ciphertext file of f
  ours,       \* ours[f]: stage 2 of a conflicted f, NoFile if not conflicted
  lock,       \* the process holding operation.lock
  cmd,        \* cmd[p]: the command p is running
  vouched     \* history: recipients somebody vouched for, see NoUnnamedGrant

vars == <<policy, envelope, ours, lock, cmd, vouched>>

DataOps == {"seal", "resolve"}
AuthorizationOps == {"add", "remove"}

Commands ==
  [pc     : {"idle", "waiting", "locked", "publish", "rename", "files"},
   op     : DataOps \cup AuthorizationOps \cup {"none"},
   named  : SUBSET Recipients,      \* recipients of the command line
   loaded : SUBSET Recipients,      \* the policy as read, until last used
   todo   : SUBSET Files,           \* files it has not dealt with yet
   planned : [Files -> Envelopes \cup {NoFile}]] \* of those an authorization
                                    \* command converges: as it has read them

Unplanned == [f \in Files |-> NoFile]

Idle == [pc |-> "idle", op |-> "none", named |-> {}, loaded |-> {}, todo |-> {},
         planned |-> Unplanned]

\* A command that asks for the lock.
Waiting(op, named, loaded) ==
  [Idle EXCEPT !.pc = "waiting", !.op = op, !.named = named, !.loaded = loaded]

IsEnvelope(e) == e \notin {NoFile, Broken}

TypeOK ==
  /\ policy \in RecipientSets
  /\ envelope \in [Files -> Envelopes \cup {NoFile, Broken}]
  /\ ours \in [Files -> Envelopes \cup {NoFile}]
  /\ lock \in Procs \cup {Nobody}
  /\ cmd \in [Procs -> Commands]
  /\ vouched \subseteq Recipients

\* An envelope made with a fresh data key.
Fresh(recips) == [recips |-> recips, holders |-> recips]

Readable(e) == e.recips \cap Mine # {}

\* The command of p ends and gives up the lock if it held it.
End(p) ==
  /\ cmd' = [cmd EXCEPT ![p] = Idle]
  /\ lock' = IF lock = p THEN Nobody ELSE lock

Init ==
  /\ policy \in TeamSets
  /\ envelope \in [Files -> {NoFile, Fresh(policy)}]
  /\ ours = [f \in Files |-> NoFile]
  /\ lock = Nobody
  /\ cmd = [p \in Procs |-> Idle]
  /\ vouched = policy

-----------------------------------------------------------------------------
(* The user and Git.                                                        *)

\* Anyone edits .gitveilrc.json, under no lock.
EditManifest ==
  /\ EditsDuringPublication \/ \A p \in Procs : cmd[p].pc # "rename"
  /\ policy' \in HandEdits \ {policy}
  /\ UNCHANGED <<envelope, ours, lock, cmd, vouched>>

\* Git knows nothing of the lock.  A data command reads and writes a file in
\* one step here, so only plans of authorization commands can become stale.
GitMayReplace(f) ==
  lock # Nobody => f \in GitDuringAuthorization /\ cmd[lock].op \in AuthorizationOps

\* Git brings in a teammate's envelope, or a damaged one.
GitPull(f) ==
  /\ GitMayReplace(f) /\ ours[f] = NoFile
  /\ \/ \E s \in TeamSets :
          /\ envelope' = [envelope EXCEPT ![f] = Fresh(s)]
          /\ vouched' = vouched \cup s
     \/ /\ envelope' = [envelope EXCEPT ![f] = Broken]
        /\ UNCHANGED vouched
  /\ UNCHANGED <<policy, ours, lock, cmd>>

GitMergeConflict(f) ==
  /\ GitMayReplace(f) /\ ours[f] = NoFile /\ IsEnvelope(envelope[f])
  /\ ours' = [ours EXCEPT ![f] = envelope[f]]
  /\ envelope' = [envelope EXCEPT ![f] = Broken]
  /\ UNCHANGED <<policy, lock, cmd, vouched>>

GitAdd(f) ==
  /\ lock = Nobody /\ ours[f] # NoFile /\ IsEnvelope(envelope[f])
  /\ ours' = [ours EXCEPT ![f] = NoFile]
  /\ UNCHANGED <<policy, envelope, lock, cmd, vouched>>

-----------------------------------------------------------------------------
(* The lock.                                                                *)

\* Workspace::discover reads the manifest before the lock is requested.
StartData(p, op) ==
  /\ cmd[p].pc = "idle"
  /\ cmd' = [cmd EXCEPT ![p] = Waiting(op, {}, policy)]
  /\ UNCHANGED <<policy, envelope, ours, lock, vouched>>

\* Naming a recipient to add is what vouches for it.
StartAuthorization(p, op, named) ==
  /\ cmd[p].pc = "idle"
  /\ cmd' = [cmd EXCEPT ![p] = Waiting(op, named, {})]
  /\ vouched' = IF op = "add" THEN vouched \cup named ELSE vouched
  /\ UNCHANGED <<policy, envelope, ours, lock>>

\* Seal visits every entry, resolve those with a conflict in the index; an
\* authorization command has to plan first.
Selected(op) ==
  CASE op = "seal"       -> Files
    [] op = "resolve"    -> {f \in Files : ours[f] # NoFile}
    [] op \notin DataOps -> {}

Acquire(p) ==
  /\ cmd[p].pc = "waiting" /\ lock = Nobody
  /\ lock' = p
  /\ cmd' = [cmd EXCEPT
       ![p].pc   = IF cmd[p].op \in DataOps THEN "files" ELSE "locked",
       ![p].todo = Selected(cmd[p].op)]
  /\ UNCHANGED <<policy, envelope, ours, vouched>>

LockTimeout(p) ==
  /\ cmd[p].pc = "waiting" /\ lock # Nobody
  /\ End(p)
  /\ UNCHANGED <<policy, envelope, ours, vouched>>

\* A crash, a signal, or an error that aborts the command.
Die(p) ==
  /\ cmd[p].pc # "idle"
  /\ End(p)
  /\ UNCHANGED <<policy, envelope, ours, vouched>>

\* The loop over the files is through.
Finish(p) ==
  /\ cmd[p].pc = "files" /\ cmd[p].todo = {}
  /\ End(p)
  /\ UNCHANGED <<policy, envelope, ours, vouched>>

-----------------------------------------------------------------------------
(* Data commands, one file at a time.                                       *)

Working(p, op, f) == cmd[p].pc = "files" /\ cmd[p].op = op /\ f \in cmd[p].todo

Handled(p, f) ==
  cmd' = [cmd EXCEPT ![p].todo = @ \ {f}, ![p].planned[f] = NoFile]

\* Mutant: other ciphertexts that do not parse are skipped.
OtherEnvelopesAligned(f, recips) ==
  \A g \in Files \ {f} : IsEnvelope(envelope[g]) => envelope[g].recips = recips

\* A first seal needs every other ciphertext of the policy to be aligned.
OthersAligned(f, recips) ==
  \A g \in Files \ {f} :
    envelope[g] # NoFile => IsEnvelope(envelope[g]) /\ envelope[g].recips = recips

\* The first ciphertext of all has no anchor: the policy is trusted as it is.
FirstSeal(p, f) ==
  /\ Working(p, "seal", f)
  /\ envelope[f] = NoFile
  /\ OthersAligned(f, cmd[p].loaded)
  /\ Readable(Fresh(cmd[p].loaded))
  /\ envelope' = [envelope EXCEPT ![f] = Fresh(cmd[p].loaded)]
  /\ vouched' = IF \A g \in Files : envelope[g] = NoFile
                THEN vouched \cup cmd[p].loaded ELSE vouched
  /\ Handled(p, f)
  /\ UNCHANGED <<policy, ours, lock>>

\* An aligned envelope keeps its recipients and its data key: seal edits the
\* values in place.  Any drift is refused.
SealExisting(p, f) ==
  /\ Working(p, "seal", f)
  /\ IsEnvelope(envelope[f])
  /\ envelope[f].recips = cmd[p].loaded /\ Readable(envelope[f])
  /\ Handled(p, f)
  /\ UNCHANGED <<policy, envelope, ours, lock, vouched>>

\* Resolve encrypts the merged content to ours narrowed to the policy; the
\* data key of ours is kept only when nobody is left out.
ResolveMerged(p, f) ==
  /\ Working(p, "resolve", f) /\ Readable(ours[f])
  /\ LET target == ours[f].recips \cap cmd[p].loaded
         result == IF target = ours[f].recips
                   THEN ours[f] ELSE Fresh(target)
     IN  /\ target # {}
         /\ Readable(result)
         /\ envelope' = [envelope EXCEPT ![f] = result]
  /\ Handled(p, f)
  /\ UNCHANGED <<policy, ours, lock, vouched>>

\* A same-key conflict restores the ours side of the ciphertext as it was.
ResolveConflict(p, f) ==
  /\ Working(p, "resolve", f) /\ Readable(ours[f])
  /\ envelope' = [envelope EXCEPT ![f] = ours[f]]
  /\ Handled(p, f)
  /\ UNCHANGED <<policy, ours, lock, vouched>>

\* A file is refused or fails; the command goes on with the other files.
PassOver(p, f) ==
  /\ cmd[p].pc = "files" /\ f \in cmd[p].todo
  /\ Handled(p, f)
  /\ UNCHANGED <<policy, envelope, ours, lock, vouched>>

-----------------------------------------------------------------------------
(* Authorization commands.                                                  *)

\* What a command makes of a recipient set: nothing it did not name changes.
Target(op, named, recips) ==
  IF op = "add" THEN recips \cup named ELSE recips \ named

\* Mutant: a removal may empty the policy or an envelope.
RejectedNonMembers(op, named, current) ==
  /\ op = "remove"
  /\ named \notin SUBSET (current \cup
       UNION {envelope[f].recips : f \in {g \in Files : IsEnvelope(envelope[g])}})

\* The requests plan_authorization rejects, given the parseable envelopes.
Rejected(op, named, current) ==
  /\ op = "remove"
  /\ \/ named \notin SUBSET (current \cup
          UNION {envelope[f].recips : f \in {g \in Files : IsEnvelope(envelope[g])}})
     \/ current \subseteq named
     \/ \E f \in Files : IsEnvelope(envelope[f]) /\ envelope[f].recips \subseteq named

\* Mutant: only files whose policy this command changes are converged, so a
\* repeated command has nothing to do.
UnalignedByThisChange(op, named) ==
  {f \in Files : /\ IsEnvelope(envelope[f])
                 /\ Target(op, named, policy) # policy
                 /\ Target(op, named, envelope[f].recips) # envelope[f].recips}

\* The parseable files whose envelope the command has to change.
Unaligned(op, named) ==
  {f \in Files : /\ IsEnvelope(envelope[f])
                 /\ Target(op, named, envelope[f].recips) # envelope[f].recips}

\* Load the manifest, read the envelopes, plan, and try to decrypt every file
\* to converge.  If there are some and none can be decrypted the manifest is
\* withheld.  The bytes that were read are what will be converged.
Plan(p) ==
  /\ cmd[p].pc = "locked"
  /\ LET affected == Unaligned(cmd[p].op, cmd[p].named)
         desired  == Target(cmd[p].op, cmd[p].named, policy)
     IN  IF Rejected(cmd[p].op, cmd[p].named, policy)
         THEN End(p)
         ELSE \E ready \in SUBSET {f \in affected : Readable(envelope[f])} :
                IF affected # {} /\ ready = {} THEN End(p)
                ELSE /\ cmd' = [cmd EXCEPT
                          ![p].pc     = IF desired = policy THEN "files" ELSE "publish",
                          ![p].loaded = IF desired = policy THEN {} ELSE policy,
                          ![p].todo   = ready,
                          ![p].planned =
                            [f \in Files |-> IF f \in ready THEN envelope[f] ELSE NoFile]]
                     /\ UNCHANGED lock
  /\ UNCHANGED <<policy, envelope, ours, vouched>>

\* Mutant: publishes whatever the manifest has become.
CheckNothing(p) ==
  /\ cmd[p].pc = "publish"
  /\ cmd' = [cmd EXCEPT ![p].pc = "rename"]
  /\ UNCHANGED <<policy, envelope, ours, lock, vouched>>

\* publish_if_fresh: the manifest must still be the one loaded ...
CheckFresh(p) ==
  /\ cmd[p].pc = "publish"
  /\ IF policy = cmd[p].loaded
     THEN cmd' = [cmd EXCEPT ![p].pc = "rename"] /\ UNCHANGED lock
     ELSE End(p)
  /\ UNCHANGED <<policy, envelope, ours, vouched>>

\* Mutant: the lock is held for the manifest only.
RenameUnlocking(p) ==
  /\ cmd[p].pc = "rename"
  /\ policy' = Target(cmd[p].op, cmd[p].named, cmd[p].loaded)
  /\ cmd' = [cmd EXCEPT ![p].pc = "files", ![p].loaded = {}]
  /\ lock' = Nobody
  /\ UNCHANGED <<envelope, ours, vouched>>

\* ... and is then replaced atomically.
Rename(p) ==
  /\ cmd[p].pc = "rename"
  /\ policy' = Target(cmd[p].op, cmd[p].named, cmd[p].loaded)
  /\ cmd' = [cmd EXCEPT ![p].pc = "files", ![p].loaded = {}]
  /\ UNCHANGED <<envelope, ours, lock, vouched>>

\* An addition wraps the data key of the envelope it planned with for the
\* named recipients, and replaces the file whatever it has become.
Rewrap(p, f) ==
  /\ Working(p, "add", f)
  /\ LET old == cmd[p].planned[f]
     IN  envelope' = [envelope EXCEPT
           ![f] = [recips  |-> Target("add", cmd[p].named, old.recips),
                   holders |-> old.holders \cup cmd[p].named]]
  /\ Handled(p, f)
  /\ UNCHANGED <<policy, ours, lock, vouched>>

\* Mutant: a removal rewraps the old data key for the remaining recipients.
RotateKeepingKey(p, f) ==
  /\ Working(p, "remove", f)
  /\ LET old == cmd[p].planned[f]
     IN  envelope' = [envelope EXCEPT
           ![f] = [old EXCEPT !.recips = Target("remove", cmd[p].named, @)]]
  /\ Handled(p, f)
  /\ UNCHANGED <<policy, ours, lock, vouched>>

\* A removal re-encrypts what it planned with under a fresh data key, reads
\* the result back, and replaces the file whatever it has become.
Rotate(p, f) ==
  /\ Working(p, "remove", f)
  /\ LET rotated == Fresh(Target("remove", cmd[p].named, cmd[p].planned[f].recips))
     IN  /\ Readable(rotated)
         /\ envelope' = [envelope EXCEPT ![f] = rotated]
  /\ Handled(p, f)
  /\ UNCHANGED <<policy, ours, lock, vouched>>

-----------------------------------------------------------------------------
GitStep == \E f \in Files : GitPull(f) \/ GitMergeConflict(f) \/ GitAdd(f)

StartStep(p) ==
  \/ \E op \in DataOps : StartData(p, op)
  \/ \E op \in AuthorizationOps, named \in Requests : StartAuthorization(p, op, named)

LockStep(p) == Acquire(p) \/ LockTimeout(p) \/ Die(p) \/ Finish(p)

DataStep(p) ==
  \E f \in Files : \/ FirstSeal(p, f) \/ SealExisting(p, f)
                   \/ ResolveMerged(p, f) \/ ResolveConflict(p, f)
                   \/ PassOver(p, f)

AuthorizationStep(p) ==
  \/ Plan(p) \/ CheckFresh(p) \/ Rename(p)
  \/ \E f \in Files : Rewrap(p, f) \/ Rotate(p, f)

Next ==
  \/ EditManifest
  \/ GitStep
  \/ \E p \in Procs : StartStep(p) \/ LockStep(p) \/ DataStep(p) \/ AuthorizationStep(p)

Spec == Init /\ [][Next]_vars

-----------------------------------------------------------------------------
(* Retried removals.  The operator keeps running one removal while seals go
   on; deaths, lock timeouts, withheld and failing files may happen again and
   again, but none of them for ever: a step that is possible infinitely often
   is eventually taken, and so is a plan in which every readable file
   decrypts.  The lock is polled every 25 ms by every waiter (lock.rs), which
   is what strong fairness of Acquire stands for.  Data commands get none.  *)

RemovalNext ==
  \E p \in Procs :
    \/ StartData(p, "seal")
    \/ \E named \in Requests : StartAuthorization(p, "remove", named)
    \/ LockStep(p) \/ DataStep(p) \/ AuthorizationStep(p)

PlanEverything(p) ==
  /\ Plan(p)
  /\ cmd'[p].todo = {f \in Unaligned(cmd[p].op, cmd[p].named) :
                        Readable(envelope[f])}

\* What a running command does next, if only giving up.
Progress(p) ==
  Acquire(p) \/ LockTimeout(p) \/ Finish(p) \/ DataStep(p) \/ AuthorizationStep(p)

RemovalFairness(p) ==
  /\ \A named \in Requests :
       SF_vars(lock = Nobody /\ StartAuthorization(p, "remove", named))
  /\ SF_vars(cmd[p].op = "remove" /\ Acquire(p))
  /\ SF_vars(PlanEverything(p))
  /\ SF_vars(CheckFresh(p)) /\ SF_vars(Rename(p))
  /\ \A f \in Files : SF_vars(Rotate(p, f))
  /\ WF_vars(Progress(p))

RemovalSpec ==
  /\ Init /\ [][RemovalNext]_vars
  /\ \A p \in Procs : RemovalFairness(p)

-----------------------------------------------------------------------------
(* Properties.                                                              *)

\* README.md:164, 222: editing the manifest by hand grants nothing.  Every
\* recipient of every envelope was named by an add, came with a teammate's
\* envelope, or was in the policy when the very first file was sealed; no
\* interleaving of edits, crashes, seals, resolves and conflicts adds one.
NoUnnamedGrant ==
  \A f \in Files : IsEnvelope(envelope[f]) => envelope[f].recips \subseteq vouched

\* README.md:193: nobody but the listed recipients ever held the data key an
\* envelope is encrypted under, so a removed one cannot read later versions,
\* also through resolve and after interrupted or repeated commands.
OnlyRecipientsHoldTheKey ==
  \A f \in Files : IsEnvelope(envelope[f]) => envelope[f].holders = envelope[f].recips

\* A step of an authorization command leaves the recipients of an envelope on
\* disk as they are, or changes them as the command names.
ChangesInItsDirection(files) ==
  \A p \in Procs, f \in files :
    /\ cmd[p].op \in AuthorizationOps /\ cmd'[p] # cmd[p]
    /\ IsEnvelope(envelope[f]) /\ IsEnvelope(envelope'[f])
    => envelope'[f].recips \in
         {envelope[f].recips, Target(cmd[p].op, cmd[p].named, envelope[f].recips)}

\* README.md:164: an authorization command changes envelopes in its direction
\* only and only by the recipients it names.  What it writes was planned before
\* the manifest was published, so this holds only if nothing gets between the
\* two: neither another command, which the lock keeps out, nor Git, which
\* nothing keeps out and which has to stay away from the files in question.
ChangesOnlyInItsDirection ==
  [][ChangesInItsDirection(Files \ GitDuringAuthorization)]_envelope

\* The same of every file, as README.md:164 has it ("`add` never removes
\* anyone, `remove` never grants anyone").  It is no property of the code: an
\* envelope that Git brings in behind the plan is overwritten by one for the
\* recipients of the envelope that was read.
ChangesItsWayWhateverGitDoes == [][ChangesInItsDirection(Files)]_envelope

\* README.md:144: a publication never overwrites a manifest it did not load
\* (publish_if_fresh).  Commands whose plans overlap in time do not undo each
\* other's updates either.
NoOverwrittenManifest ==
  [][\A p \in Procs : cmd[p].pc = "rename" /\ cmd'[p].pc = "files"
                      => policy = cmd[p].loaded]_<<policy, cmd>>

\* recipients.rs:9-10: whatever fails between publishing the manifest and
\* converging the last file, repeating the command converges what is left.
\* Only an envelope no one here can read, or that would be left with no
\* reader here, is out of reach.
RemovalConverges ==
  <>[]\A f \in Files, named \in Requests :
        /\ IsEnvelope(envelope[f]) /\ Readable(envelope[f])
        /\ (envelope[f].recips \ named) \cap Mine # {}
        => envelope[f].recips \cap named = {}

\* README.md:215: a recipient the policy already removed never receives the
\* merged values: what resolve encrypts to lies within the policy on disk.
MergedValuesStayWithinPolicy ==
  [][\A p \in Procs, f \in Files :
       ResolveMerged(p, f) => envelope'[f].recips \subseteq policy]_vars
=============================================================================
