------------------------ MODULE AuthorizationProofs ------------------------
(***************************************************************************)
(* What Authorization guarantees for any number of recipients, files and   *)
(* processes.  IndInv is the inductive invariant: next to types it says    *)
(* that only the holder of the lock is past the lock, that what a command  *)
(* planned under the lock still fits the files that Git stays away from,   *)
(* and the two promises about envelopes carried over to those that         *)
(* commands bring back: planned ones and stage 2 of the index.             *)
(***************************************************************************)
EXTENDS Authorization, TLAPS

\* A command past the lock holds it.
LockInv ==
  \A p \in Procs :
    cmd[p].pc \in {"locked", "publish", "rename", "files"} => lock = p

\* Only authorization commands plan and publish.
PlannerInv ==
  \A p \in Procs :
    /\ cmd[p].pc # "idle" => cmd[p].op # "none"
    /\ cmd[p].pc \in {"locked", "publish", "rename"} => cmd[p].op \in AuthorizationOps

\* A resolve that has still to do a file finds its stage 2.
TodoInv ==
  \A p \in Procs, f \in Files :
    cmd[p].pc = "files" /\ cmd[p].op = "resolve" /\ f \in cmd[p].todo
      => ours[f] \in Envelopes

\* The envelope e of f, as planned, may be converged: it names nobody
\* unvouched, nobody else holds its key, and unless Git may have replaced it
\* behind the plan it is the one on disk.
Convergible(e, f) ==
  /\ e \in Envelopes
  /\ e.recips \subseteq vouched
  /\ e.holders = e.recips
  /\ f \notin GitDuringAuthorization => envelope[f] = e

\* So is every file that an authorization command has still to do.
PlannedInv ==
  \A p \in Procs, f \in Files :
    /\ cmd[p].pc \in {"publish", "rename", "files"}
    /\ cmd[p].op \in AuthorizationOps /\ f \in cmd[p].todo
    => Convergible(cmd[p].planned[f], f)

\* What an authorization command is about to publish is a policy.
PublishInv ==
  \A p \in Procs :
    cmd[p].pc \in {"publish", "rename"} =>
      Target(cmd[p].op, cmd[p].named, cmd[p].loaded) \in RecipientSets

\* NoUnnamedGrant, for the index too, and for what adds are about to grant.
VouchInv ==
  /\ NoUnnamedGrant
  /\ \A f \in Files : ours[f] # NoFile => ours[f].recips \subseteq vouched
  /\ \A p \in Procs : cmd[p].op = "add" => cmd[p].named \subseteq vouched

\* OnlyRecipientsHoldTheKey, for the index too.
KeyInv ==
  /\ OnlyRecipientsHoldTheKey
  /\ \A f \in Files : ours[f] # NoFile => ours[f].holders = ours[f].recips

IndInv ==
  /\ TypeOK
  /\ LockInv /\ PlannerInv /\ TodoInv /\ PlannedInv /\ PublishInv
  /\ VouchInv /\ KeyInv

-----------------------------------------------------------------------------
(* Lemmas about the helpers.                                                *)

\* A fresh envelope for a non-empty recipient set is an envelope.
LEMMA FreshType ==
  ASSUME NEW s \in RecipientSets
  PROVE  Fresh(s) \in Envelopes
BY DEF Fresh, Envelopes, RecipientSets

\* An envelope is neither of the two marks for a file without one.
LEMMA EnvelopeIs ==
  ASSUME NEW e \in Envelopes \cup {NoFile, Broken}
  PROVE  IsEnvelope(e) <=> e \in Envelopes
BY ConstantsAssumption DEF IsEnvelope

\* The idle command has the type of commands.
LEMMA IdleType == Idle \in Commands
BY DEF Idle, Unplanned, Commands

\* A command that asks for the lock has the type of commands, and no files.
LEMMA WaitingType ==
  ASSUME NEW op \in DataOps \cup AuthorizationOps,
         NEW named \in SUBSET Recipients, NEW loaded \in SUBSET Recipients
  PROVE  /\ Waiting(op, named, loaded) \in Commands
         /\ Waiting(op, named, loaded).pc = "waiting"
         /\ Waiting(op, named, loaded).op = op
         /\ Waiting(op, named, loaded).named = named
BY DEF Waiting, Idle, Unplanned, Commands

\* An envelope somebody here can read names at least one recipient.
LEMMA ReadableNonempty ==
  ASSUME NEW s \in SUBSET Recipients, Readable(Fresh(s))
  PROVE  s \in RecipientSets
BY DEF Readable, Fresh, RecipientSets

-----------------------------------------------------------------------------
(* The inductive invariant.                                                 *)

\* The invariant holds at first.
LEMMA InitIndInv == Init => IndInv
<1> SUFFICES ASSUME Init PROVE IndInv
  OBVIOUS
<1>1. policy \in RecipientSets
  BY ConstantsAssumption DEF Init
<1>2. \A f \in Files : envelope[f] = NoFile \/ envelope[f] = Fresh(policy)
  BY DEF Init
<1>3. TypeOK
  BY <1>1, FreshType, IdleType DEF Init, TypeOK, RecipientSets
<1>4. LockInv /\ PlannerInv /\ TodoInv /\ PlannedInv /\ PublishInv
  BY DEF Init, LockInv, PlannerInv, TodoInv, PlannedInv, PublishInv, Idle
<1>5. VouchInv
  BY <1>2, ConstantsAssumption
  DEF Init, VouchInv, NoUnnamedGrant, IsEnvelope, Idle, Fresh
<1>6. KeyInv
  BY <1>2, ConstantsAssumption
  DEF Init, KeyInv, OnlyRecipientsHoldTheKey, IsEnvelope, Fresh
<1> QED
  BY <1>3, <1>4, <1>5, <1>6 DEF IndInv

\* Ending a command, for whatever reason, keeps the invariant.
LEMMA EndKeeps ==
  ASSUME IndInv, NEW p \in Procs, End(p),
         UNCHANGED <<policy, envelope, ours, vouched>>
  PROVE  IndInv'
<1>1. /\ cmd' = [cmd EXCEPT ![p] = Idle]
      /\ \A q \in Procs \ {p} : cmd'[q] = cmd[q]
      /\ cmd'[p] = Idle
  BY DEF End, IndInv, TypeOK
<1>2. TypeOK'
  BY <1>1, IdleType DEF End, IndInv, TypeOK
<1>3. LockInv' /\ PlannerInv'
  BY <1>1 DEF End, IndInv, LockInv, PlannerInv, Idle
<1>4. TodoInv' /\ PlannedInv' /\ PublishInv'
  BY <1>1 DEF IndInv, TodoInv, PlannedInv, PublishInv, Convergible, Idle
<1>5. VouchInv'
  BY <1>1 DEF IndInv, VouchInv, NoUnnamedGrant, Idle
<1>6. KeyInv'
  BY DEF IndInv, KeyInv, OnlyRecipientsHoldTheKey
<1> QED
  BY <1>2, <1>3, <1>4, <1>5, <1>6 DEF IndInv

\* Dealing with one file only takes it off the list.
LEMMA HandledEffect ==
  ASSUME IndInv, NEW p \in Procs, NEW f \in Files, Handled(p, f)
  PROVE  /\ cmd' \in [Procs -> Commands]
         /\ \A q \in Procs \ {p} : cmd'[q] = cmd[q]
         /\ cmd'[p].pc = cmd[p].pc /\ cmd'[p].op = cmd[p].op
         /\ cmd'[p].named = cmd[p].named /\ cmd'[p].loaded = cmd[p].loaded
         /\ cmd'[p].todo = cmd[p].todo \ {f}
         /\ \A g \in Files \ {f} : cmd'[p].planned[g] = cmd[p].planned[g]
<1>1. cmd[p] \in Commands
  BY DEF IndInv, TypeOK
<1>2. /\ cmd'[p] = [cmd[p] EXCEPT !.todo = cmd[p].todo \ {f},
                                  !.planned = [cmd[p].planned EXCEPT ![f] = NoFile]]
      /\ \A q \in Procs \ {p} : cmd'[q] = cmd[q]
      /\ DOMAIN cmd' = Procs
  BY DEF Handled, IndInv, TypeOK
<1>3. cmd'[p] \in Commands
  <2>1. [cmd[p].planned EXCEPT ![f] = NoFile] \in [Files -> Envelopes \cup {NoFile}]
    BY <1>1 DEF Commands
  <2> QED
    BY <1>1, <1>2, <2>1 DEF Commands
<1>4. cmd' \in [Procs -> Commands]
  BY <1>2, <1>3 DEF Handled, IndInv, TypeOK
<1> QED
  BY <1>1, <1>2, <1>4 DEF Commands

\* A command in its loop over the files replaces one envelope by another that
\* names vouched recipients only, who are the only ones to hold its data key.
LEMMA ReplaceEnvelope ==
  ASSUME IndInv, NEW p \in Procs, NEW f \in Files, Handled(p, f),
         cmd[p].pc = "files", NEW e \in Envelopes,
         envelope' = [envelope EXCEPT ![f] = e],
         UNCHANGED <<policy, ours, lock>>,
         vouched \subseteq vouched', vouched' \subseteq Recipients,
         e.recips \subseteq vouched', e.holders = e.recips
  PROVE  IndInv'
<1>1. /\ envelope'[f] = e
      /\ \A g \in Files \ {f} : envelope'[g] = envelope[g]
      /\ envelope' \in [Files -> Envelopes \cup {NoFile, Broken}]
  BY DEF IndInv, TypeOK
<1>2. TypeOK'
  BY <1>1, HandledEffect DEF IndInv, TypeOK
<1>3. LockInv' /\ PlannerInv' /\ PublishInv'
  BY HandledEffect DEF IndInv, LockInv, PlannerInv, PublishInv
<1>4. TodoInv' /\ PlannedInv'
  <2>1. \A q \in Procs \ {p} :
          cmd[q].pc \notin {"publish", "rename", "files"} /\ cmd'[q] = cmd[q]
    BY HandledEffect DEF IndInv, LockInv
  <2>2. TodoInv'
    BY <2>1, HandledEffect DEF IndInv, TodoInv
  <2>3. ASSUME NEW g \in Files, cmd'[p].op \in AuthorizationOps, g \in cmd'[p].todo
        PROVE  Convergible(cmd[p].planned[g], g)'
    <3>1. /\ g # f /\ g \in cmd[p].todo /\ cmd[p].op \in AuthorizationOps
          /\ cmd'[p].planned[g] = cmd[p].planned[g]
      BY <2>3, HandledEffect
    <3>2. Convergible(cmd[p].planned[g], g)
      BY <3>1 DEF IndInv, PlannedInv
    <3> QED
      BY <3>1, <3>2, <1>1 DEF Convergible
  <2>4. PlannedInv'
    BY <2>1, <2>3 DEF PlannedInv
  <2> QED
    BY <2>2, <2>4
<1>5. VouchInv'
  BY <1>1, HandledEffect DEF IndInv, VouchInv, NoUnnamedGrant
<1>6. KeyInv'
  BY <1>1 DEF IndInv, KeyInv, OnlyRecipientsHoldTheKey
<1> QED
  BY <1>2, <1>3, <1>4, <1>5, <1>6 DEF IndInv

\* One action of one process keeps the invariant: a step per action.
LEMMA ProcKeeps ==
  ASSUME IndInv, NEW p \in Procs,
         StartStep(p) \/ LockStep(p) \/ DataStep(p) \/ AuthorizationStep(p)
  PROVE  IndInv'
<1> USE DEF IndInv
<1>1. ASSUME NEW op \in DataOps, StartData(p, op) PROVE IndInv'
  <2>1. /\ cmd' = [cmd EXCEPT ![p] = Waiting(op, {}, policy)]
        /\ UNCHANGED <<policy, envelope, ours, lock, vouched>>
    BY <1>1 DEF StartData
  <2>2. /\ cmd'[p] \in Commands /\ cmd'[p].pc = "waiting" /\ cmd'[p].op = op
        /\ op # "none" /\ op # "add"
        /\ \A q \in Procs \ {p} : cmd'[q] = cmd[q]
        /\ cmd' \in [Procs -> Commands]
    BY <2>1, WaitingType DEF TypeOK, DataOps, RecipientSets
  <2>3. TypeOK' /\ LockInv' /\ PlannerInv'
    BY <2>1, <2>2 DEF TypeOK, LockInv, PlannerInv
  <2>4. TodoInv' /\ PlannedInv' /\ PublishInv'
    BY <2>1, <2>2 DEF TodoInv, PlannedInv, PublishInv, Convergible
  <2>5. VouchInv' /\ KeyInv'
    BY <2>1, <2>2 DEF VouchInv, KeyInv, NoUnnamedGrant, OnlyRecipientsHoldTheKey
  <2> QED
    BY <2>3, <2>4, <2>5
<1>2. ASSUME NEW op \in AuthorizationOps, NEW named \in Requests,
             StartAuthorization(p, op, named)
      PROVE IndInv'
  <2>1. /\ cmd' = [cmd EXCEPT ![p] = Waiting(op, named, {})]
        /\ UNCHANGED <<policy, envelope, ours, lock>>
    BY <1>2 DEF StartAuthorization
  <2>2. /\ named \subseteq Recipients /\ vouched \subseteq vouched'
        /\ vouched' \subseteq Recipients
        /\ op = "add" => named \subseteq vouched'
    BY <1>2, ConstantsAssumption DEF StartAuthorization, RecipientSets, TypeOK
  <2>3. /\ cmd'[p] \in Commands /\ cmd'[p].pc = "waiting" /\ cmd'[p].op = op
        /\ cmd'[p].named = named /\ op # "none"
        /\ \A q \in Procs \ {p} : cmd'[q] = cmd[q]
        /\ cmd' \in [Procs -> Commands]
    BY <2>1, <2>2, WaitingType DEF TypeOK, AuthorizationOps
  <2>4. TypeOK' /\ LockInv' /\ PlannerInv'
    BY <2>1, <2>2, <2>3 DEF TypeOK, LockInv, PlannerInv
  <2>5. TodoInv' /\ PublishInv'
    BY <2>1, <2>3 DEF TodoInv, PublishInv
  <2>6. PlannedInv'
    BY <2>1, <2>2, <2>3 DEF PlannedInv, Convergible
  <2>7. VouchInv'
    BY <2>1, <2>2, <2>3 DEF VouchInv, NoUnnamedGrant
  <2>8. KeyInv'
    BY <2>1 DEF KeyInv, OnlyRecipientsHoldTheKey
  <2> QED
    BY <2>4, <2>5, <2>6, <2>7, <2>8
<1>3. ASSUME Acquire(p) PROVE IndInv'
  <2>1. \A q \in Procs : cmd[q].pc \notin {"locked", "publish", "rename", "files"}
    BY <1>3, ConstantsAssumption DEF Acquire, LockInv
  <2>2. \A q \in Procs \ {p} : cmd'[q] = cmd[q]
    BY <1>3 DEF Acquire, TypeOK
  <2> DEFINE op == cmd[p].op
  <2>3. /\ Selected(op) \subseteq Files
        /\ op = "resolve" => \A f \in Selected(op) : ours[f] # NoFile
        /\ op \in AuthorizationOps => Selected(op) = {}
    BY DEF Selected, TypeOK, Commands, DataOps, AuthorizationOps
  <2>4. /\ cmd'[p].op = cmd[p].op /\ cmd'[p].named = cmd[p].named
        /\ cmd'[p].loaded = cmd[p].loaded
        /\ cmd'[p].pc = IF cmd[p].op \in DataOps THEN "files" ELSE "locked"
        /\ cmd'[p].todo \subseteq Files
        /\ cmd[p].op = "resolve" => \A f \in cmd'[p].todo : ours[f] # NoFile
        /\ cmd[p].op \in AuthorizationOps => cmd'[p].todo = {}
    BY <1>3, <2>3 DEF Acquire, TypeOK, Commands
  <2>5. TypeOK'
    <3>1. cmd'[p] \in Commands
      <4>1. cmd[p] \in Commands
        BY DEF TypeOK
      <4>2. cmd'[p] = [cmd[p] EXCEPT !.pc = IF op \in DataOps THEN "files" ELSE "locked",
                                     !.todo = Selected(op)]
        BY <1>3 DEF Acquire, TypeOK
      <4> QED
        BY <4>1, <4>2, <2>3 DEF Commands
    <3>2. cmd' \in [Procs -> Commands]
      BY <1>3, <2>2, <3>1 DEF Acquire, TypeOK
    <3> QED
      BY <1>3, <3>2 DEF Acquire, TypeOK
  <2>6. LockInv'
    BY <1>3, <2>1, <2>2 DEF Acquire, LockInv
  <2>7. cmd'[p].pc \notin {"publish", "rename"}
    BY <2>4
  <2>8. PublishInv'
    BY <2>7, <2>1, <2>2 DEF PublishInv
  <2>9. PlannerInv'
    <3>1. cmd[p].op \in DataOps \cup AuthorizationOps
      BY <1>3 DEF Acquire, TypeOK, Commands, PlannerInv
    <3> QED
      BY <3>1, <2>2, <2>4 DEF PlannerInv, DataOps, AuthorizationOps
  <2>10. TodoInv'
    BY <1>3, <2>1, <2>2, <2>4 DEF Acquire, TypeOK, TodoInv
  <2>13. PlannedInv'
    BY <2>1, <2>2, <2>4 DEF PlannedInv
  <2>11. VouchInv'
    BY <1>3, <2>2, <2>4 DEF Acquire, VouchInv, NoUnnamedGrant
  <2>12. KeyInv'
    BY <1>3 DEF Acquire, KeyInv, OnlyRecipientsHoldTheKey
  <2> QED
    BY <2>5, <2>6, <2>8, <2>9, <2>10, <2>11, <2>12, <2>13
<1>4. ASSUME LockTimeout(p) \/ Die(p) \/ Finish(p) PROVE IndInv'
  BY <1>4, EndKeeps DEF LockTimeout, Die, Finish
<1>5. ASSUME NEW f \in Files, FirstSeal(p, f) PROVE IndInv'
  <2>1. /\ cmd[p].loaded \in RecipientSets
        /\ Fresh(cmd[p].loaded) \in Envelopes
    BY <1>5, ReadableNonempty, FreshType DEF FirstSeal, TypeOK, Commands
  <2>2. vouched \subseteq vouched' /\ vouched' \subseteq Recipients
    BY <1>5, <2>1 DEF FirstSeal, TypeOK, RecipientSets
  <2>3. cmd[p].loaded \subseteq vouched'
    <3>1. CASE \A g \in Files : envelope[g] = NoFile
      BY <3>1, <1>5 DEF FirstSeal
    <3>2. CASE \E g \in Files : envelope[g] # NoFile
      <4>1. PICK g \in Files \ {f} : envelope[g] # NoFile
        BY <3>2, <1>5 DEF FirstSeal
      <4>2. IsEnvelope(envelope[g]) /\ envelope[g].recips = cmd[p].loaded
        BY <4>1, <1>5 DEF FirstSeal, OthersAligned
      <4> QED
        BY <4>2, <2>2 DEF VouchInv, NoUnnamedGrant
    <3> QED
      BY <3>1, <3>2
  <2>4. Fresh(cmd[p].loaded).recips = cmd[p].loaded
        /\ Fresh(cmd[p].loaded).holders = cmd[p].loaded
    BY DEF Fresh
  <2> QED
    BY <1>5, <2>1, <2>2, <2>3, <2>4, ReplaceEnvelope DEF FirstSeal, Working
<1>6. ASSUME NEW f \in Files, ResolveMerged(p, f) PROVE IndInv'
  <2> DEFINE target == ours[f].recips \cap cmd[p].loaded
             result == IF target = ours[f].recips THEN ours[f] ELSE Fresh(target)
  <2>1. ours[f] \in Envelopes /\ ours[f] # NoFile
    BY <1>6, ConstantsAssumption DEF ResolveMerged, Working, TodoInv
  <2>2. target \in RecipientSets
    BY <1>6, <2>1 DEF ResolveMerged, Envelopes, RecipientSets
  <2>3. result \in Envelopes
    BY <2>1, <2>2, FreshType
  <2>4. result.recips \subseteq vouched /\ result.holders = result.recips
    BY <2>1, <2>2 DEF Fresh, VouchInv, KeyInv
  <2>5. envelope' = [envelope EXCEPT ![f] = result] /\ Handled(p, f)
    BY <1>6 DEF ResolveMerged
  <2> HIDE DEF result, target
  <2> QED
    BY <1>6, <2>3, <2>4, <2>5, ReplaceEnvelope DEF ResolveMerged, Working, TypeOK
<1>7. ASSUME NEW f \in Files, ResolveConflict(p, f) PROVE IndInv'
  <2>1. ours[f] \in Envelopes /\ ours[f] # NoFile
    BY <1>7, ConstantsAssumption DEF ResolveConflict, Working, TodoInv
  <2>2. ours[f].recips \subseteq vouched /\ ours[f].holders = ours[f].recips
    BY <2>1 DEF VouchInv, KeyInv
  <2> QED
    BY <1>7, <2>1, <2>2, ReplaceEnvelope DEF ResolveConflict, Working, TypeOK
<1>8. ASSUME NEW f \in Files, SealExisting(p, f) \/ PassOver(p, f) PROVE IndInv'
  <2>1. Handled(p, f) /\ UNCHANGED <<policy, envelope, ours, lock, vouched>>
    BY <1>8 DEF SealExisting, PassOver
  <2>2. TypeOK' /\ LockInv' /\ PlannerInv' /\ PublishInv'
    BY <2>1, HandledEffect DEF TypeOK, LockInv, PlannerInv, PublishInv
  <2>3. TodoInv' /\ VouchInv' /\ KeyInv'
    BY <2>1, HandledEffect DEF TodoInv, VouchInv, KeyInv, NoUnnamedGrant,
                               OnlyRecipientsHoldTheKey
  <2>4. PlannedInv'
    BY <2>1, HandledEffect DEF PlannedInv, Convergible
  <2> QED
    BY <2>2, <2>3, <2>4
<1>9. ASSUME Plan(p) PROVE IndInv'
  <2> DEFINE op == cmd[p].op
             desired == Target(op, cmd[p].named, policy)
  <2>1. CASE End(p)
    BY <2>1, <1>9, EndKeeps DEF Plan
  <2>2. CASE ~End(p)
    <3>0. ~Rejected(op, cmd[p].named, policy)
      BY <2>2, <1>9 DEF Plan
    <3>1. PICK ready \in SUBSET {f \in Unaligned(op, cmd[p].named) : Readable(envelope[f])} :
            /\ cmd' = [cmd EXCEPT
                 ![p].pc     = IF desired = policy THEN "files" ELSE "publish",
                 ![p].loaded = IF desired = policy THEN {} ELSE policy,
                 ![p].todo   = ready,
                 ![p].planned =
                   [f \in Files |-> IF f \in ready THEN envelope[f] ELSE NoFile]]
            /\ UNCHANGED lock
      BY <2>2, <3>0, <1>9 DEF Plan
    <3>2. /\ cmd[p] \in Commands /\ cmd[p].pc = "locked" /\ policy \in RecipientSets
          /\ UNCHANGED <<policy, envelope, ours, lock, vouched>>
      BY <3>1, <1>9 DEF Plan, TypeOK
    <3>3. ready \subseteq Files /\ \A f \in ready : envelope[f] \in Envelopes
      BY <3>1, EnvelopeIs DEF Unaligned, TypeOK
    <3>4. op \in AuthorizationOps /\ op # "none" /\ op # "resolve"
      BY <3>2 DEF PlannerInv, AuthorizationOps
    <3>5. desired \in RecipientSets
      <4>1. CASE op = "add"
        BY <4>1, <3>2 DEF Target, RecipientSets, Commands
      <4>2. CASE op = "remove"
        <5>1. ~(policy \subseteq cmd[p].named)
          BY <4>2, <3>0 DEF Rejected
        <5>2. desired = policy \ cmd[p].named
          BY <4>2 DEF Target
        <5> QED
          BY <5>1, <5>2, <3>2 DEF RecipientSets
      <4> QED
        BY <3>4, <4>1, <4>2 DEF AuthorizationOps
    <3>6. /\ cmd'[p] = [cmd[p] EXCEPT
                          !.pc     = IF desired = policy THEN "files" ELSE "publish",
                          !.loaded = IF desired = policy THEN {} ELSE policy,
                          !.todo   = ready,
                          !.planned = [f \in Files |->
                            IF f \in ready THEN envelope[f] ELSE NoFile]]
          /\ \A q \in Procs \ {p} : cmd'[q] = cmd[q]
          /\ DOMAIN cmd' = Procs
      BY <3>1 DEF TypeOK
    <3>7. cmd'[p] \in Commands
      <4>1. [f \in Files |-> IF f \in ready THEN envelope[f] ELSE NoFile]
              \in [Files -> Envelopes \cup {NoFile}]
        BY <3>3
      <4> QED
        BY <3>2, <3>3, <3>6, <4>1 DEF Commands, RecipientSets
    <3>8. /\ cmd'[p].op = op /\ cmd'[p].named = cmd[p].named
          /\ cmd'[p].todo = ready
          /\ \A f \in ready : cmd'[p].planned[f] = envelope[f]
          /\ cmd'[p].pc = "publish" => cmd'[p].loaded = policy
          /\ cmd'[p].pc \in {"files", "publish"}
          /\ \A q \in Procs \ {p} : cmd'[q] = cmd[q]
      BY <3>2, <3>3, <3>6 DEF Commands
    <3> HIDE DEF desired
    <3>9. TypeOK'
      BY <3>1, <3>2, <3>6, <3>7 DEF TypeOK
    <3>10. LockInv' /\ PlannerInv'
      BY <3>2, <3>8, <3>4 DEF LockInv, PlannerInv
    <3>11. TodoInv'
      BY <3>2, <3>8, <3>4 DEF TodoInv
    <3>14. PlannedInv'
      <4>1. \A q \in Procs \ {p} : cmd[q].pc \notin {"publish", "rename", "files"}
        BY <3>2 DEF LockInv
      <4>2. \A f \in ready : Convergible(envelope[f], f)
        BY <3>3, EnvelopeIs DEF Convergible, TypeOK, VouchInv, KeyInv, NoUnnamedGrant,
             OnlyRecipientsHoldTheKey
      <4> QED
        BY <4>1, <4>2, <3>2, <3>8 DEF PlannedInv, Convergible
    <3>12. PublishInv'
      BY <3>2, <3>5, <3>8 DEF PublishInv, desired
    <3>13. VouchInv' /\ KeyInv'
      BY <3>2, <3>8 DEF VouchInv, KeyInv, NoUnnamedGrant,
                              OnlyRecipientsHoldTheKey
    <3> QED
      BY <3>9, <3>10, <3>11, <3>12, <3>13, <3>14
  <2> QED
    BY <2>1, <2>2
<1>10. ASSUME CheckFresh(p) PROVE IndInv'
  <2>1. CASE End(p)
    BY <2>1, <1>10, EndKeeps DEF CheckFresh
  <2>2. CASE ~End(p)
    <3>1. /\ cmd' = [cmd EXCEPT ![p].pc = "rename"]
          /\ UNCHANGED <<policy, envelope, ours, lock, vouched>>
          /\ cmd[p] \in Commands /\ cmd[p].pc = "publish"
      BY <1>10, <2>2 DEF CheckFresh, TypeOK
    <3>2. /\ cmd'[p] = [cmd[p] EXCEPT !.pc = "rename"]
          /\ \A q \in Procs \ {p} : cmd'[q] = cmd[q]
          /\ DOMAIN cmd' = Procs
      BY <3>1 DEF TypeOK
    <3>3. /\ cmd'[p] \in Commands
          /\ cmd'[p].pc = "rename" /\ cmd'[p].op = cmd[p].op
          /\ cmd'[p].named = cmd[p].named /\ cmd'[p].loaded = cmd[p].loaded
          /\ cmd'[p].todo = cmd[p].todo /\ cmd'[p].planned = cmd[p].planned
      BY <3>1, <3>2 DEF Commands
    <3>4. TypeOK'
      BY <3>1, <3>2, <3>3 DEF TypeOK
    <3>5. LockInv' /\ PlannerInv' /\ PublishInv'
      BY <3>1, <3>2, <3>3 DEF LockInv, PlannerInv, PublishInv
    <3>6. TodoInv' /\ VouchInv' /\ KeyInv'
      BY <3>1, <3>2, <3>3 DEF TodoInv, VouchInv, KeyInv, NoUnnamedGrant,
                              OnlyRecipientsHoldTheKey
    <3>7. PlannedInv'
      BY <3>1, <3>2, <3>3 DEF PlannedInv, Convergible
    <3> QED
      BY <3>4, <3>5, <3>6, <3>7
  <2> QED
    BY <2>1, <2>2
<1>11. ASSUME Rename(p) PROVE IndInv'
  <2>1. /\ cmd' = [cmd EXCEPT ![p].pc = "files", ![p].loaded = {}]
        /\ UNCHANGED <<envelope, ours, lock, vouched>>
        /\ cmd[p] \in Commands /\ cmd[p].pc = "rename"
    BY <1>11 DEF Rename, TypeOK
  <2>2. policy' \in RecipientSets
    BY <1>11 DEF Rename, PublishInv
  <2>3. /\ cmd'[p] = [cmd[p] EXCEPT !.pc = "files", !.loaded = {}]
        /\ \A q \in Procs \ {p} : cmd'[q] = cmd[q]
        /\ DOMAIN cmd' = Procs
    BY <2>1 DEF TypeOK
  <2>4. /\ cmd'[p] \in Commands
        /\ cmd'[p].pc = "files" /\ cmd'[p].op = cmd[p].op
        /\ cmd'[p].named = cmd[p].named /\ cmd'[p].todo = cmd[p].todo
        /\ cmd'[p].planned = cmd[p].planned
    BY <2>1, <2>3 DEF Commands
  <2>5. TypeOK'
    BY <2>1, <2>2, <2>3, <2>4 DEF TypeOK
  <2>6. LockInv' /\ PlannerInv' /\ PublishInv'
    BY <2>1, <2>3, <2>4 DEF LockInv, PlannerInv, PublishInv
  <2>7. VouchInv' /\ KeyInv'
    BY <2>1, <2>3, <2>4 DEF VouchInv, KeyInv, NoUnnamedGrant, OnlyRecipientsHoldTheKey
  <2>8. TodoInv'
    BY <2>1, <2>3, <2>4 DEF TodoInv, PlannerInv, AuthorizationOps
  <2>9. PlannedInv'
    BY <2>1, <2>3, <2>4 DEF PlannedInv, Convergible
  <2> QED
    BY <2>5, <2>6, <2>7, <2>8, <2>9
<1>12. ASSUME NEW f \in Files, Rewrap(p, f) PROVE IndInv'
  <2> DEFINE old     == cmd[p].planned[f]
             wrapped == [recips  |-> Target("add", cmd[p].named, old.recips),
                         holders |-> old.holders \cup cmd[p].named]
  <2>1. /\ cmd[p].pc = "files" /\ cmd[p].op = "add" /\ f \in cmd[p].todo
        /\ cmd[p].named \subseteq Recipients
    BY <1>12 DEF Rewrap, Working, TypeOK, Commands
  <2>2. old \in Envelopes /\ old.recips \subseteq vouched /\ old.holders = old.recips
    BY <2>1 DEF PlannedInv, Convergible, AuthorizationOps
  <2>3. wrapped.recips = old.recips \cup cmd[p].named
        /\ wrapped.holders = old.holders \cup cmd[p].named
    BY DEF Target
  <2>4. wrapped \in Envelopes
    BY <2>1, <2>2 DEF Envelopes, RecipientSets, Target
  <2>5. cmd[p].named \subseteq vouched
    BY <2>1 DEF VouchInv
  <2>6. wrapped.recips \subseteq vouched /\ wrapped.holders = wrapped.recips
    BY <2>2, <2>3, <2>5
  <2>7. /\ envelope' = [envelope EXCEPT ![f] = wrapped]
        /\ Handled(p, f)
        /\ UNCHANGED <<policy, ours, lock, vouched>>
    BY <1>12 DEF Rewrap
  <2> HIDE DEF wrapped
  <2> QED
    BY <2>1, <2>4, <2>6, <2>7, ReplaceEnvelope DEF TypeOK
<1>13. ASSUME NEW f \in Files, Rotate(p, f) PROVE IndInv'
  <2> DEFINE old  == cmd[p].planned[f]
             left == Target("remove", cmd[p].named, old.recips)
  <2>1. /\ cmd[p].pc = "files" /\ cmd[p].op = "remove" /\ f \in cmd[p].todo
        /\ envelope' = [envelope EXCEPT ![f] = Fresh(left)]
        /\ Readable(Fresh(left)) /\ Handled(p, f)
        /\ UNCHANGED <<policy, ours, lock, vouched>>
    BY <1>13 DEF Rotate, Working
  <2>2. old \in Envelopes /\ old.recips \subseteq vouched
    BY <2>1 DEF PlannedInv, Convergible, AuthorizationOps
  <2>3. left \subseteq vouched /\ left \subseteq Recipients
    BY <2>2 DEF Target, Envelopes, RecipientSets
  <2> HIDE DEF left
  <2>4. Fresh(left) \in Envelopes
    BY <2>1, <2>3, ReadableNonempty, FreshType
  <2>5. Fresh(left).recips = left /\ Fresh(left).holders = left
    BY DEF Fresh
  <2> QED
    BY <2>1, <2>3, <2>4, <2>5, ReplaceEnvelope DEF TypeOK
<1> QED
  BY <1>1, <1>2, <1>3, <1>4, <1>5, <1>6, <1>7, <1>8, <1>9, <1>10, <1>11, <1>12,
     <1>13
  DEF StartStep, LockStep, DataStep, AuthorizationStep

\* What Git does keeps the invariant: a command past the lock, if there is
\* one, is an authorization command, and Git touches a file that it may have
\* replaced anyway.
LEMMA GitKeeps ==
  ASSUME IndInv, NEW f \in Files, GitPull(f) \/ GitMergeConflict(f) \/ GitAdd(f)
  PROVE  IndInv'
<1> USE DEF IndInv
<1>1. /\ \A p \in Procs :
           cmd[p].pc \in {"locked", "publish", "rename", "files"} =>
             f \in GitDuringAuthorization /\ cmd[p].op \in AuthorizationOps
      /\ UNCHANGED <<policy, lock, cmd>>
      /\ vouched \subseteq vouched'
      /\ \A g \in Files \ {f} : envelope'[g] = envelope[g]
  BY ConstantsAssumption
  DEF GitPull, GitMergeConflict, GitAdd, GitMayReplace, LockInv, TypeOK
<1>2. LockInv' /\ PlannerInv' /\ TodoInv' /\ PlannedInv' /\ PublishInv'
  <2>1. LockInv' /\ PlannerInv' /\ PublishInv'
    BY <1>1 DEF LockInv, PlannerInv, PublishInv
  <2>2. TodoInv'
    BY <1>1 DEF TodoInv, AuthorizationOps
  <2>3. PlannedInv'
    BY <1>1 DEF PlannedInv, Convergible
  <2> QED
    BY <2>1, <2>2, <2>3
<1>3. CASE GitPull(f)
  <2>1. CASE \E s \in TeamSets : /\ envelope' = [envelope EXCEPT ![f] = Fresh(s)]
                                 /\ vouched' = vouched \cup s
    <3>1. PICK s \in TeamSets : /\ envelope' = [envelope EXCEPT ![f] = Fresh(s)]
                                /\ vouched' = vouched \cup s
      BY <2>1
    <3>2. s \in RecipientSets /\ Fresh(s) \in Envelopes
      BY ConstantsAssumption, FreshType
    <3>3. Fresh(s).recips = s /\ Fresh(s).holders = s
      BY DEF Fresh
    <3>4. TypeOK'
      BY <1>1, <1>3, <3>1, <3>2 DEF GitPull, TypeOK, RecipientSets
    <3>5. VouchInv' /\ KeyInv'
      BY <1>1, <1>3, <3>1, <3>3 DEF GitPull, TypeOK, VouchInv, KeyInv,
           NoUnnamedGrant, OnlyRecipientsHoldTheKey
    <3> QED
      BY <1>2, <3>4, <3>5
  <2>2. CASE envelope' = [envelope EXCEPT ![f] = Broken] /\ UNCHANGED vouched
    BY <1>1, <1>2, <1>3, <2>2 DEF GitPull, TypeOK, VouchInv, KeyInv,
         NoUnnamedGrant, OnlyRecipientsHoldTheKey, IsEnvelope
  <2> QED
    BY <1>3, <2>1, <2>2 DEF GitPull
<1>4. CASE GitMergeConflict(f)
  <2>1. envelope[f] \in Envelopes
    BY <1>4, EnvelopeIs DEF GitMergeConflict, TypeOK
  <2>2. TypeOK'
    BY <1>4, <2>1 DEF GitMergeConflict, TypeOK
  <2>3. VouchInv' /\ KeyInv'
    BY <1>4 DEF GitMergeConflict, TypeOK, VouchInv, KeyInv,
         NoUnnamedGrant, OnlyRecipientsHoldTheKey, IsEnvelope
  <2> QED
    BY <1>2, <2>2, <2>3
<1>5. CASE GitAdd(f)
  BY <1>2, <1>5 DEF GitAdd, TypeOK, VouchInv, KeyInv, NoUnnamedGrant,
       OnlyRecipientsHoldTheKey
<1> QED
  BY <1>3, <1>4, <1>5

\* IndInv is inductive.
LEMMA NextIndInv == IndInv /\ [Next]_vars => IndInv'
<1> SUFFICES ASSUME IndInv, [Next]_vars PROVE IndInv'
  OBVIOUS
<1>1. CASE EditManifest
  <2>1. policy' \in RecipientSets
    BY <1>1, ConstantsAssumption DEF EditManifest
  <2> QED
    BY <1>1, <2>1 DEF EditManifest, IndInv, TypeOK, LockInv, PlannerInv, TodoInv,
         PlannedInv, Convergible, PublishInv, VouchInv, KeyInv, NoUnnamedGrant, OnlyRecipientsHoldTheKey
<1>2. CASE GitStep
  BY <1>2, GitKeeps DEF GitStep
<1>3. CASE \E p \in Procs :
              StartStep(p) \/ LockStep(p) \/ DataStep(p) \/ AuthorizationStep(p)
  BY <1>3, ProcKeeps
<1>4. CASE UNCHANGED vars
  BY <1>4 DEF vars, IndInv, TypeOK, LockInv, PlannerInv, TodoInv, PlannedInv,
       Convergible, PublishInv, VouchInv, KeyInv, NoUnnamedGrant, OnlyRecipientsHoldTheKey
<1> QED
  BY <1>1, <1>2, <1>3, <1>4 DEF Next

-----------------------------------------------------------------------------
(* The theorems.                                                            *)

\* The invariant of every reachable state.
THEOREM Invariance == Spec => []IndInv
BY InitIndInv, NextIndInv, PTL DEF Spec

\* Type correctness: no policy and no envelope ever becomes empty, and every
\* file holds an envelope, a damaged one or none (Authorization!TypeOK).
THEOREM TypeCorrect == Spec => []TypeOK
<1>1. IndInv => TypeOK
  BY DEF IndInv
<1> QED
  BY <1>1, Invariance, PTL

\* README.md:164, 222: whatever is written into the manifest by hand, whoever
\* dies where, an envelope names nobody that nobody vouched for.
THEOREM NothingGrantedUnnamed == Spec => []NoUnnamedGrant
<1>1. IndInv => NoUnnamedGrant
  BY DEF IndInv, VouchInv
<1> QED
  BY <1>1, Invariance, PTL

\* README.md:193: the data key of an envelope was never wrapped for anybody
\* the envelope does not name now.
THEOREM RemovedLoseTheKey == Spec => []OnlyRecipientsHoldTheKey
<1>1. IndInv => OnlyRecipientsHoldTheKey
  BY DEF IndInv, KeyInv
<1> QED
  BY <1>1, Invariance, PTL

\* An authorization command changes envelopes in its loop over the files, and
\* as its plan has it.
LEMMA EnvelopeWriters ==
  ASSUME IndInv, Next, envelope' # envelope,
         NEW p \in Procs, cmd[p].op \in AuthorizationOps, cmd'[p] # cmd[p]
  PROVE  \E f \in Files : Rewrap(p, f) \/ Rotate(p, f)
<1>1. ~EditManifest /\ ~GitStep
  BY DEF EditManifest, GitStep, GitPull, GitMergeConflict, GitAdd
<1>2. PICK q \in Procs :
        StartStep(q) \/ LockStep(q) \/ DataStep(q) \/ AuthorizationStep(q)
  BY <1>1 DEF Next
<1>3. ~StartStep(q) /\ ~LockStep(q)
  BY DEF StartStep, LockStep, StartData, StartAuthorization, Acquire, LockTimeout,
         Die, Finish
<1>4. PICK f \in Files : \/ FirstSeal(q, f) \/ ResolveMerged(q, f)
                        \/ ResolveConflict(q, f) \/ Rewrap(q, f) \/ Rotate(q, f)
  BY <1>2, <1>3 DEF DataStep, SealExisting, PassOver, AuthorizationStep, Plan,
       CheckFresh, Rename
<1>5. Handled(q, f)
  BY <1>4 DEF FirstSeal, ResolveMerged, ResolveConflict, Rewrap, Rotate
<1>6. q = p
  BY <1>5, HandledEffect
<1> QED
  BY <1>4, <1>6 DEF FirstSeal, ResolveMerged, ResolveConflict, Working,
       AuthorizationOps

\* README.md:164: an authorization command leaves an envelope as it is or
\* changes it by exactly the recipients it names.  It writes what it planned
\* with, which by PlannedInv is what is on disk, if Git stays away from it.
THEOREM OnlyInItsDirection == Spec => ChangesOnlyInItsDirection
<1> DEFINE Directed == ChangesInItsDirection(Files \ GitDuringAuthorization)
<1>1. IndInv /\ [Next]_vars => [Directed]_envelope
  <2> SUFFICES ASSUME IndInv, Next, envelope' # envelope,
                      NEW p \in Procs, NEW f \in Files \ GitDuringAuthorization,
                      cmd[p].op \in AuthorizationOps, cmd'[p] # cmd[p]
               PROVE  envelope'[f].recips \in
                        {envelope[f].recips,
                         Target(cmd[p].op, cmd[p].named, envelope[f].recips)}
    BY DEF vars, ChangesInItsDirection
  <2>1. PICK g \in Files : Rewrap(p, g) \/ Rotate(p, g)
    BY EnvelopeWriters
  <2>2. envelope \in [Files -> Envelopes \cup {NoFile, Broken}]
    BY DEF IndInv, TypeOK
  <2>3. CASE f # g
    BY <2>1, <2>2, <2>3 DEF Rewrap, Rotate
  <2>4. CASE f = g
    <3>1. cmd[p].planned[f] = envelope[f]
      BY <2>1, <2>4 DEF Rewrap, Rotate, Working, IndInv, PlannedInv, Convergible
    <3>2. envelope'[f].recips = Target(cmd[p].op, cmd[p].named, envelope[f].recips)
      BY <2>1, <2>2, <2>4, <3>1 DEF Rewrap, Rotate, Working, Fresh
    <3> QED
      BY <3>2
  <2> QED
    BY <2>3, <2>4
<1> HIDE DEF Directed
<1>2. Spec => [][Directed]_envelope
  BY <1>1, Invariance, PTL DEF Spec
<1> QED
  BY <1>2 DEF ChangesOnlyInItsDirection, Directed

\* Between its freshness check and its rename a publisher still has the
\* manifest it loaded, if nobody edits it there.
FreshInv ==
  \A p \in Procs : cmd[p].pc = "rename" => policy = cmd[p].loaded

\* FreshInv is inductive under the lock: only its holder publishes.
LEMMA NextFreshInv ==
  ASSUME ~EditsDuringPublication, IndInv, FreshInv, [Next]_vars
  PROVE  FreshInv'
<1> SUFFICES ASSUME NEW q \in Procs, cmd'[q].pc = "rename"
             PROVE  policy' = cmd'[q].loaded
  BY DEF FreshInv
<1>1. CASE EditManifest \/ GitStep \/ UNCHANGED vars
  BY <1>1 DEF EditManifest, GitStep, GitPull, GitMergeConflict, GitAdd, vars, FreshInv
<1>2. ASSUME NEW p \in Procs,
             StartStep(p) \/ LockStep(p) \/ DataStep(p) \/ AuthorizationStep(p)
      PROVE  policy' = cmd'[q].loaded
  <2>1. cmd \in [Procs -> Commands] /\ cmd[p] \in Commands
    BY DEF IndInv, TypeOK
  <2>2. CASE CheckFresh(p)
    <3>1. CASE End(p)
      BY <2>1, <2>2, <3>1 DEF CheckFresh, End, Idle, FreshInv
    <3>2. CASE ~End(p)
      BY <2>1, <2>2, <3>2 DEF CheckFresh, Commands, FreshInv
    <3> QED
      BY <3>1, <3>2
  <2>3. CASE Rename(p)
    <3>1. lock = p /\ cmd'[p].pc = "files" /\ \A r \in Procs \ {p} : cmd'[r] = cmd[r]
      BY <2>1, <2>3 DEF Rename, IndInv, LockInv, Commands
    <3>2. q # p /\ cmd[q].pc = "rename"
      BY <3>1
    <3> QED
      BY <3>1, <3>2 DEF IndInv, LockInv
  <2>4. CASE ~CheckFresh(p) /\ ~Rename(p)
    <3>1. UNCHANGED policy /\ \A r \in Procs \ {p} : cmd'[r] = cmd[r]
      BY <1>2, <2>1, <2>4 DEF StartStep, LockStep, DataStep, AuthorizationStep,
         StartData, StartAuthorization, Acquire, LockTimeout, Die, Finish, End,
         FirstSeal, SealExisting, ResolveMerged, ResolveConflict, PassOver, Handled,
         Plan, Rewrap, Rotate
    <3>2. CASE StartStep(p) \/ LockStep(p)
      <4>1. CASE StartStep(p)
        BY <4>1, <2>1, <3>1 DEF FreshInv, StartStep, StartData, StartAuthorization,
           Waiting, Idle
      <4>2. CASE Acquire(p)
        BY <4>2, <2>1, <3>1 DEF FreshInv, Acquire, Commands
      <4>3. CASE End(p)
        BY <4>3, <2>1, <3>1 DEF FreshInv, End, Idle
      <4> QED
        BY <3>2, <4>1, <4>2, <4>3 DEF LockStep, LockTimeout, Die, Finish
    <3>3. CASE DataStep(p) \/ \E f \in Files : Rewrap(p, f) \/ Rotate(p, f)
      <4>1. PICK f \in Files : cmd[p].pc = "files" /\ Handled(p, f)
        BY <3>3 DEF DataStep, FirstSeal, SealExisting, ResolveMerged, ResolveConflict,
           PassOver, Rewrap, Rotate, Working
      <4> QED
        BY <4>1, <3>1, HandledEffect DEF FreshInv
    <3>4. CASE Plan(p)
      <4>1. CASE End(p)
        BY <4>1, <2>1, <3>1 DEF FreshInv, End, Idle
      <4>2. CASE ~End(p)
        <5>0. ~Rejected(cmd[p].op, cmd[p].named, policy)
          BY <3>4, <4>2 DEF Plan
        <5> DEFINE desired == Target(cmd[p].op, cmd[p].named, policy)
        <5>1. PICK ready \in SUBSET {f \in Unaligned(cmd[p].op, cmd[p].named) :
                                       Readable(envelope[f])} :
                cmd' = [cmd EXCEPT
                  ![p].pc     = IF desired = policy THEN "files" ELSE "publish",
                  ![p].loaded = IF desired = policy THEN {} ELSE policy,
                  ![p].todo   = ready,
                  ![p].planned =
                    [f \in Files |-> IF f \in ready THEN envelope[f] ELSE NoFile]]
          BY <3>4, <4>2, <5>0 DEF Plan
        <5>2. cmd'[p].pc \in {"files", "publish"}
          BY <5>1, <2>1 DEF Commands
        <5> QED
          BY <5>2, <3>1 DEF FreshInv
      <4> QED
        BY <4>1, <4>2
    <3> QED
      BY <1>2, <2>4, <3>2, <3>3, <3>4 DEF AuthorizationStep
  <2> QED
    BY <2>2, <2>3, <2>4
<1> QED
  BY <1>1, <1>2 DEF Next

\* README.md:144: a publication replaces the manifest it loaded and no other,
\* provided that nobody edits the manifest inside the check-then-rename of
\* publish_if_fresh, where the code cannot see one.
THEOREM NothingOverwritten ==
  ASSUME ~EditsDuringPublication
  PROVE  Spec => NoOverwrittenManifest
<1> DEFINE Safe ==
      \A p \in Procs : cmd[p].pc = "rename" /\ cmd'[p].pc = "files"
                       => policy = cmd[p].loaded
<1>1. Init => FreshInv
  BY DEF Init, FreshInv, Idle
<1>2. IndInv /\ FreshInv /\ [Next]_vars => FreshInv'
  BY NextFreshInv
<1>3. FreshInv => Safe
  BY DEF FreshInv
<1> HIDE DEF Safe
<1>4. Spec => [][Safe]_<<policy, cmd>>
  BY <1>1, <1>2, <1>3, Invariance, PTL DEF Spec
<1> QED
  BY <1>4 DEF NoOverwrittenManifest, Safe
=============================================================================
