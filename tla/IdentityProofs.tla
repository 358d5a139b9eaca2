--------------------------- MODULE IdentityProofs ---------------------------
(***************************************************************************)
(* What Identity guarantees for any number of generations.  IndInv is the  *)
(* inductive invariant: next to types it says what the staged file is at   *)
(* each point of a generation, that only an age-keygen on its way changes  *)
(* it, and that the destination holds nothing but finished files.          *)
(***************************************************************************)
EXTENDS Identity, TLAPS

Finished(f) == f.content = "whole" /\ f.private /\ f.synced

\* Only one who waits for a child has one.
CallInv ==
  \A g \in Generators :
    call[g].at # "none" => pc[g] \in {"version", "keygen", "derive"}

\* The staged file of a generation, from the first moment to the last.
StagedRight(g) ==
  /\ pc[g] \in {"start", "version", "parent", "stage", "done", "dead"} => staged[g] = Nothing
  /\ staged[g] # Nothing => staged[g].owner = g
  /\ pc[g] \in {"derive", "publish"} =>
       staged[g] # Nothing /\ staged[g].regular /\ staged[g].private /\ staged[g].synced
  /\ pc[g] = "derive" /\ call[g].child = "succeeded" => staged[g].content = "whole"
  /\ pc[g] = "publish" => staged[g].content = "whole"
  /\ pc[g] = "remove" /\ staged[g] # Nothing /\ staged[g].regular =>
       staged[g].content = "zero"

StagedInv == \A g \in Generators : StagedRight(g)

\* What is at the destination, or would be after a power failure, is finished.
FinishedInv ==
  /\ dest # Nothing => Finished(dest)
  /\ durable # Nothing => Finished(durable)

\* Files are in a directory, and Publish renames in one that is there.
ParentInv ==
  /\ parent = "missing" => dest = Nothing /\ durable = Nothing
  /\ \A g \in Generators :
       pc[g] \in {"stage", "keygen", "secure", "derive", "publish"} => parent # "missing"

\* A confirmed file is on the disk; who has not published confirmed nothing.
ConfirmedInv ==
  /\ \A g \in Generators :
       g \in promised /\ outcome[g] = "confirmed" => durable # Nothing /\ durable.owner = g
  /\ \A g \in Generators :
       pc[g] \notin {"wipe", "remove", "done", "dead"} => outcome[g] = "error"

IndInv ==
  /\ TypeOK
  /\ CallInv /\ StagedInv /\ residue = {}
  /\ FinishedInv /\ ParentInv
  /\ PublishedIsKept /\ ConfirmedInv

-----------------------------------------------------------------------------
(* Calls.                                                                   *)

\* What a call of one generation may change.
CallOf(g) ==
  /\ CallTypeOK'
  /\ \A h \in Generators \ {g} : call'[h] = call[h]

\* No call is a call of the type.
LEMMA NoCallType == NoCall \in Call
BY CapturedChildAssumption DEF NoCall, Call, Silent, Streams

\* Nobody is in a call at first.
LEMMA InitCalls ==
  ASSUME call = [g \in Generators |-> NoCall]
  PROVE  CallTypeOK
BY NoCallType DEF CallTypeOK, NoCall, Lives, Generators

\* One call changes, to one of the type whose child, if it lives, is waited for.
LEMMA CallSet ==
  ASSUME CallTypeOK, NEW g \in Generators, NEW next \in Call,
         call' = [call EXCEPT ![g] = next],
         next.child \in {"running", "hung"} => next.at \in {"wait", "kill"}
  PROVE  CallOf(g) /\ call'[g] = next
BY DEF CallTypeOK, CallOf, Lives, Generators

\* A call begins: its child has not succeeded yet.
LEMMA SpawnEffect ==
  ASSUME CallTypeOK, NEW g \in Generators, Spawn(g)
  PROVE  CallOf(g) /\ call'[g].child # "succeeded"
<1>1. PICK output \in Outputs, child \in {"running", "failed"} :
        call' = [call EXCEPT ![g] =
                   [at |-> IF child = "running" THEN "wait" ELSE "back", child |-> child,
                    late |-> FALSE, pipe |-> Silent,
                    unwritten |-> IF child = "running" THEN output ELSE Silent]]
  BY DEF Spawn
<1> DEFINE next == [at |-> IF child = "running" THEN "wait" ELSE "back", child |-> child,
                    late |-> FALSE, pipe |-> Silent,
                    unwritten |-> IF child = "running" THEN output ELSE Silent]
<1>2. Silent \in [Streams -> 0..Room] /\ Silent \in [Streams -> Nat]
  BY CapturedChildAssumption DEF Silent
<1>3. output \in [Streams -> Nat]
  BY CapturedChildAssumption
<1>4. next \in Call
  BY <1>2, <1>3 DEF Call
<1>5. next.child \in {"running", "hung"} => next.at \in {"wait", "kill"}
  OBVIOUS
<1> HIDE DEF next
<1>6. CallOf(g) /\ call'[g] = next
  BY <1>1, <1>4, <1>5, CallSet DEF next
<1> QED
  BY <1>6 DEF next

\* A call that has come back is over, and its child with it.
LEMMA ReleaseEffect ==
  ASSUME CallTypeOK, NEW g \in Generators, Returned(g), Release(g)
  PROVE  CallOf(g) /\ call'[g] = NoCall
<1>1. ~Lives(g)
  BY DEF CallTypeOK, Returned, Generators
<1>2. call' = [call EXCEPT ![g] = NoCall]
  BY <1>1 DEF Release
<1>3. NoCall.child \notin {"running", "hung"}
  BY DEF NoCall
<1> QED
  BY <1>2, <1>3, NoCallType, CallSet

\* A chunk goes into a pipe or out of it.
LEMMA StreamEffect ==
  ASSUME CallTypeOK, NEW g \in Generators, NEW s \in Streams, Write(g, s) \/ Read(g, s)
  PROVE  /\ CallOf(g) /\ call[g].at # "none"
         /\ call'[g].child = call[g].child
<1>0. call[g] \in Call /\ (Lives(g) => call[g].at \in {"wait", "kill"})
  BY DEF CallTypeOK, Generators
<1>1. PICK unwritten \in [Streams -> Nat], pipe \in [Streams -> 0..Room] :
        call' = [call EXCEPT ![g] = [call[g] EXCEPT !.unwritten = unwritten, !.pipe = pipe]]
  <2>1. call[g].unwritten \in [Streams -> Nat] /\ call[g].pipe \in [Streams -> 0..Room]
    BY <1>0 DEF Call
  <2>2. CASE Write(g, s)
    <3> DEFINE unwritten == [call[g].unwritten EXCEPT ![s] = @ - 1]
               pipe == [call[g].pipe EXCEPT ![s] = @ + 1]
    <3>1. unwritten \in [Streams -> Nat] /\ pipe \in [Streams -> 0..Room]
      BY <2>1, <2>2, CapturedChildAssumption DEF Write
    <3>2. call' = [call EXCEPT ![g] = [call[g] EXCEPT !.unwritten = unwritten, !.pipe = pipe]]
      BY <1>0, <2>2 DEF Write, Call
    <3> QED
      BY <3>1, <3>2
  <2>3. CASE Read(g, s)
    <3> DEFINE pipe == [call[g].pipe EXCEPT ![s] = @ - 1]
    <3>1. pipe \in [Streams -> 0..Room]
      BY <2>1, <2>3, CapturedChildAssumption DEF Read, Reads
    <3>2. call' = [call EXCEPT ![g] = [call[g] EXCEPT !.unwritten = call[g].unwritten, !.pipe = pipe]]
      BY <1>0, <2>3 DEF Read, Call
    <3> QED
      BY <2>1, <3>1, <3>2
  <2> QED
    BY <2>2, <2>3
<1> DEFINE next == [call[g] EXCEPT !.unwritten = unwritten, !.pipe = pipe]
<1>2. next \in Call /\ next.child = call[g].child /\ next.at = call[g].at
  BY <1>0 DEF Call
<1>3. call' = [call EXCEPT ![g] = next]
  BY <1>1
<1> HIDE DEF next
<1>4. CallOf(g) /\ call'[g] = next
  BY <1>0, <1>2, <1>3, CallSet DEF Lives
<1>5. call[g].at # "none"
  BY <1>0 DEF Write, Read, Reads, Lives
<1> QED
  BY <1>2, <1>4, <1>5

\* The child: the call goes on.
LEMMA ChildEffect ==
  ASSUME CallTypeOK, NEW g \in Generators,
         Succeed(g) \/ Fail(g) \/ Hang(g) \/ \E s \in Streams : Write(g, s)
  PROVE  /\ CallOf(g) /\ call[g].at # "none"
         /\ call'[g].child = "succeeded" => Succeed(g)
<1>1. call[g] \in Call /\ (Lives(g) => call[g].at \in {"wait", "kill"})
  BY DEF CallTypeOK, Generators
<1>2. Silent \in [Streams -> Nat]
  BY DEF Silent
<1>3. CASE Succeed(g) \/ Fail(g) \/ Hang(g)
  <2> DEFINE next(child) == [call[g] EXCEPT !.child = child, !.unwritten = Silent]
  <2>1. PICK child \in {"succeeded", "failed", "hung"} :
          /\ call' = [call EXCEPT ![g] = next(child)]
          /\ child = "succeeded" => Succeed(g)
          /\ child = "hung" => call[g].child = "running"
    <3>1. CASE Succeed(g)
      <4>1. call[g] = [call[g] EXCEPT !.unwritten = Silent]
        BY <1>1, <3>1 DEF Succeed, Call
      <4> QED
        BY <1>1, <3>1, <4>1 DEF Succeed, Call
    <3>2. CASE Fail(g)
      BY <1>1, <3>2 DEF Fail, Call
    <3>3. CASE Hang(g)
      BY <1>1, <3>3 DEF Hang, Call
    <3> QED
      BY <1>3, <3>1, <3>2, <3>3
  <2>2. next(child) \in Call /\ next(child).child = child /\ next(child).at = call[g].at
    BY <1>1, <1>2 DEF Call
  <2>3. Lives(g)
    BY <1>3 DEF Succeed, Fail, Hang, Lives
  <2> HIDE DEF next
  <2>4. CallOf(g) /\ call'[g] = next(child)
    BY <1>1, <2>1, <2>2, <2>3, CallSet
  <2> QED
    BY <1>1, <2>1, <2>2, <2>3, <2>4
<1>4. ASSUME NEW s \in Streams, Write(g, s)
      PROVE  /\ CallOf(g) /\ call[g].at # "none"
             /\ call'[g].child # "succeeded"
  BY <1>4, StreamEffect DEF Write
<1> QED
  BY <1>3, <1>4

\* The caller and its readers, which make no child succeed.
LEMMA CallerEffect ==
  ASSUME CallTypeOK, NEW g \in Generators, CallStep(g)
  PROVE  /\ CallOf(g) /\ call[g].at # "none"
         /\ call'[g].child = "succeeded" => call[g].child = "succeeded"
<1>1. call[g] \in Call /\ (Lives(g) => call[g].at \in {"wait", "kill"})
  BY DEF CallTypeOK, Generators
<1>2. CASE \E s \in Streams : Read(g, s)
  BY <1>2, StreamEffect
<1>5. CASE Wait(g)
  <2>1. PICK at \in {"join", "kill"}, late \in BOOLEAN :
          /\ call' = [call EXCEPT ![g] = [call[g] EXCEPT !.at = at, !.late = late]]
          /\ at = "join" => ~Lives(g)
    <3>1. call[g] = [call[g] EXCEPT !.late = call[g].late] /\ call[g].late \in BOOLEAN
      BY <1>1 DEF Call
    <3>2. CASE ~Lives(g) /\ call' = [call EXCEPT ![g].at = "join"]
      <4>1. call' = [call EXCEPT ![g] = [call[g] EXCEPT !.at = "join", !.late = call[g].late]]
        BY <1>1, <3>1, <3>2 DEF Call
      <4> QED
        BY <3>1, <3>2, <4>1
    <3>3. CASE call' = [call EXCEPT ![g].at = "kill", ![g].late = TRUE]
      <4>1. call' = [call EXCEPT ![g] = [call[g] EXCEPT !.at = "kill", !.late = TRUE]]
        BY <1>1, <3>3 DEF Call
      <4> QED
        BY <4>1
    <3> QED
      BY <1>5, <3>2, <3>3 DEF Wait
  <2> DEFINE next == [call[g] EXCEPT !.at = at, !.late = late]
  <2>2. next \in Call /\ next.child = call[g].child /\ next.at = at
    BY <1>1 DEF Call
  <2>3. call' = [call EXCEPT ![g] = next]
    BY <2>1
  <2> HIDE DEF next
  <2>4. CallOf(g) /\ call'[g] = next
    BY <2>1, <2>2, <2>3, CallSet DEF Lives
  <2> QED
    BY <1>5, <2>2, <2>4 DEF Wait
<1>6. CASE Kill(g)
  <2> DEFINE next == [call[g] EXCEPT !.at = "join", !.child = IF Lives(g) THEN "killed" ELSE @]
  <2>1. /\ next \in Call /\ next.at = "join"
        /\ next.child = IF Lives(g) THEN "killed" ELSE call[g].child
    BY <1>1 DEF Call
  <2>2. call' = [call EXCEPT ![g] = next]
    BY <1>1, <1>6 DEF Kill, Call
  <2> HIDE DEF next
  <2>3. CallOf(g) /\ call'[g] = next
    BY <2>1, <2>2, CallSet DEF Lives
  <2> QED
    BY <1>6, <2>1, <2>3 DEF Kill
<1>7. CASE Join(g)
  <2> DEFINE next == [call[g] EXCEPT !.at = "back"]
  <2>1. next \in Call /\ next.at = "back" /\ next.child = call[g].child
    BY <1>1 DEF Call
  <2>2. call' = [call EXCEPT ![g] = next]
    BY <1>7 DEF Join
  <2>3. ~Lives(g)
    BY <1>1, <1>7 DEF Join
  <2> HIDE DEF next
  <2>4. CallOf(g) /\ call'[g] = next
    BY <2>1, <2>2, <2>3, CallSet DEF Lives
  <2> QED
    BY <1>7, <2>1, <2>4 DEF Join
<1> QED
  BY <1>2, <1>5, <1>6, <1>7 DEF CallStep

-----------------------------------------------------------------------------
(* The steps of a generation.                                               *)

\* The invariant holds at first.
LEMMA InitIndInv == Init => IndInv
<1> SUFFICES ASSUME Init PROVE IndInv
  OBVIOUS
<1>1. TypeOK /\ CallInv
  <2>1. CallTypeOK
    BY InitCalls DEF Init
  <2> QED
    BY <2>1 DEF Init, TypeOK, CallInv, NoCall
<1> QED
  BY <1>1
  DEF Init, IndInv, StagedInv, StagedRight, FinishedInv, ParentInv, PublishedIsKept, ConfirmedInv

\* Where a generation goes that touches no file.
MovesOn(at, next) ==
  \/ at = "start" /\ next = "version"
  \/ at = "version" /\ next = "parent"
  \/ at = "stage" /\ next = "keygen"
  \/ at = "keygen" /\ next = "secure"
  \/ at = "derive" /\ next = "publish"
  \/ at \in {"start", "version", "stage"} /\ next = "done"
  \/ at \in {"keygen", "secure", "derive", "publish"} /\ next = "wipe"

\* A generation goes on to another point and touches no file.
LEMMA MoveOnKeeps ==
  ASSUME IndInv, NEW g \in Generators, NEW next, UNCHANGED <<outcome, files>>,
         CallOf(g), Goto(g, next),
         MovesOn(pc[g], next),
         call'[g].at # "none" => next \in {"version", "keygen"},
         next = "publish" => call[g].child = "succeeded"
  PROVE  IndInv'
<1>1. /\ pc' = [pc EXCEPT ![g] = next]
      /\ pc'[g] = next
      /\ \A h \in Generators \ {g} : pc'[h] = pc[h] /\ call'[h] = call[h]
  BY DEF Goto, CallOf, IndInv, TypeOK
<1>2. TypeOK'
  BY <1>1 DEF IndInv, TypeOK, CallOf, files, MovesOn
<1>3. CallInv'
  BY <1>1 DEF IndInv, CallInv, MovesOn
<1>4. StagedInv'
  BY <1>1 DEF IndInv, StagedInv, StagedRight, files, MovesOn
<1>5. (residue = {} /\ FinishedInv /\ PublishedIsKept)'
  BY DEF IndInv, FinishedInv, Finished, PublishedIsKept, files
<1>6. ParentInv'
  BY <1>1 DEF IndInv, ParentInv, files, MovesOn
<1>7. ConfirmedInv'
  BY <1>1 DEF IndInv, ConfirmedInv, files, MovesOn
<1> QED
  BY <1>2, <1>3, <1>4, <1>5, <1>6, <1>7 DEF IndInv

\* Between calls a generation has no child.
LEMMA NoChild ==
  ASSUME IndInv, NEW g \in Generators, pc[g] \notin {"version", "keygen", "derive"}
  PROVE  call[g].at = "none" /\ ~Lives(g)
<1>1. call[g].at = "none"
  BY DEF IndInv, CallInv
<1> QED
  BY <1>1 DEF IndInv, TypeOK, CallTypeOK, Generators

\* No call changes.
LEMMA SameCalls ==
  ASSUME IndInv, UNCHANGED call, NEW g
  PROVE  CallOf(g)
BY DEF IndInv, TypeOK, CallTypeOK, CallOf, Lives, Call

\* The staged files of the other generations are none of this one's business.
LEMMA OthersStaged ==
  ASSUME StagedInv, NEW g \in Generators, StagedRight(g)',
         \A h \in Generators \ {g} :
           pc'[h] = pc[h] /\ call'[h] = call[h] /\ staged'[h] = staged[h]
  PROVE  StagedInv'
BY DEF StagedInv, StagedRight

\* The steps before age-keygen writes.
LEMMA CheckKeeps ==
  ASSUME IndInv, NEW g \in Generators, CheckDestination(g) \/ CheckVersion(g) \/ Stage(g)
  PROVE  IndInv'
<1>0. CallTypeOK
  BY DEF IndInv, TypeOK
<1>1. CASE CheckDestination(g)
  <2>1. CASE Goto(g, "version") /\ Spawn(g)
    BY <1>0, <1>1, <2>1, SpawnEffect, MoveOnKeeps DEF MovesOn, CheckDestination
  <2>2. CASE Goto(g, "done") /\ UNCHANGED call
    BY <1>1, <2>2, SameCalls, NoChild, MoveOnKeeps DEF MovesOn, CheckDestination
  <2> QED
    BY <1>1, <2>1, <2>2 DEF CheckDestination
<1>2. CASE CheckVersion(g)
  <2>1. CallOf(g) /\ call'[g].at = "none"
    BY <1>0, <1>2, ReleaseEffect DEF CheckVersion, NoCall
  <2> QED
    BY <1>2, <2>1, MoveOnKeeps DEF MovesOn, CheckVersion
<1>3. CASE Stage(g)
  <2>1. CASE Goto(g, "keygen") /\ Spawn(g)
    BY <1>0, <1>3, <2>1, SpawnEffect, MoveOnKeeps DEF MovesOn, Stage
  <2>2. CASE Goto(g, "done") /\ UNCHANGED call
    BY <1>3, <2>2, SameCalls, NoChild, MoveOnKeeps DEF MovesOn, Stage
  <2> QED
    BY <1>3, <2>1, <2>2 DEF Stage
<1> QED
  BY <1>1, <1>2, <1>3

\* age-keygen has come back.
LEMMA KeygenReturnedKeeps ==
  ASSUME IndInv, NEW g \in Generators, Generated(g) \/ Derived(g)
  PROVE  IndInv'
<1>1. Returned(g) /\ Release(g) /\ UNCHANGED <<outcome, files>>
  BY DEF Generated, Derived
<1>2. CallOf(g) /\ call'[g].at = "none"
  BY <1>1, ReleaseEffect DEF IndInv, TypeOK, NoCall
<1>3. CASE Generated(g)
  BY <1>1, <1>2, <1>3, MoveOnKeeps DEF MovesOn, Generated, GiveUp
<1>4. CASE Derived(g)
  BY <1>1, <1>2, <1>4, MoveOnKeeps DEF MovesOn, Derived, GiveUp, Captured
<1> QED
  BY <1>3, <1>4

\* The directory of the destination may be made; nothing else happens to it.
LEMMA EnsureParentKeeps ==
  ASSUME IndInv, NEW g \in Generators, EnsureParent(g)
  PROVE  IndInv'
<1>1. PICK next \in {"stage", "done"} :
        /\ Goto(g, next)
        /\ next = "stage" => parent' # "missing"
  BY DEF EnsureParent, IndInv, TypeOK
<1>2. /\ pc[g] = "parent" /\ UNCHANGED <<call, outcome, staged, residue, dest, durable, promised>>
      /\ parent' \in {parent, "made"} /\ parent' \in {"missing", "there", "made"}
      /\ parent' = "missing" => parent = "missing"
  BY DEF EnsureParent, IndInv, TypeOK
<1>3. /\ pc' = [pc EXCEPT ![g] = next]
      /\ pc'[g] = next /\ \A h \in Generators \ {g} : pc'[h] = pc[h]
  BY <1>1 DEF Goto, IndInv, TypeOK
<1>4. CallOf(g) /\ call[g].at = "none"
  BY <1>2, SameCalls, NoChild
<1>5. (TypeOK /\ CallInv)'
  BY <1>2, <1>3, <1>4 DEF IndInv, TypeOK, CallInv, CallOf
<1>6. StagedInv'
  BY <1>2, <1>3 DEF IndInv, StagedInv, StagedRight
<1>7. (residue = {} /\ FinishedInv /\ PublishedIsKept)'
  BY <1>2 DEF IndInv, FinishedInv, Finished, PublishedIsKept
<1>8. ParentInv'
  BY <1>1, <1>2, <1>3 DEF IndInv, ParentInv
<1>9. ConfirmedInv'
  BY <1>2, <1>3 DEF IndInv, ConfirmedInv
<1> QED
  BY <1>5, <1>6, <1>7, <1>8, <1>9 DEF IndInv

\* A staged file is a file, whatever part of it changes.
LEMMA FileChange ==
  ASSUME NEW f \in File
  PROVE  /\ [f EXCEPT !.private = TRUE, !.synced = TRUE] \in File
         /\ [f EXCEPT !.content = "zero", !.private = TRUE] \in File
         /\ \A content \in {"part", "whole"} : [f EXCEPT !.content = content] \in File
BY DEF File

\* A file that passes is private and on disk, and nobody has asked for its recipient.
LEMMA SecureKeeps ==
  ASSUME IndInv, NEW g \in Generators, Secure(g)
  PROVE  IndInv'
<1>1. CASE GiveUp(g) /\ UNCHANGED <<call, staged>>
  BY <1>1, SameCalls, NoChild, MoveOnKeeps DEF MovesOn, Secure, GiveUp, files
<1>2. CASE /\ staged[g] # Nothing /\ staged[g].regular
           /\ staged' = [staged EXCEPT ![g].private = TRUE, ![g].synced = TRUE]
           /\ Goto(g, "derive") /\ Spawn(g)
  <2>1. pc[g] = "secure" /\ UNCHANGED <<outcome, residue, parent, dest, durable, promised>>
    BY DEF Secure
  <2>2. CallOf(g) /\ call'[g].child # "succeeded"
    BY <1>2, SpawnEffect DEF IndInv, TypeOK
  <2>3. /\ pc' = [pc EXCEPT ![g] = "derive"]
        /\ pc'[g] = "derive"
        /\ \A h \in Generators \ {g} : pc'[h] = pc[h] /\ call'[h] = call[h]
    BY <1>2, <2>2 DEF Goto, CallOf, IndInv, TypeOK
  <2> DEFINE secured == [staged[g] EXCEPT !.private = TRUE, !.synced = TRUE]
  <2>4. staged[g] \in File /\ secured \in File
    BY <1>2, FileChange DEF IndInv, TypeOK
  <2>5. /\ secured.regular /\ secured.private /\ secured.synced
        /\ secured.owner = staged[g].owner
    BY <1>2, <2>4 DEF File
  <2>6. staged' = [staged EXCEPT ![g] = secured]
    BY <1>2, <2>4 DEF File
  <2> HIDE DEF secured
  <2>7. staged'[g] = secured /\ \A h \in Generators \ {g} : staged'[h] = staged[h]
    BY <2>6 DEF IndInv, TypeOK
  <2>8. TypeOK'
    <3>1. staged' \in [Generators -> {Nothing} \cup File]
      BY <2>4, <2>6 DEF IndInv, TypeOK
    <3> QED
      BY <2>1, <2>2, <2>3, <3>1 DEF IndInv, TypeOK, CallOf
  <2>9. CallInv'
    BY <2>3 DEF IndInv, CallInv
  <2>10. StagedInv'
    <3>1. StagedRight(g)'
      <4>1. staged[g].owner = g
        BY <1>2 DEF IndInv, StagedInv, StagedRight
      <4>2. staged'[g] # Nothing
        BY <2>4, <2>7, IdentityAssumption
      <4> QED
        BY <2>2, <2>3, <2>5, <2>7, <4>1, <4>2 DEF StagedRight
    <3> QED
      BY <2>3, <2>7, <3>1, OthersStaged DEF IndInv
  <2>11. (residue = {} /\ FinishedInv /\ PublishedIsKept)'
    BY <2>1 DEF IndInv, FinishedInv, Finished, PublishedIsKept
  <2>12. (ParentInv /\ ConfirmedInv)'
    BY <2>1, <2>3 DEF IndInv, ParentInv, ConfirmedInv
  <2> QED
    BY <2>8, <2>9, <2>10, <2>11, <2>12 DEF IndInv
<1> QED
  BY <1>1, <1>2 DEF Secure

\* Only a finished file takes the destination, and only one where nothing is, so
\* that nothing was promised.
LEMMA PublishKeeps ==
  ASSUME IndInv, NEW g \in Generators, Publish(g)
  PROVE  IndInv'
<1>1. CASE GiveUp(g) /\ UNCHANGED <<staged, dest, promised>>
  BY <1>1, SameCalls, NoChild, MoveOnKeeps DEF MovesOn, Publish, GiveUp, files
<1>2. CASE dest = Nothing /\ Move(g)
  <2>1. /\ pc[g] = "publish" /\ UNCHANGED <<call, outcome, residue, parent, durable>>
        /\ dest' = staged[g] /\ staged' = [staged EXCEPT ![g] = Nothing]
        /\ promised' = promised \cup {g} /\ pc' = [pc EXCEPT ![g] = "sync"]
    BY <1>2 DEF Publish, Move, Goto
  <2>2. CallOf(g) /\ call[g].at = "none"
    BY <2>1, SameCalls, NoChild
  <2>3. /\ pc'[g] = "sync" /\ staged'[g] = Nothing
        /\ \A h \in Generators \ {g} : pc'[h] = pc[h] /\ staged'[h] = staged[h]
    BY <2>1 DEF IndInv, TypeOK
  <2>4. /\ dest' # Nothing /\ dest' \in File /\ dest'.owner = g
        /\ Finished(dest)'
    BY <2>1 DEF IndInv, TypeOK, StagedInv, StagedRight, Finished
  <2>5. promised = {}
    BY <1>2 DEF IndInv, PublishedIsKept
  <2>6. (TypeOK /\ CallInv)'
    BY <2>1, <2>2, <2>3, <2>4 DEF IndInv, TypeOK, CallInv, CallOf
  <2>7. StagedInv'
    <3>1. StagedRight(g)'
      BY <2>3 DEF StagedRight
    <3> QED
      BY <2>1, <2>3, <3>1, OthersStaged DEF IndInv
  <2>8. (residue = {} /\ FinishedInv)'
    BY <2>1, <2>4 DEF IndInv, FinishedInv, Finished
  <2>9. ParentInv'
    <3>1. parent # "missing"
      BY <2>1 DEF IndInv, ParentInv
    <3> QED
      BY <2>1, <3>1 DEF ParentInv
  <2>10. PublishedIsKept'
    BY <2>1, <2>4, <2>5 DEF PublishedIsKept
  <2>11. ConfirmedInv'
    <3>1. outcome'[g] = "error"
      BY <2>1 DEF IndInv, ConfirmedInv
    <3> QED
      BY <2>1, <2>3, <2>5, <3>1 DEF IndInv, ConfirmedInv
  <2> QED
    BY <2>6, <2>7, <2>8, <2>9, <2>10, <2>11 DEF IndInv
<1> QED
  BY <1>1, <1>2 DEF Publish

\* Who confirms has flushed the directory with what is promised to be there.
LEMMA SyncKeeps ==
  ASSUME IndInv, NEW g \in Generators, SyncDirectory(g)
  PROVE  IndInv'
<1>1. PICK told \in {"confirmed", "unconfirmed"} :
        /\ outcome' = [outcome EXCEPT ![g] = told]
        /\ durable' \in {dest, durable}
        /\ told = "confirmed" => durable' = dest
        /\ told = "unconfirmed" => durable' = durable
  BY DEF SyncDirectory
<1>2. /\ pc[g] = "sync" /\ UNCHANGED <<call, staged, residue, parent, dest, promised>>
      /\ pc' = [pc EXCEPT ![g] = "wipe"]
  BY DEF SyncDirectory, Goto
<1>3. CallOf(g) /\ call[g].at = "none"
  BY <1>2, SameCalls, NoChild
<1>4. /\ pc'[g] = "wipe" /\ outcome'[g] = told
      /\ \A h \in Generators \ {g} : pc'[h] = pc[h] /\ outcome'[h] = outcome[h]
  BY <1>1, <1>2 DEF IndInv, TypeOK
<1>5. (TypeOK /\ CallInv)'
  BY <1>1, <1>2, <1>3, <1>4 DEF IndInv, TypeOK, CallInv, CallOf
<1>6. StagedInv'
  <2>1. StagedRight(g)'
    BY <1>2, <1>4 DEF IndInv, StagedInv, StagedRight
  <2> QED
    BY <1>2, <1>4, <2>1, OthersStaged DEF IndInv
<1>7. (residue = {} /\ FinishedInv /\ PublishedIsKept)'
  BY <1>1, <1>2 DEF IndInv, FinishedInv, Finished, PublishedIsKept
<1>8. ParentInv'
  BY <1>1, <1>2, <1>4 DEF IndInv, ParentInv
<1>9. ConfirmedInv'
  <2>1. ASSUME NEW h \in Generators, h \in promised', outcome'[h] = "confirmed"
        PROVE  durable' # Nothing /\ durable'.owner = h
    <3>1. dest # Nothing /\ dest.owner = h
      BY <1>2, <2>1 DEF IndInv, PublishedIsKept
    <3>2. CASE told = "confirmed"
      BY <1>1, <3>1, <3>2
    <3>3. CASE told = "unconfirmed"
      BY <1>1, <1>2, <1>4, <2>1, <3>3 DEF IndInv, ConfirmedInv
    <3> QED
      BY <3>2, <3>3
  <2> QED
    BY <1>4, <2>1 DEF IndInv, ConfirmedInv
<1> QED
  BY <1>5, <1>6, <1>7, <1>8, <1>9 DEF IndInv

\* What a step that works on the staged file leaves alone.
LEMMA StagedStepKeeps ==
  ASSUME IndInv, NEW g \in Generators, UNCHANGED <<outcome, parent, dest, durable, promised>>,
         CallOf(g), call'[g].at # "none" => pc'[g] \in {"version", "keygen", "derive"},
         residue' = {}, NEW next, pc' = [pc EXCEPT ![g] = next],
         \/ next = pc[g]
         \/ next \in {"remove", "done"} /\ pc[g] \in {"wipe", "remove"},
         NEW file \in {Nothing} \cup File, staged' = [staged EXCEPT ![g] = file],
         StagedRight(g)'
  PROVE  IndInv'
<1>1. /\ pc'[g] = next /\ staged'[g] = file
      /\ \A h \in Generators \ {g} :
           pc'[h] = pc[h] /\ call'[h] = call[h] /\ staged'[h] = staged[h]
  BY DEF IndInv, TypeOK, CallOf
<1>2. (TypeOK /\ CallInv)'
  BY <1>1 DEF IndInv, TypeOK, CallInv, CallOf
<1>3. StagedInv'
  BY <1>1, OthersStaged DEF IndInv
<1>4. (FinishedInv /\ PublishedIsKept)'
  BY DEF IndInv, FinishedInv, Finished, PublishedIsKept
<1>5. (ParentInv /\ ConfirmedInv)'
  BY <1>1 DEF IndInv, ParentInv, ConfirmedInv
<1> QED
  BY <1>2, <1>3, <1>4, <1>5 DEF IndInv

\* A regular file that is still staged is overwritten.
LEMMA WipeKeeps ==
  ASSUME IndInv, NEW g \in Generators, Wipe(g)
  PROVE  IndInv'
<1>1. /\ pc[g] = "wipe" /\ pc' = [pc EXCEPT ![g] = "remove"] /\ pc'[g] = "remove"
      /\ UNCHANGED <<call, outcome, residue, parent, dest, durable, promised>>
  BY DEF Wipe, Goto, IndInv, TypeOK
<1>2. CallOf(g) /\ call[g].at = "none"
  BY <1>1, SameCalls, NoChild
<1>3. CASE staged[g] # Nothing /\ staged[g].regular
  <2> DEFINE wiped == [staged[g] EXCEPT !.content = "zero", !.private = TRUE]
  <2>1. staged[g] \in File /\ wiped \in File
    BY <1>3, FileChange DEF IndInv, TypeOK
  <2>2. wiped.content = "zero" /\ wiped.owner = staged[g].owner
    BY <2>1 DEF File
  <2>3. staged' = [staged EXCEPT ![g] = wiped]
    BY <1>3, <2>1 DEF Wipe, File
  <2> HIDE DEF wiped
  <2>4. staged'[g] = wiped
    BY <2>3 DEF IndInv, TypeOK
  <2>5. StagedRight(g)'
    BY <1>1, <1>3, <2>2, <2>4 DEF IndInv, StagedInv, StagedRight
  <2> QED
    BY <1>1, <1>2, <2>1, <2>3, <2>5, StagedStepKeeps DEF IndInv
<1>4. CASE ~(staged[g] # Nothing /\ staged[g].regular)
  <2>1. UNCHANGED staged
    BY <1>4 DEF Wipe
  <2>2. staged' = [staged EXCEPT ![g] = staged[g]] /\ staged[g] \in {Nothing} \cup File
    BY <2>1 DEF IndInv, TypeOK
  <2>3. StagedRight(g)'
    BY <1>1, <1>4, <2>1 DEF IndInv, StagedInv, StagedRight
  <2> QED
    BY <1>1, <1>2, <2>2, <2>3, StagedStepKeeps DEF IndInv
<1> QED
  BY <1>3, <1>4

\* So nothing but zeros is removed.
LEMMA RemoveKeeps ==
  ASSUME IndInv, NEW g \in Generators, RemoveStaging(g)
  PROVE  IndInv'
<1>1. /\ pc[g] = "remove" /\ pc' = [pc EXCEPT ![g] = "done"] /\ pc'[g] = "done"
      /\ staged' = [staged EXCEPT ![g] = Nothing] /\ staged'[g] = Nothing
      /\ UNCHANGED <<call, outcome, parent, dest, durable, promised>>
  BY DEF RemoveStaging, Goto, IndInv, TypeOK
<1>2. CallOf(g) /\ call[g].at = "none"
  BY <1>1, SameCalls, NoChild
<1>3. residue' = {}
  BY <1>1 DEF RemoveStaging, IndInv, StagedInv, StagedRight
<1>4. StagedRight(g)'
  BY <1>1 DEF StagedRight
<1> QED
  BY <1>1, <1>2, <1>3, <1>4, StagedStepKeeps

-----------------------------------------------------------------------------
(* The steps of age-keygen.                                                 *)

\* age-keygen writes to the file of its own generation, while that one waits.
LEMMA WriteSecretKeeps ==
  ASSUME IndInv, NEW g \in Generators, WriteSecret(g)
  PROVE  IndInv'
<1>1. UNCHANGED <<call, pc, outcome, residue, parent, dest, durable, promised>>
  BY DEF WriteSecret
<1>2. pc[g] = "keygen"
  BY NoChild DEF WriteSecret
<1>3. CallOf(g) /\ pc' = [pc EXCEPT ![g] = pc[g]]
  BY <1>1, SameCalls DEF IndInv, TypeOK
<1>4. PICK file \in File : staged' = [staged EXCEPT ![g] = file] /\ file.owner = g
  <2>1. CASE staged[g] = Nothing
    <3>1. PICK regular \in BOOLEAN, private \in BOOLEAN :
            staged' = [staged EXCEPT ![g] =
               [owner |-> g, content |-> "part", regular |-> regular,
                private |-> private, synced |-> FALSE]]
      BY <2>1 DEF WriteSecret
    <3>2. [owner |-> g, content |-> "part", regular |-> regular,
           private |-> private, synced |-> FALSE] \in File
      BY DEF File
    <3> QED
      BY <3>1, <3>2
  <2>2. CASE staged[g] # Nothing
    <3>1. staged[g] \in File /\ [staged[g] EXCEPT !.content = "whole"] \in File
      BY <2>2, FileChange DEF IndInv, TypeOK
    <3>2. staged' = [staged EXCEPT ![g] = [staged[g] EXCEPT !.content = "whole"]]
      BY <2>2 DEF WriteSecret
    <3>3. [staged[g] EXCEPT !.content = "whole"].owner = staged[g].owner
      BY <3>1 DEF File
    <3>4. staged[g].owner = g
      BY <2>2 DEF IndInv, StagedInv, StagedRight
    <3> QED
      BY <3>1, <3>2, <3>3, <3>4
  <2> QED
    BY <2>1, <2>2
<1>5. staged'[g] = file
  BY <1>4 DEF IndInv, TypeOK
<1>6. StagedRight(g)'
  BY <1>1, <1>2, <1>4, <1>5 DEF StagedRight
<1> QED
  BY <1>1, <1>2, <1>3, <1>4, <1>6, StagedStepKeeps DEF IndInv

\* age-keygen and its caller: who asks for a recipient gets one of a whole file only.
LEMMA ChildKeeps ==
  ASSUME IndInv, NEW g \in Generators, Keygen(g) \/ Capture(g)
  PROVE  IndInv'
<1>1. UNCHANGED <<pc, outcome, files>>
  BY DEF Keygen, Capture
<1>2. CallOf(g) /\ call[g].at # "none"
  BY ChildEffect, CallerEffect DEF Keygen, Capture, IndInv, TypeOK
<1>3. pc[g] = "derive" /\ call'[g].child = "succeeded" => staged[g].content = "whole"
  <2>1. CASE Capture(g)
    <3>1. call'[g].child = "succeeded" => call[g].child = "succeeded"
      BY <2>1, CallerEffect DEF Capture, IndInv, TypeOK
    <3> QED
      BY <3>1 DEF IndInv, StagedInv, StagedRight
  <2>2. CASE Keygen(g)
    <3>1. CASE Succeed(g) /\ (pc[g] = "derive" => staged[g].content = "whole")
      BY <3>1
    <3>2. CASE Fail(g) \/ Hang(g)
      <4>1. call[g] \in Call /\ DOMAIN call = Generators
        BY DEF IndInv, TypeOK, CallTypeOK, Generators
      <4>2. call'[g].child # "succeeded"
        BY <3>2, <4>1 DEF Fail, Hang, Call
      <4> QED
        BY <4>2
    <3>3. CASE \E s \in Streams : Write(g, s)
      BY <3>3, StreamEffect DEF Write, IndInv, TypeOK
    <3> QED
      BY <2>2, <3>1, <3>2, <3>3 DEF Keygen
  <2> QED
    BY <2>1, <2>2
<1>4. StagedRight(g)'
  BY <1>1, <1>2, <1>3 DEF IndInv, StagedInv, StagedRight, files
<1>5. pc' = [pc EXCEPT ![g] = pc[g]] /\ staged' = [staged EXCEPT ![g] = staged[g]]
      /\ staged[g] \in {Nothing} \cup File
  BY <1>1 DEF IndInv, TypeOK, files
<1>6. pc[g] \in {"version", "keygen", "derive"}
  BY <1>2 DEF IndInv, CallInv
<1> QED
  BY <1>1, <1>2, <1>4, <1>5, <1>6, StagedStepKeeps DEF IndInv, files

-----------------------------------------------------------------------------
(* The steps of the user and of the machine.                                *)

\* The user's file is finished too.
LEMMA UserKeeps ==
  ASSUME IndInv, UserCreates \/ UserRemoves
  PROVE  IndInv'
<1>1. UNCHANGED <<call, pc, outcome, staged, residue, parent, durable>>
  BY DEF UserCreates, UserRemoves
<1>2. CallTypeOK'
  BY <1>1 DEF IndInv, TypeOK, CallTypeOK, Lives, Call
<1> DEFINE created == [owner |-> User, content |-> "whole", regular |-> TRUE,
                       private |-> TRUE, synced |-> TRUE]
<1>3. created \in File /\ created.owner = User /\ Finished(created)
  BY DEF File, Finished
<1>4. dest' = Nothing \/ dest' = created
  BY DEF UserCreates, UserRemoves
<1>5. UserCreates => dest' = created
  BY DEF UserCreates
<1> HIDE DEF created
<1>6. dest' \in {Nothing} \cup File /\ promised' \subseteq Generators \cup {User}
  BY <1>3, <1>4 DEF UserCreates, UserRemoves, IndInv, TypeOK
<1>7. (TypeOK /\ CallInv)'
  BY <1>1, <1>2, <1>6 DEF IndInv, TypeOK, CallInv
<1>8. (StagedInv /\ residue = {})'
  BY <1>1 DEF IndInv, StagedInv, StagedRight
<1>9. FinishedInv'
  BY <1>1, <1>3, <1>4 DEF IndInv, FinishedInv, Finished
<1>10. ParentInv'
  BY <1>1 DEF IndInv, ParentInv, UserCreates, UserRemoves
<1>11. PublishedIsKept'
  <2>1. CASE UserRemoves
    BY <2>1 DEF UserRemoves, PublishedIsKept
  <2>2. CASE UserCreates
    <3>1. promised = {}
      BY <2>2 DEF UserCreates, IndInv, PublishedIsKept
    <3>2. dest'.owner = User /\ dest' # Nothing
      BY <2>2, <1>3, <1>5, IdentityAssumption
    <3> QED
      BY <2>2, <3>1, <3>2 DEF UserCreates, PublishedIsKept
  <2> QED
    BY <2>1, <2>2
<1>12. ConfirmedInv'
  <2>1. \A g \in Generators : g \in promised' => g \in promised
    BY IdentityAssumption DEF UserCreates, UserRemoves
  <2> QED
    BY <1>1, <2>1 DEF IndInv, ConfirmedInv
<1> QED
  BY <1>7, <1>8, <1>9, <1>10, <1>11, <1>12 DEF IndInv

\* Generations that die leave the others as they are.
LEMMA DieKeeps ==
  ASSUME IndInv, NEW killed \in SUBSET Generators, Die(killed)
  PROVE  /\ CallTypeOK' /\ CallInv' /\ StagedInv' /\ residue' = {}
         /\ pc' = [g \in Generators |-> IF g \in killed THEN "dead" ELSE pc[g]]
         /\ staged' \in [Generators -> {Nothing} \cup File]
         /\ outcome' = outcome
<1>1. /\ pc' = [g \in Generators |-> IF g \in killed THEN "dead" ELSE pc[g]]
      /\ call' = [g \in Generators |-> IF g \in killed THEN NoCall ELSE call[g]]
      /\ staged' = [g \in Generators |-> IF g \in killed THEN Nothing ELSE staged[g]]
      /\ UNCHANGED <<outcome, residue>>
  BY DEF Die
<1>2. CallTypeOK'
  <2>1. NoCall \in Call /\ NoCall.child = "none"
    BY NoCallType DEF NoCall
  <2> QED
    BY <1>1, <2>1 DEF IndInv, TypeOK, CallTypeOK, Lives, Generators, Call
<1>3. CallInv'
  BY <1>1 DEF IndInv, CallInv, NoCall
<1>4. StagedInv'
  <2> SUFFICES ASSUME NEW g \in Generators PROVE StagedRight(g)'
    BY DEF StagedInv
  <2>1. CASE g \in killed
    BY <1>1, <2>1 DEF StagedRight
  <2>2. CASE g \notin killed
    BY <1>1, <2>2 DEF IndInv, StagedInv, StagedRight
  <2> QED
    BY <2>1, <2>2
<1> QED
  BY <1>1, <1>2, <1>3, <1>4 DEF IndInv, TypeOK

\* A generation is killed.
LEMMA KilledKeeps ==
  ASSUME IndInv, NEW g \in Generators, Killed(g)
  PROVE  IndInv'
<1>1. UNCHANGED <<parent, dest, durable, promised>>
  BY DEF Killed
<1>2. /\ CallTypeOK' /\ CallInv' /\ StagedInv' /\ residue' = {}
      /\ pc' = [h \in Generators |-> IF h \in {g} THEN "dead" ELSE pc[h]]
      /\ staged' \in [Generators -> {Nothing} \cup File]
      /\ outcome' = outcome
  BY DieKeeps DEF Killed
<1>3. TypeOK'
  BY <1>1, <1>2 DEF IndInv, TypeOK, CallInv
<1>4. (FinishedInv /\ PublishedIsKept)'
  BY <1>1 DEF IndInv, FinishedInv, Finished, PublishedIsKept
<1>5. (ParentInv /\ ConfirmedInv)'
  BY <1>1, <1>2 DEF IndInv, ParentInv, ConfirmedInv
<1> QED
  BY <1>2, <1>3, <1>4, <1>5 DEF IndInv

\* What was confirmed is on the disk, in a directory that stays.
LEMMA PowerFailureKeeps ==
  ASSUME IndInv, PowerFailure
  PROVE  IndInv'
<1> DEFINE killed == {g \in Generators : pc[g] # "done"}
<1>1. /\ CallTypeOK' /\ CallInv' /\ StagedInv' /\ residue' = {}
      /\ pc' = [h \in Generators |-> IF h \in killed THEN "dead" ELSE pc[h]]
      /\ staged' \in [Generators -> {Nothing} \cup File]
      /\ outcome' = outcome
  <2>1. Die(killed)
    BY DEF PowerFailure
  <2> HIDE DEF killed
  <2>2. killed \in SUBSET Generators
    BY DEF killed
  <2> QED
    BY <2>1, <2>2, DieKeeps
<1>2. \A g \in Generators : pc'[g] \in {"done", "dead"}
  BY <1>1
<1>3. PICK left \in {dest, durable} :
        dest' = IF parent' = "missing" \/ left = Nothing THEN Nothing ELSE left
  <2>1. PICK left \in {dest, durable}, content \in {"part", "whole"} :
          dest' = IF parent' = "missing" \/ left = Nothing THEN Nothing
                  ELSE IF left.synced THEN left ELSE [left EXCEPT !.content = content]
    BY DEF PowerFailure
  <2>2. left # Nothing => left.synced
    BY DEF IndInv, FinishedInv, Finished
  <2> QED
    BY <2>1, <2>2
<1>4. /\ parent' \in {"missing", "there", "made"}
      /\ parent # "made" => parent' = parent
      /\ durable' = dest'
      /\ promised' = IF parent = "made" THEN {}
                     ELSE {g \in promised \ {User} : outcome[g] = "confirmed"}
  BY DEF PowerFailure, IndInv, TypeOK
<1>5. TypeOK'
  BY <1>1, <1>3, <1>4 DEF IndInv, TypeOK, CallInv
<1>6. FinishedInv'
  BY <1>3, <1>4 DEF IndInv, FinishedInv, Finished
<1>7. PublishedIsKept'
  <2> SUFFICES ASSUME NEW owner \in promised' PROVE dest' # Nothing /\ dest'.owner = owner
    BY DEF PublishedIsKept
  <2>1. /\ owner \in promised /\ owner \in Generators
        /\ outcome[owner] = "confirmed" /\ parent' = parent
    BY <1>4 DEF IndInv, TypeOK
  <2>2. dest # Nothing /\ dest.owner = owner /\ durable # Nothing /\ durable.owner = owner
    BY <2>1 DEF IndInv, PublishedIsKept, ConfirmedInv
  <2>3. parent' # "missing"
    BY <2>1, <2>2 DEF IndInv, ParentInv
  <2> QED
    BY <1>3, <2>2, <2>3
<1>8. ParentInv'
  BY <1>2, <1>3, <1>4 DEF ParentInv
<1>9. ConfirmedInv'
  BY <1>2, <1>4, <1>7 DEF ConfirmedInv, PublishedIsKept
<1> QED
  BY <1>1, <1>5, <1>6, <1>7, <1>8, <1>9 DEF IndInv

-----------------------------------------------------------------------------
(* The invariant and what follows from it.                                  *)

\* Every step keeps the invariant.
LEMMA NextKeeps == IndInv /\ [Next]_vars => IndInv'
<1> SUFFICES ASSUME IndInv, [Next]_vars PROVE IndInv'
  OBVIOUS
<1>1. ASSUME NEW g \in Generators, Generate(g) PROVE IndInv'
  BY <1>1, CheckKeeps, EnsureParentKeeps, KeygenReturnedKeeps, SecureKeeps, PublishKeeps,
     SyncKeeps, WipeKeeps, RemoveKeeps
  DEF Generate
<1>2. ASSUME NEW g \in Generators,
             Capture(g) \/ WriteSecret(g) \/ Keygen(g) \/ Killed(g)
      PROVE  IndInv'
  BY <1>2, ChildKeeps, WriteSecretKeeps, KilledKeeps
<1>3. CASE UserCreates \/ UserRemoves
  BY <1>3, UserKeeps
<1>4. CASE PowerFailure
  BY <1>4, PowerFailureKeeps
<1>5. CASE UNCHANGED vars
  <2>1. (TypeOK /\ CallInv)'
    BY <1>5 DEF vars, IndInv, TypeOK, CallInv, CallTypeOK, Lives, Call
  <2>2. (StagedInv /\ residue = {} /\ FinishedInv /\ ParentInv)'
    BY <1>5 DEF vars, IndInv, StagedInv, StagedRight, FinishedInv, Finished, ParentInv
  <2>3. (PublishedIsKept /\ ConfirmedInv)'
    BY <1>5 DEF vars, IndInv, PublishedIsKept, ConfirmedInv
  <2> QED
    BY <2>1, <2>2, <2>3 DEF IndInv
<1> QED
  BY <1>1, <1>2, <1>3, <1>4, <1>5 DEF Next

\* The inductive invariant holds in every state of the specification.
THEOREM IdentityInvariant == Spec => []IndInv
<1>1. Init => IndInv
  BY InitIndInv
<1>2. IndInv /\ [Next]_vars => IndInv'
  BY NextKeeps
<1> QED
  BY <1>1, <1>2, PTL DEF Spec

\* Every state has the types of the model, and a call that has come back left no
\* child running (runtime/process.rs).
THEOREM IdentityTypes == Spec => []TypeOK
<1>1. IndInv => TypeOK
  BY DEF IndInv
<1> QED
  BY <1>1, IdentityInvariant, PTL

\* However many generations run for one destination, the file there stays until
\* the user removes it, through a power failure if it was confirmed.
THEOREM GenerationsKeepWhatIsThere == Spec => []PublishedIsKept
<1>1. IndInv => PublishedIsKept
  BY DEF IndInv
<1> QED
  BY <1>1, IdentityInvariant, PTL

\* Whatever ends a generation, what is at the destination is a whole and private
\* identity.
THEOREM PublishedIsWhole == Spec => []PublishedIsUsable
<1>1. IndInv => PublishedIsUsable
  BY DEF IndInv, FinishedInv, Finished, PublishedIsUsable
<1> QED
  BY <1>1, IdentityInvariant, PTL

\* A generation that came to an end by itself left no secret in its staging
\* directory.
THEOREM GenerationLeavesNoSecret == Spec => []NoSecretLeftBehind
<1>1. IndInv => NoSecretLeftBehind
  BY DEF IndInv, StagedInv, StagedRight, NoSecretLeftBehind
<1> QED
  BY <1>1, IdentityInvariant, PTL
=============================================================================
