---------------------------- MODULE EditorProofs ----------------------------
(***************************************************************************)
(* What EditorChannel guarantees for any number of editors and of other    *)
(* processes, and the safety part of its refinement of OneShotEdit.        *)
(* IndInv is the inductive invariant: the plaintext goes out while the     *)
(* flag is down only, what a client has come to tells whether it was       *)
(* served, and the way run_edit takes to its end tells that SOPS is gone.  *)
(***************************************************************************)
EXTENDS EditorChannel, SequenceTheorems, TLAPS

\* A connection is read and answered before anybody was served.
PeerInv ==
  /\ pc \in {"token", "send"} => ~delivered /\ peer \in Clients
  /\ \A c, d \in takers : c = d

\* Only editors ask, and only who was sent the plaintext has it.
ClientInv ==
  /\ \A c \in Clients : client[c] \in {"started", "asking", "served", "finished"} => c \in Editors
  /\ \A c \in Clients : client[c] \in {"served", "finished"} => c \in takers
  /\ \A c \in takers : c \in Editors /\ client[c] \in {"served", "finished", "failed"}

\* What is in the file comes from an editor that has finished.
TargetInv ==
  /\ target => \E e \in Editors : client[e] = "finished"
  /\ sops = "succeeded" =>
       target /\ file /\ \A e \in Editors : client[e] \in {"none", "finished"}

\* run_edit comes to its last steps when SOPS is gone, and returns when nobody
\* holds the pipes.
EndInv ==
  /\ result # "running" <=> pc = "done"
  /\ pc \in {"drain", "join"} => ~SopsAlive
  /\ result # "running" => PipesClosed
  /\ result = "ok" => sops = "succeeded" /\ delivered

IndInv == TypeOK /\ PeerInv /\ ClientInv /\ TargetInv /\ EndInv

-----------------------------------------------------------------------------
(* The steps of the parent.                                                 *)

\* The first connection of the backlog is accepted.
LEMMA Accepted ==
  ASSUME backlog \in Seq(Clients), backlog # <<>>
  PROVE  Head(backlog) \in Clients /\ Tail(backlog) \in Seq(Clients)
BY HeadTailProperties

\* The invariant holds at first.
LEMMA InitIndInv == Init => IndInv
<1> SUFFICES ASSUME Init PROVE IndInv
  OBVIOUS
<1>1. <<>> \in Seq(Clients)
  OBVIOUS
<1> QED
  BY <1>1
  DEF Init, IndInv, TypeOK, PeerInv, ClientInv, TargetInv, EndInv, SopsAlive, PipesClosed

\* The parent goes on without a word to anybody.
LEMMA MoveOnKeeps ==
  ASSUME IndInv, UNCHANGED <<delivered, result, late, sops, client, target, file, takers>>,
         pc # "done", pc' \in {"poll", "token", "send", "wait", "deadline", "kill", "join"},
         pc' \in {"token", "send"} => ~delivered /\ peer' \in Clients,
         pc' = "join" => ~SopsAlive,
         backlog' \in Seq(Clients), peer' \in Clients \cup {Nobody}
  PROVE  IndInv'
<1>1. (TypeOK /\ PeerInv)'
  BY DEF IndInv, TypeOK, PeerInv
<1>2. (ClientInv /\ TargetInv)'
  BY DEF IndInv, ClientInv, TargetInv
<1>3. EndInv'
  BY DEF IndInv, EndInv, SopsAlive, PipesClosed, Alive
<1> QED
  BY <1>1, <1>2, <1>3 DEF IndInv

\* A piece of the token line is read, and the wait for the rest begins anew.
LEMMA PieceKeeps ==
  ASSUME IndInv, peer \in Clients, client[peer] = "dripping", Become(peer, "connected"),
         UNCHANGED <<pc, delivered, peer, result, late, world, backlog, takers>>
  PROVE  IndInv'
<1>1. UNCHANGED <<sops, target, file>>
  BY DEF world
<1>2. client'[peer] = "connected" /\ \A c \in Clients \ {peer} : client'[c] = client[c]
  BY DEF Become, IndInv, TypeOK
<1>3. (TypeOK /\ PeerInv)'
  BY <1>1 DEF Become, IndInv, TypeOK, PeerInv
<1>4. ClientInv'
  BY <1>1, <1>2 DEF IndInv, TypeOK, ClientInv
<1>5. TargetInv'
  BY <1>1, <1>2 DEF IndInv, TargetInv, Clients
<1>6. EndInv'
  <2>1. PipesClosed => PipesClosed'
    BY <1>1, <1>2 DEF PipesClosed, SopsAlive, Alive, Clients
  <2> QED
    BY <1>1, <2>1 DEF IndInv, EndInv, SopsAlive
<1> QED
  BY <1>3, <1>4, <1>5, <1>6 DEF IndInv

\* A connection is accepted, read or refused, and the child and the clock are
\* looked at.
LEMMA RoundKeeps ==
  ASSUME IndInv,
         Receive \/ RejectReuse \/ ReadToken \/ SendFails \/ TryWait \/ CheckDeadline
  PROVE  IndInv'
<1> USE DEF Quiet, world
<1>1. backlog \in Seq(Clients) /\ peer \in Clients \cup {Nobody}
  BY DEF IndInv, TypeOK
<1>2. CASE Receive
  BY <1>1, <1>2, Accepted, MoveOnKeeps DEF Receive, Goto
<1>3. CASE RejectReuse
  BY <1>1, <1>3, Accepted, MoveOnKeeps DEF RejectReuse, Goto
<1>4. CASE ReadToken
  <2>1. peer \in Clients /\ ~delivered /\ pc = "token"
    BY <1>4 DEF ReadToken, IndInv, PeerInv
  <2>2. CASE client[peer] = "dripping"
    BY <1>4, <2>1, <2>2, PieceKeeps DEF ReadToken, Goto
  <2>3. CASE client[peer] # "dripping"
    BY <1>1, <1>4, <2>1, <2>3, MoveOnKeeps DEF ReadToken, Goto
  <2> QED
    BY <2>2, <2>3
<1>5. CASE SendFails
  BY <1>1, <1>5, MoveOnKeeps DEF SendFails, Goto
<1>6. CASE TryWait
  BY <1>1, <1>6, MoveOnKeeps DEF TryWait, Goto
<1>7. CASE CheckDeadline
  BY <1>1, <1>7, MoveOnKeeps DEF CheckDeadline, Goto
<1> QED
  BY <1>2, <1>3, <1>4, <1>5, <1>6, <1>7

\* The plaintext is sent once: the flag was down, so there is no other taker.
LEMMA SendKeeps ==
  ASSUME IndInv, SendPayload
  PROVE  IndInv'
<1>1. /\ peer \in Clients /\ takers = {} /\ pc = "send"
      /\ client[peer] = "asking" /\ peer \in Editors
      /\ takers' = {peer} /\ delivered' = TRUE /\ pc' = "wait"
      /\ client' = [client EXCEPT ![peer] = "served"]
      /\ UNCHANGED <<peer, late, backlog, sops, target, file, result>>
  BY DEF SendPayload, Become, world, IndInv, TypeOK, PeerInv, ClientInv
<1>2. /\ client' \in [Clients -> {"none", "started", "connected", "dripping", "asking",
                                  "babbling", "served", "finished", "failed"}]
      /\ client'[peer] = "served"
      /\ \A c \in Clients \ {peer} : client'[c] = client[c]
  BY <1>1 DEF IndInv, TypeOK
<1>3. (TypeOK /\ PeerInv)'
  BY <1>1, <1>2 DEF IndInv, TypeOK, PeerInv
<1>4. ClientInv'
  BY <1>1, <1>2 DEF IndInv, ClientInv
<1>5. TargetInv'
  <2>1. sops # "succeeded"
    BY <1>1 DEF IndInv, TargetInv
  <2>2. ~target
    BY <1>1 DEF IndInv, TargetInv, ClientInv, Clients
  <2> QED
    BY <1>1, <2>1, <2>2 DEF TargetInv
<1>6. EndInv'
  BY <1>1 DEF IndInv, EndInv, SopsAlive
<1> QED
  BY <1>3, <1>4, <1>5, <1>6 DEF IndInv

\* SOPS is killed; then nobody but a child of its own may hold the pipes.
LEMMA EndKeeps ==
  ASSUME IndInv, Kill \/ Drain \/ Join \/ Expire
  PROVE  IndInv'
<1>1. UNCHANGED <<delivered, peer, client, backlog, target, file, takers>>
  BY DEF Kill, Drain, Join, Expire, Return, Goto, parent, world
<1>2. /\ sops' \in {sops, "killed"} /\ (SopsAlive' => SopsAlive)
      /\ pc' \in {pc, "drain", "done"} /\ result' \in {"running", "ok", "error"}
      /\ late' \in BOOLEAN
      /\ sops' = "succeeded" => sops = "succeeded"
  BY DEF Kill, Drain, Join, Expire, Return, Goto, parent, world, IndInv, TypeOK, SopsAlive
<1>3. (TypeOK /\ PeerInv)'
  BY <1>1, <1>2 DEF IndInv, TypeOK, PeerInv
<1>4. (ClientInv /\ TargetInv)'
  BY <1>1, <1>2 DEF IndInv, ClientInv, TargetInv
<1>5. EndInv'
  BY <1>1, <1>2
  DEF Kill, Drain, Join, Expire, Return, Goto, parent, world, IndInv, EndInv,
      SopsAlive, PipesClosed, Alive
<1> QED
  BY <1>3, <1>4, <1>5 DEF IndInv

-----------------------------------------------------------------------------
(* The steps of SOPS and of the clients.                                    *)

\* While SOPS runs, run_edit has not returned; once it does not, no editor is
\* opened.
LEMMA SopsKeeps ==
  ASSUME IndInv, SopsMoves
  PROVE  IndInv'
<1>1. /\ SopsAlive /\ UNCHANGED <<pc, delivered, peer, result, late, backlog, takers>>
      /\ target' = target /\ file' \in BOOLEAN
      /\ sops' \in {"running", "editing", "failed", "succeeded"}
      /\ client' \in [Clients -> {"none", "started", "connected", "dripping", "asking",
                                  "babbling", "served", "finished", "failed"}]
  <2>1. Editors \subseteq Clients
    BY DEF Clients
  <2> QED
    BY <2>1
    DEF SopsMoves, OpenEditor, Encrypt, Reopen, SopsFails, EditorReturned, SopsStep, parent,
        Become, SopsAlive, IndInv, TypeOK
<1>2. result = "running" /\ pc \notin {"drain", "join", "done"}
  BY <1>1 DEF IndInv, EndInv, TypeOK, PipesClosed
<1>3. (TypeOK /\ PeerInv)'
  BY <1>1 DEF IndInv, TypeOK, PeerInv
<1>4. EndInv'
  BY <1>1, <1>2 DEF EndInv
<1>5. CASE OpenEditor
  <2>1. PICK e \in Editors : client[e] = "none" /\ client' = [client EXCEPT ![e] = "started"]
    BY <1>5 DEF OpenEditor, Become
  <2>2. client'[e] = "started" /\ \A c \in Clients \ {e} : client'[c] = client[c]
    BY <2>1 DEF IndInv, TypeOK, Clients
  <2>3. ClientInv'
    BY <1>1, <2>1, <2>2 DEF IndInv, TypeOK, ClientInv
  <2>4. TargetInv'
    <3>1. sops' = "editing"
      BY <1>5 DEF OpenEditor
    <3>2. target => \E d \in Editors : client'[d] = "finished"
      BY <2>1, <2>2 DEF IndInv, TargetInv, Clients
    <3> QED
      BY <1>1, <3>1, <3>2 DEF TargetInv
  <2> QED
    BY <1>3, <1>4, <2>3, <2>4 DEF IndInv
<1>6. CASE Encrypt \/ Reopen \/ SopsFails
  <2>1. UNCHANGED client
    BY <1>6 DEF Encrypt, Reopen, SopsFails
  <2>2. ClientInv'
    BY <1>1, <2>1 DEF IndInv, ClientInv
  <2>3. sops' = "succeeded" => Encrypt
    BY <1>6 DEF Encrypt, Reopen, SopsFails
  <2>4. TargetInv'
    BY <1>1, <2>1, <2>3 DEF IndInv, TargetInv, Encrypt, EditorReturned
  <2> QED
    BY <1>3, <1>4, <2>2, <2>4 DEF IndInv
<1> QED
  BY <1>5, <1>6 DEF SopsMoves

\* An editor that has ended stays so, and only one that was served finishes.
LEMMA ClientKeeps ==
  ASSUME IndInv, NEW c \in Clients, Moves(c)
  PROVE  IndInv'
<1>1. UNCHANGED <<pc, delivered, peer, result, late, sops, file, takers>>
  BY DEF Moves, Connect, Drip, SendToken, ReplaceTarget, Leave, ClientStep, parent
<1>2. PICK next \in {"connected", "dripping", "asking", "babbling", "finished", "failed"} :
        client' = [client EXCEPT ![c] = next]
  BY DEF Moves, Connect, Drip, SendToken, ReplaceTarget, Leave, Become
<1>3. client'[c] = next /\ \A d \in Clients \ {c} : client'[d] = client[d]
  BY <1>2 DEF IndInv, TypeOK
<1>4. /\ client[c] # "finished"
      /\ next = "connected" /\ c \in Editors => client[c] = "started"
      /\ next = "asking" => c \in Editors
      /\ next = "finished" => client[c] = "served"
      /\ next = "failed" => Alive(c)
      /\ next \in {"connected", "dripping", "asking", "babbling"} =>
           client[c] \notin {"served", "failed"}
      /\ next \in {"dripping", "asking", "babbling"} =>
           client[c] \in {"connected", "dripping"}
      /\ backlog' \in Seq(Clients) /\ target' \in {target, next = "finished"}
      /\ target' => target \/ next = "finished"
      /\ target' \in BOOLEAN /\ (target => target')
  <2>1. backlog \in Seq(Clients) /\ Append(backlog, c) \in Seq(Clients)
    BY AppendProperties DEF IndInv, TypeOK
  <2>2. CASE Connect(c)
    BY <1>2, <1>3, <2>1, <2>2 DEF Connect, Become, ClientStep, IndInv, TypeOK
  <2>6. CASE Drip(c)
    BY <1>2, <1>3, <2>1, <2>6 DEF Drip, Become, ClientStep, IndInv, TypeOK
  <2>3. CASE SendToken(c)
    BY <1>2, <1>3, <2>1, <2>3 DEF SendToken, Become, ClientStep, IndInv, TypeOK
  <2>4. CASE ReplaceTarget(c)
    BY <1>2, <1>3, <2>1, <2>4 DEF ReplaceTarget, Become, ClientStep, IndInv, TypeOK
  <2>5. CASE Leave(c)
    BY <1>2, <1>3, <2>1, <2>5 DEF Leave, Become, ClientStep, IndInv, TypeOK, Alive
  <2> QED
    BY <2>2, <2>3, <2>4, <2>5, <2>6 DEF Moves
<1>5. (TypeOK /\ PeerInv)'
  BY <1>1, <1>2, <1>4 DEF IndInv, TypeOK, PeerInv
<1>6. ClientInv'
  BY <1>1, <1>3, <1>4 DEF IndInv, TypeOK, ClientInv, Alive
<1>7. TargetInv'
  <2>1. target' => \E e \in Editors : client'[e] = "finished"
    BY <1>3, <1>4 DEF IndInv, TargetInv, ClientInv, Clients
  <2>2. sops = "succeeded" => \A e \in Editors : client'[e] \in {"none", "finished"}
    BY <1>3, <1>4 DEF IndInv, TargetInv, Clients, Alive
  <2> QED
    BY <1>1, <1>4, <2>1, <2>2 DEF IndInv, TargetInv
<1>8. EndInv'
  <2>1. PipesClosed => PipesClosed'
    BY <1>1, <1>3, <1>4 DEF PipesClosed, SopsAlive, Alive, Clients
  <2> QED
    BY <1>1, <2>1 DEF IndInv, EndInv, SopsAlive
<1> QED
  BY <1>5, <1>6, <1>7, <1>8 DEF IndInv

-----------------------------------------------------------------------------
(* The invariant and what follows from it.                                  *)

\* Every step keeps the invariant.
LEMMA NextKeeps == IndInv /\ [Next]_vars => IndInv'
<1> SUFFICES ASSUME IndInv, [Next]_vars PROVE IndInv'
  OBVIOUS
<1>1. CASE ParentStep \/ Expire
  BY <1>1, RoundKeeps, SendKeeps, EndKeeps DEF ParentStep
<1>2. CASE SopsMoves
  BY <1>2, SopsKeeps
<1>3. CASE \E c \in Clients : Moves(c)
  BY <1>3, ClientKeeps
<1>4. CASE UNCHANGED vars
  BY <1>4
  DEF vars, IndInv, TypeOK, PeerInv, ClientInv, TargetInv, EndInv, SopsAlive, PipesClosed, Alive
<1> QED
  BY <1>1, <1>2, <1>3, <1>4 DEF Next

\* The inductive invariant holds in every state of the specification.
THEOREM EditorInvariant == Spec => []IndInv
<1>1. Init => IndInv
  BY InitIndInv
<1>2. IndInv /\ [Next]_vars => IndInv'
  BY NextKeeps
<1> QED
  BY <1>1, <1>2, PTL DEF Spec

\* Every state has the types of the model, and the flag of run_edit says
\* that somebody was sent the payload (sops/client.rs:215-299).
THEOREM EditorTypes == Spec => []TypeOK
<1>1. IndInv => TypeOK
  BY DEF IndInv
<1> QED
  BY <1>1, EditorInvariant, PTL

\* However many editors SOPS opens and whoever else connects, success means one
\* editor, which was served and has finished.
THEOREM SuccessNeedsOneEditor == Spec => []SuccessIsOneEditor
<1>1. IndInv => SuccessIsOneEditor
  <2> SUFFICES ASSUME IndInv, result = "ok" PROVE SuccessIsOneEditor
    BY DEF SuccessIsOneEditor
  <2>1. \A e \in Editors : client[e] \in {"none", "finished"}
    BY DEF IndInv, EndInv, TargetInv
  <2>2. \A c \in Clients : c \in takers <=> c \in Editors /\ client[c] # "none"
    BY <2>1 DEF IndInv, ClientInv
  <2>3. takers = {c \in Clients : c \in Editors /\ client[c] # "none"}
    BY <2>2 DEF IndInv, TypeOK
  <2>4. \A c \in takers : client[c] = "finished"
    BY <2>1 DEF IndInv, ClientInv
  <2> QED
    BY <2>3, <2>4 DEF SuccessIsOneEditor
<1> QED
  BY <1>1, EditorInvariant, PTL

\* edit returns to nobody who could still use its runtime files: SOPS is gone
\* and so is every editor it has opened.
THEOREM ReturnsAlone == Spec => []NothingLeftRunning
<1>1. IndInv => NothingLeftRunning
  BY DEF IndInv, EndInv, PipesClosed, NothingLeftRunning
<1> QED
  BY <1>1, EditorInvariant, PTL

-----------------------------------------------------------------------------
(* The refinement of OneShotEdit.                                           *)

\* A step hands the plaintext out, has it written, ends the edit or is none of
\* a caller's business.
LEMMA StepRefines == IndInv /\ [Next]_vars => [Promise!Next]_(Promise!vars)
<1> SUFFICES ASSUME IndInv, [Next]_vars PROVE [Promise!Next]_(Promise!vars)
  OBVIOUS
<1>1. CASE Receive \/ RejectReuse \/ ReadToken \/ SendFails \/ TryWait \/ CheckDeadline
           \/ Kill \/ Expire
  BY <1>1
  DEF Receive, RejectReuse, ReadToken, SendFails, TryWait, CheckDeadline, Kill, Expire, Goto,
      Quiet, parent, world, Promise!vars
<1>2. CASE SendPayload
  BY <1>2
  DEF SendPayload, world, IndInv, TypeOK, PeerInv, EndInv, Promise!Next, Promise!HandOut
<1>3. CASE Drain \/ Join
  <2>1. result = "running"
    BY <1>3 DEF Drain, Join, IndInv, EndInv
  <2>2. UNCHANGED <<takers, file>>
    BY <1>3 DEF Drain, Join, Return, world
  <2>3. result' = "error" \/ (result' = "ok" /\ file)
    BY <1>3 DEF Drain, Join, Return, IndInv, TargetInv
  <2> QED
    BY <2>1, <2>2, <2>3, Zenon DEF Promise!Next, Promise!Succeed, Promise!Fail
<1>4. CASE Encrypt
  <2>1. result = "running"
    BY <1>4 DEF Encrypt, EditorReturned, IndInv, EndInv, PipesClosed, SopsAlive
  <2>2. takers # {}
    BY <1>4 DEF Encrypt, IndInv, TargetInv, ClientInv, Clients
  <2> QED
    BY <1>4, <2>1, <2>2 DEF Encrypt, SopsStep, parent, Promise!Next, Promise!Write
<1>5. CASE OpenEditor \/ Reopen \/ SopsFails
  BY <1>5 DEF OpenEditor, Reopen, SopsFails, SopsStep, parent, Promise!vars
<1>6. CASE \E c \in Clients : Moves(c)
  BY <1>6
  DEF Moves, Connect, Drip, SendToken, ReplaceTarget, Leave, ClientStep, parent, Promise!vars
<1>7. CASE UNCHANGED vars
  BY <1>7 DEF vars, Promise!vars
<1> QED
  BY <1>1, <1>2, <1>3, <1>4, <1>5, <1>6, <1>7 DEF Next, ParentStep, SopsMoves

\* edit keeps the safe part of its promise, the plaintext handed out once
\* and success only with the plaintext written: it implements OneShotEdit but for
\* its fairness.
THEOREM EditRefinesOneShotEdit == Spec => Promise!Init /\ [][Promise!Next]_(Promise!vars)
<1>1. Init => Promise!Init
  BY DEF Init, Promise!Init
<1>2. IndInv /\ [Next]_vars => [Promise!Next]_(Promise!vars)
  BY StepRefines
<1> QED
  BY <1>1, <1>2, EditorInvariant, PTL DEF Spec
=============================================================================
