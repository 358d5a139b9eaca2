---------------------------- MODULE EditorChannel ----------------------------
(***************************************************************************)
(* SopsClient::edit: SOPS runs `gitveil sops-editor` as its editor, which  *)
(* connects back to the process that started SOPS and fetches the          *)
(* plaintext over a socket.  The parent polls the socket, the child and a  *)
(* deadline in turn.  SOPS may fail, hang, or open the editor again; an    *)
(* editor it has started outlives it, and inherits its output pipes, which *)
(* the parent reads to their end before it returns.  Other processes may   *)
(* reach the socket too.                                                   *)
(*                                                                         *)
(* Real time is left out: a timeout may strike at any moment and strikes   *)
(* at last.  Of a socket only the order of connections, the token line and *)
(* the reply are kept; of a line that is sent byte by byte, whether there  *)
(* is a byte that was not read yet.                                        *)
(***************************************************************************)
EXTENDS Sequences, FiniteSets

CONSTANTS
  Editors,   \* bound: the editors SOPS may start
  Strays,    \* other processes that may connect
  Nobody     \* no client

ASSUME ClientsAssumption ==
  /\ Editors \cap Strays = {}
  /\ Nobody \notin Editors \cup Strays

Clients == Editors \cup Strays

VARIABLES
  pc,         \* where run_edit is
  delivered,  \* its flag that the payload was sent
  peer,       \* the connection it serves
  late,       \* is the deadline over?
  sops,       \* the SOPS process
  client,     \* client[c]: an editor or another process
  backlog,    \* connections not yet accepted
  target,     \* the file SOPS lets the editor edit: changed or not
  file,       \* the ciphertext file: does it hold the plaintext?
  takers,     \* history: who was sent the payload
  result      \* what run_edit has returned

parent == <<pc, delivered, peer, result>>
world == <<sops, target, file>>
vars == <<pc, delivered, peer, late, sops, client, backlog, target, file, takers, result>>

\* Types; the flag says that somebody was sent the payload.
TypeOK ==
  /\ pc \in {"poll", "token", "send", "wait", "deadline", "kill", "drain",
             "join", "done"}
  /\ delivered = (takers # {})
  /\ peer \in Clients \cup {Nobody}
  /\ late \in BOOLEAN
  /\ sops \in {"running", "editing", "failed", "succeeded", "killed"}
  /\ client \in [Clients -> {"none", "started", "connected", "dripping", "asking",
                             "babbling", "served", "finished", "failed"}]
  /\ backlog \in Seq(Clients)
  /\ target \in BOOLEAN
  /\ file \in BOOLEAN
  /\ takers \subseteq Clients
  /\ result \in {"running", "ok", "error"}

Alive(c) == client[c] \notin {"none", "finished", "failed"}

Become(c, state) == client' = [client EXCEPT ![c] = state]

SopsAlive == sops \in {"running", "editing"}

Init ==
  /\ pc = "poll" /\ delivered = FALSE /\ peer = Nobody /\ late = FALSE
  /\ sops = "running"
  /\ client = [c \in Clients |-> "none"]
  /\ backlog = <<>>
  /\ target = FALSE /\ file = FALSE
  /\ takers = {}
  /\ result = "running"

-----------------------------------------------------------------------------
(* The parent: one round is receive or reject, wait, deadline.              *)

Goto(next) == pc' = next /\ UNCHANGED <<delivered, peer, result>>

Quiet == UNCHANGED <<late, world, client, takers>>

\* receive_editor_payload accepts a connection if there is one.
Receive ==
  /\ pc = "poll" /\ ~delivered
  /\ IF backlog = <<>> THEN Goto("wait") /\ UNCHANGED backlog
     ELSE /\ peer' = Head(backlog) /\ backlog' = Tail(backlog)
          /\ pc' = "token" /\ UNCHANGED <<delivered, result>>
  /\ Quiet

\* reject_editor_reuse: any further connection is fatal.
RejectReuse ==
  /\ pc = "poll" /\ delivered
  /\ IF backlog = <<>> THEN Goto("wait") /\ UNCHANGED backlog
     ELSE Goto("kill") /\ backlog' = Tail(backlog)
  /\ Quiet

\* The token line is there, and right; or there are bytes of a line that has
\* no end yet, and the wait of a second begins anew; or the first bad line is
\* fatal: a wrong one, nothing more in time, or a closed connection.
ReadToken ==
  /\ pc = "token"
  /\ \/ client[peer] = "asking" /\ Goto("send") /\ UNCHANGED client
     \/ client[peer] = "dripping" /\ Goto("token") /\ Become(peer, "connected")
     \/ /\ client[peer] \notin {"asking", "dripping"}
        /\ Goto("kill") /\ UNCHANGED client
  /\ UNCHANGED <<late, world, backlog, takers>>

\* Mutant: forgets to take note of the delivery.
SendForgetting ==
  /\ pc = "send" /\ client[peer] = "asking"
  /\ Become(peer, "served")
  /\ takers' = takers \cup {peer}
  /\ pc' = "wait"
  /\ UNCHANGED <<delivered, peer, late, backlog, world, result>>

SendPayload ==
  /\ pc = "send" /\ client[peer] = "asking"
  /\ Become(peer, "served")
  /\ takers' = takers \cup {peer}
  /\ delivered' = TRUE /\ pc' = "wait"
  /\ UNCHANGED <<peer, late, backlog, world, result>>

\* The client has gone, or does not read in time.
SendFails ==
  /\ pc = "send"
  /\ Goto("kill")
  /\ UNCHANGED backlog /\ Quiet

TryWait ==
  /\ pc = "wait"
  /\ Goto(IF SopsAlive THEN "deadline" ELSE "join")
  /\ UNCHANGED backlog /\ Quiet

CheckDeadline ==
  /\ pc = "deadline"
  /\ Goto(IF late THEN "kill" ELSE "poll")
  /\ UNCHANGED backlog /\ Quiet

\* Only SOPS itself is killed and reaped, not an editor it has started.
Kill ==
  /\ pc = "kill"
  /\ sops' = IF SopsAlive THEN "killed" ELSE sops
  /\ Goto("drain")
  /\ UNCHANGED <<late, client, backlog, target, file, takers>>

Return(answer) ==
  /\ result' = answer
  /\ pc' = "done"
  /\ UNCHANGED <<delivered, peer, late, world, client, backlog, takers>>

\* Mutant: after a kill nobody waits for the readers.
DrainNothing == pc = "drain" /\ Return("error")

\* The readers reach the end of the pipes when nobody holds them any more.
PipesClosed == ~SopsAlive /\ \A e \in Editors : ~Alive(e)

Drain == pc = "drain" /\ PipesClosed /\ Return("error")

\* Mutant: a payload that was delivered is taken for one that was written.
JoinDelivered ==
  /\ pc = "join" /\ PipesClosed
  /\ Return(IF delivered THEN "ok" ELSE "error")

Join ==
  /\ pc = "join" /\ PipesClosed
  /\ Return(IF sops = "succeeded" /\ delivered THEN "ok" ELSE "error")

\* Two minutes are over.
Expire ==
  /\ ~late
  /\ late' = TRUE
  /\ UNCHANGED <<parent, world, client, backlog, takers>>

-----------------------------------------------------------------------------
(* SOPS.                                                                    *)

SopsStep == UNCHANGED <<parent, late, backlog, takers>>

OpenEditor ==
  /\ sops = "running"
  /\ \E e \in Editors : client[e] = "none" /\ Become(e, "started")
  /\ sops' = "editing"
  /\ SopsStep /\ UNCHANGED <<target, file>>

EditorReturned == sops = "editing" /\ \A e \in Editors : client[e] \in {"none", "finished"}

\* The edited file is encrypted into the ciphertext file ...
Encrypt ==
  /\ EditorReturned /\ target
  /\ sops' = "succeeded" /\ file' = TRUE
  /\ SopsStep /\ UNCHANGED <<client, target>>

\* ... or it cannot be read, and the editor is to be opened again.
Reopen ==
  /\ EditorReturned
  /\ sops' = "running"
  /\ SopsStep /\ UNCHANGED <<client, target, file>>

\* No identity, a failed editor, an unchanged file, a signal.
SopsFails ==
  /\ SopsAlive
  /\ sops' = "failed"
  /\ SopsStep /\ UNCHANGED <<client, target, file>>

-----------------------------------------------------------------------------
(* run_internal_editor, and whoever else connects.                          *)

ClientStep == UNCHANGED <<parent, late, sops, file, takers>>

\* The endpoint is there until edit returns.
Connect(c) ==
  /\ client[c] = (IF c \in Editors THEN "started" ELSE "none")
  /\ result = "running"
  /\ Become(c, "connected")
  /\ backlog' = Append(backlog, c)
  /\ ClientStep /\ UNCHANGED target

\* Somebody who does not know the token sends a byte that ends no line.
Drip(s) ==
  /\ client[s] = "connected" /\ s \in Strays
  /\ Become(s, "dripping")
  /\ ClientStep /\ UNCHANGED <<backlog, target>>

SendToken(c) ==
  /\ client[c] \in {"connected", "dripping"}
  /\ Become(c, IF c \in Editors THEN "asking" ELSE "babbling")
  /\ ClientStep /\ UNCHANGED <<backlog, target>>

\* The payload replaces the file that SOPS wants edited.
ReplaceTarget(e) ==
  /\ client[e] = "served"
  /\ target' = TRUE
  /\ Become(e, "finished")
  /\ ClientStep /\ UNCHANGED backlog

\* Mutant: an editor waits for its answer as long as the connection stands.
LeaveUnlessWaiting(c) ==
  /\ Alive(c)
  /\ client[c] = "asking" => \A i \in DOMAIN backlog : backlog[i] # c
  /\ Become(c, "failed")
  /\ ClientStep /\ UNCHANGED <<backlog, target>>

\* An editor fails: a bad target, no connection, no answer within ten seconds
\* or a cut one.  Another process hangs up.
Leave(c) ==
  /\ Alive(c)
  /\ Become(c, "failed")
  /\ ClientStep /\ UNCHANGED <<backlog, target>>

-----------------------------------------------------------------------------
ParentStep ==
  \/ Receive \/ RejectReuse \/ ReadToken \/ SendPayload \/ SendFails
  \/ TryWait \/ CheckDeadline \/ Kill \/ Drain \/ Join

SopsMoves == OpenEditor \/ Encrypt \/ Reopen \/ SopsFails

Moves(c) == Connect(c) \/ Drip(c) \/ SendToken(c) \/ ReplaceTarget(c) \/ Leave(c)

Next ==
  \/ ParentStep \/ Expire \/ SopsMoves
  \/ \E c \in Clients : Moves(c)

\* The parent and the editors run on and time passes; SOPS and the others
\* may hang.
Fairness ==
  /\ WF_vars(ParentStep) /\ WF_vars(Expire)
  /\ \A e \in Editors : WF_vars(Moves(e))

Spec == Init /\ [][Next]_vars /\ Fairness

-----------------------------------------------------------------------------
(* Properties.                                                              *)

Promise == INSTANCE OneShotEdit WITH written <- file

\* Some other process sends one byte after the other and no end of line.
DripsForever == \E s \in Strays : []<><<Drip(s)>>_vars

\* edit keeps its promises (sops/client.rs run_edit): one taker at most, success
\* only with the plaintext written, and an end, even if SOPS hangs, an editor is
\* left over, or another process connects and sends nothing or a wrong line.
\* The end is not promised to those who wait for a line that never ends:
\* ipc.rs:77-85 bounds each receive of the line and not the line, so that a
\* byte a second keeps run_edit from its deadline.
KeepsPromise ==
  /\ Promise!Init /\ [][Promise!Next]_(Promise!vars)
  /\ DripsForever \/ Promise!Ends

\* The whole promise, without the exception: the edit ends whoever connects,
\* as the deadline of sops/client.rs:308 is to see to ("SOPS edit process timed
\* out").  It is no property of the code.
KeepsPromiseWhoeverDrips == Promise!Spec

\* It succeeds only if SOPS opened a single editor, and it was that editor
\* that was served and finished (sops/client.rs:263-277).
SuccessIsOneEditor ==
  result = "ok" =>
    /\ takers = {c \in Clients : c \in Editors /\ client[c] # "none"}
    /\ \A c \in takers : client[c] = "finished"

\* When it returns, neither SOPS nor an editor of its is running any more,
\* killed or not, and so none uses the runtime files that edit then removes.
NothingLeftRunning ==
  result # "running" => ~SopsAlive /\ \A e \in Editors : ~Alive(e)
=============================================================================
