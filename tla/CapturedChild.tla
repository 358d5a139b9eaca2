--------------------------- MODULE CapturedChild ---------------------------
(***************************************************************************)
(* run_capture (runtime/process.rs): Gitveil runs age-keygen, or SOPS      *)
(* other than for an edit, with a timeout.  Two threads read the child's   *)
(* output while the caller waits for it to end.                            *)
(*                                                                         *)
(* A pipe holds Room chunks; a child that finds it full waits.  A child    *)
(* may hang at any moment, and one that takes longer than the timeout is   *)
(* one that hangs: the others are taken to end in time.  No caller passes  *)
(* an input, so nothing is written to the child.                           *)
(***************************************************************************)
EXTENDS Naturals

CONSTANTS
  Callers,   \* processes of Gitveil, each with one child at a time
  Room,      \* bound: chunks a pipe holds
  Outputs    \* what a child may have to write to each stream

Streams == {"stdout", "stderr"}
Silent == [s \in Streams |-> 0]

ASSUME CapturedChildAssumption ==
  /\ Room \in Nat \ {0}
  /\ Outputs \subseteq [Streams -> Nat]

VARIABLE call   \* call[c]: the call that c is in, its child and the two pipes

NoCall == [at |-> "none", child |-> "none", late |-> FALSE,
           unwritten |-> Silent, pipe |-> Silent]

Call == [at : {"none", "wait", "kill", "join", "back"},
         child : {"none", "running", "hung", "succeeded", "failed", "killed"},
         late : BOOLEAN,
         unwritten : [Streams -> Nat], pipe : [Streams -> 0..Room]]

Lives(c) == call[c].child \in {"running", "hung"}

\* A call that has come back has left no child running.
CallTypeOK ==
  /\ call \in [Callers -> Call]
  /\ \A c \in Callers : Lives(c) => call[c].at \in {"wait", "kill"}

-----------------------------------------------------------------------------
(* The child.                                                               *)

Write(c, s) ==
  /\ call[c].child = "running" /\ call[c].unwritten[s] > 0 /\ call[c].pipe[s] < Room
  /\ call' = [call EXCEPT ![c].unwritten[s] = @ - 1, ![c].pipe[s] = @ + 1]

\* Also too late, while it is about to be killed.
Succeed(c) ==
  /\ \/ call[c].child = "running"
     \/ call[c].child = "hung" /\ call[c].at = "kill"
  /\ call[c].unwritten = Silent
  /\ call' = [call EXCEPT ![c].child = "succeeded"]

\* It cannot do anything before somebody reads.
Blocked(c) == \E s \in Streams : call[c].unwritten[s] > 0 /\ call[c].pipe[s] = Room

Fail(c) ==
  /\ call[c].child = "running" /\ ~Blocked(c)
  /\ call' = [call EXCEPT ![c].child = "failed", ![c].unwritten = Silent]

Hang(c) ==
  /\ call[c].child = "running" /\ ~Blocked(c)
  /\ call' = [call EXCEPT ![c].child = "hung", ![c].unwritten = Silent]

-----------------------------------------------------------------------------
(* The caller and its two readers.                                          *)

\* The call begins, and it may end at once: no child.
Spawn(c) ==
  \E output \in Outputs, child \in {"running", "failed"} :
    call' = [call EXCEPT ![c] =
               [at |-> IF child = "running" THEN "wait" ELSE "back", child |-> child,
                late |-> FALSE, pipe |-> Silent,
                unwritten |-> IF child = "running" THEN output ELSE Silent]]

\* Mutant: one stream is read to its end, then the other.
ReadsInOrder(c, s) ==
  /\ call[c].at # "none" /\ call[c].pipe[s] > 0
  /\ s = "stderr" => ~Lives(c) /\ call[c].pipe["stdout"] = 0

Reads(c, s) == call[c].at # "none" /\ call[c].pipe[s] > 0

Read(c, s) ==
  /\ Reads(c, s)
  /\ call' = [call EXCEPT ![c].pipe[s] = @ - 1]

\* wait_for_child: the child has ended, or it is given up.
Wait(c) ==
  /\ call[c].at = "wait"
  /\ \/ ~Lives(c) /\ call' = [call EXCEPT ![c].at = "join"]
     \/ call[c].child = "hung" /\ call' = [call EXCEPT ![c].at = "kill", ![c].late = TRUE]

\* Mutant: a child that is late is left to itself.
Abandon(c) ==
  /\ call[c].at = "kill"
  /\ call' = [call EXCEPT ![c].at = "back"]

\* Kill and reap.
Kill(c) ==
  /\ call[c].at = "kill"
  /\ call' = [call EXCEPT ![c].at = "join",
                               ![c].child = IF Lives(c) THEN "killed" ELSE @]

\* A reader ends when its pipe is empty and the child has closed it.
Join(c) ==
  /\ call[c].at = "join" /\ call[c].pipe = Silent
  /\ call' = [call EXCEPT ![c].at = "back"]

Returned(c) == call[c].at = "back"

\* The call is over; a child that was left running would run on.
Release(c) ==
  call' = [call EXCEPT ![c] = IF Lives(c) THEN [@ EXCEPT !.at = "none"] ELSE NoCall]

\* A child that was late is an error, even if it ended before it was killed.
Captured(c) == call[c].child = "succeeded" /\ ~call[c].late

CallStep(c) == Wait(c) \/ Kill(c) \/ Join(c) \/ \E s \in Streams : Read(c, s)
=============================================================================
