----------------------------- MODULE OneShotEdit -----------------------------
(***************************************************************************)
(* What SopsClient::edit promises its callers: the plaintext is handed out *)
(* at most once, the edit succeeds only with the plaintext in the file,    *)
(* and it ends, one way or the other.                                      *)
(***************************************************************************)
CONSTANT Clients    \* whoever may connect to the editor endpoint

VARIABLES
  result,    \* what edit has returned
  takers,    \* the clients that were handed the plaintext
  written    \* does the ciphertext file hold the plaintext?

vars == <<result, takers, written>>

Init == result = "running" /\ takers = {} /\ written = FALSE

HandOut ==
  /\ result = "running" /\ takers = {}
  /\ \E c \in Clients : takers' = {c}
  /\ UNCHANGED <<result, written>>

\* Only somebody who holds the plaintext can write it.
Write ==
  /\ result = "running" /\ takers # {}
  /\ written' = TRUE
  /\ UNCHANGED <<result, takers>>

Succeed == result = "running" /\ written /\ result' = "ok" /\ UNCHANGED <<takers, written>>

Fail == result = "running" /\ result' = "error" /\ UNCHANGED <<takers, written>>

Next == HandOut \/ Write \/ Succeed \/ Fail

\* It comes to an end.
Ends == WF_vars(Succeed \/ Fail)

Spec == Init /\ [][Next]_vars /\ Ends
=============================================================================
