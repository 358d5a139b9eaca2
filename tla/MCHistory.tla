----------------------------- MODULE MCHistory -----------------------------
(* Instances of History for TLC: two branches, either may be the main one. *)
EXTENDS History, TLC

\* Envelopes of the right and of a wrong format where envelopes belong; where
\* plaintext belongs, something that only looks like an envelope.
MCChanges ==
  {<<"plain", blob>> : blob \in {"absent", "leaky"}} \cup
  {<<"cipher", blob>> : blob \in {"dotenv", "json"}}

\* A secret is committed and removed again.
MCLeaks == {<<"plain", "text">>, <<"plain", "absent">>}
Symmetry == Permutations(Refs)
=============================================================================
