----------------------------- MODULE MCIdentity -----------------------------
(* Instances of Identity for TLC. *)
EXTENDS Identity

\* More than a pipe holds, on the second pipe.
MCOutputs == {[stdout |-> 0, stderr |-> 2]}
=============================================================================
