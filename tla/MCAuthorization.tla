-------------------------- MODULE MCAuthorization --------------------------
(* Instances of Authorization for TLC.  The operator holds one identity; a
   teammate is on some envelopes; an outsider is on none until named. *)
EXTENDS Authorization, TLC

CONSTANTS operator, teammate, outsider

MCRecipients == {operator, teammate, outsider}
MCMine == {operator}

\* One recipient to add or remove, and two at once, one of them the operator.
MCRequests == {{teammate}, {operator, outsider}}
MCTeamSets == {{operator, teammate}}

\* What a manifest may be edited to: members dropped, an outsider slipped in.
MCHandEdits == {{operator}, {operator, teammate, outsider}}

MCRemovals == {{teammate}}
Symmetry == Permutations(Procs)
=============================================================================
