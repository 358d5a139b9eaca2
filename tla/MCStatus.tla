------------------------------ MODULE MCStatus ------------------------------
(* Instance of Status for TLC. *)
EXTENDS Status

CONSTANTS l1

Uniform(v, l) == [p \in Parts |-> CASE p = Residual -> l
                                    [] p = Root -> Absent
                                    [] OTHER -> v]

MCBases == {Missing}
MCTheirs == {Uniform(v, l1) : v \in {CHOOSE v \in Vals : TRUE}}
=============================================================================
