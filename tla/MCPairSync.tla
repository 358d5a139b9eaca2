----------------------------- MODULE MCPairSync -----------------------------
(* Instances of PairSync for TLC: small documents and merge stages. *)
EXTENDS PairSync, TLC

CONSTANTS l1, l2

\* A document with value v for every key and layout l.
Uniform(v, l) == [p \in Parts |-> CASE p = Residual -> l
                                    [] p = Root -> Absent
                                    [] OTHER -> v]

MCBases == {Missing} \cup {Uniform(v, l1) : v \in Vals}
MCTheirs == {Uniform(v, l1) : v \in Vals \cup {Absent}}

\* Layout l2 is a template with a place for the keys: without them it cannot
\* be filled.
MCUnrenderable == {Uniform(Absent, l2)}
Symmetry == Permutations(Vals)
=============================================================================
