------------------------------ MODULE OpenPlan ------------------------------
(***************************************************************************)
(* The planning core of `gitveil open`: key-wise arbitration of the        *)
(* decrypted ciphertext (remote) into the plaintext file (local), with the *)
(* baseline record as referee, and the three-way merge of `resolve`.       *)
(*                                                                         *)
(* A document is a function on its parts: one part per top-level key, the  *)
(* part Root that stands for a whole non-mapping document, and the part    *)
(* Residual, the layout no key owns.  A key's value includes the layout    *)
(* entry that travels with it (the dotenv entry), and the order of the     *)
(* keys is left out: Node equality does not look at it.  A baseline record *)
(* stores one salted digest per part; digests are taken collision-free, so *)
(* a record is represented by the document it was captured from.           *)
(***************************************************************************)
EXTENDS FiniteSets

CONSTANTS
  Keys,          \* top-level keys of a mapping document
  Root,          \* the sync unit "$" of a document that is not a mapping
  Residual,      \* the residual layout, arbitrated as one extra part
  Vals,          \* values of a key together with its layout entry
  WholeVals,     \* contents of a document that is not a mapping
  Layouts,       \* residual layouts
  Absent,        \* a unit the document does not have
  Missing,       \* no file, or no document to write
  NoRecord,      \* no usable baseline record
  Unrenderable   \* documents the format cannot generate

Units == Keys \cup {Root}
Parts == Units \cup {Residual}

\* Parsed documents: a mapping has no Root part, a whole document no keys.
Documents ==
  {d \in [Parts -> Vals \cup WholeVals \cup Layouts \cup {Absent}] :
     /\ d[Residual] \in Layouts
     /\ d[Root] \in WholeVals \cup {Absent}
     /\ \A k \in Keys : d[k] \in Vals \cup {Absent}
     /\ d[Root] # Absent => \A k \in Keys : d[k] = Absent}

ASSUME PartsAssumption ==
  /\ Root \notin Keys
  /\ Residual \notin Units

ASSUME ValuesAssumption ==
  /\ Absent \notin Vals \cup WholeVals \cup Layouts
  /\ Missing \notin Documents
  /\ NoRecord \notin Documents
  /\ Unrenderable \subseteq Documents

\* What a file can hold: a document that was parsed or generated from text.
Rendered == Documents \ Unrenderable

IsMapping(d) == d[Root] = Absent

-----------------------------------------------------------------------------
(* Baseline records.                                                        *)

\* Two documents show the same view of unit u (both may lack it).  The view
\* of a whole document includes its layout.
SameView(d, e, u) ==
  /\ d[u] = e[u]
  /\ u = Root /\ d[Root] # Absent => d[Residual] = e[Residual]

\* unit_matches is Some(_): the record has a digest for the unit.
Recorded(rec, u) == rec # NoRecord /\ rec[u] # Absent

\* unit_matches is Some(true).
Matches(rec, d, u) == Recorded(rec, u) /\ SameView(rec, d, u)

-----------------------------------------------------------------------------
(* Arbitration.                                                             *)

\* Mutant: a unit both sides changed goes to the remote side.
RemoteWinsArbitrate(rec, local, remote, u) ==
  IF Matches(rec, remote, u) THEN "KeepLocal"
  ELSE IF remote[u] = Absent /\ ~Recorded(rec, u) THEN "KeepLocal"
  ELSE "TakeRemote"

\* What happens to a unit the two sides show differently.
Arbitrate(rec, local, remote, u) ==
  CASE Recorded(rec, u) /\ Matches(rec, local, u)  -> "TakeRemote"
    [] Recorded(rec, u) /\ ~Matches(rec, local, u) ->
         IF Matches(rec, remote, u) THEN "KeepLocal" ELSE "Conflict"
    [] ~Recorded(rec, u) /\ local[u] = Absent  -> "TakeRemote"
    [] ~Recorded(rec, u) /\ local[u] # Absent  ->
         IF remote[u] = Absent THEN "KeepLocal" ELSE "Conflict"

\* The residual layout: without a record the local one is kept silently.
ChooseResidual(rec, local, remote) ==
  CASE local[Residual] = remote[Residual] \/ rec = NoRecord -> "KeepLocal"
    [] local[Residual] # remote[Residual] /\ rec # NoRecord ->
         IF rec[Residual] = local[Residual] THEN "TakeRemote"
         ELSE IF rec[Residual] = remote[Residual] THEN "KeepLocal"
         ELSE "Conflict"

\* Mutant: arbitrates also the units both sides show alike.
DecideWithoutComparing(rec, local, remote, p) ==
  IF p = Residual THEN ChooseResidual(rec, local, remote)
  ELSE IF local[p] = Absent /\ remote[p] = Absent THEN "KeepLocal"
  ELSE Arbitrate(rec, local, remote, p)

\* The decision for each part of two mappings.
Decide(rec, local, remote, p) ==
  IF p = Residual THEN ChooseResidual(rec, local, remote)
  ELSE IF SameView(local, remote, p) THEN "KeepLocal"
  ELSE Arbitrate(rec, local, remote, p)

\* Two mappings merge part by part ...
MergeDocuments(rec, local, remote) ==
  [p \in Parts |-> IF Decide(rec, local, remote, p) = "TakeRemote"
                   THEN remote[p] ELSE local[p]]

\* ... anything else is decided as one unit.
MergeWholeDocument(rec, local, remote) ==
  IF Decide(rec, local, remote, Root) = "TakeRemote" THEN remote ELSE local

Merged(rec, local, remote) ==
  IF IsMapping(local) /\ IsMapping(remote)
  THEN MergeDocuments(rec, local, remote)
  ELSE MergeWholeDocument(rec, local, remote)

\* The parts that could not be arbitrated; the local side is kept for them.
Disputed(rec, local, remote) ==
  LET scope == IF IsMapping(local) /\ IsMapping(remote) THEN Parts ELSE {Root}
  IN  {p \in scope : Decide(rec, local, remote, p) = "Conflict"}

\* The plan: the document to write (Missing: leave the file alone), the
\* disputed parts, and whether the merge could not be rendered.
PlanOpen(rec, local, remote) ==
  IF local = Missing
  THEN [document |-> remote, disputed |-> {}, structural |-> FALSE]
  ELSE LET merged     == Merged(rec, local, remote)
           changed    == merged # local
           structural == changed /\ merged \in Unrenderable
       IN  [document   |-> IF changed /\ ~structural THEN merged ELSE Missing,
            disputed   |-> Disputed(rec, local, remote),
            structural |-> structural]

\* Mutant: forgets the disputed parts.
OnlyRenderable(plan) == ~plan.structural

ConflictFree(plan) == plan.disputed = {} /\ ~plan.structural

-----------------------------------------------------------------------------
(* The three-way merge of the index stages.                                 *)

\* One part: a side that did not move from the base gives way.
Settled(base, ours, theirs) ==
  ours = theirs \/ ours = base \/ theirs = base

MergePart(base, ours, theirs) ==
  IF ours = base THEN theirs ELSE ours

\* Mappings merge key by key; other roots only as a whole.  The layout is
\* one more field.
ScopeOfMerge(b, o, t) ==
  IF IsMapping(b) /\ IsMapping(o) /\ IsMapping(t) THEN Parts
  ELSE {Root, Residual}

SameRoot(d, e) == \A u \in Units : d[u] = e[u]

MergeConflicts(b, o, t) ==
  {p \in ScopeOfMerge(b, o, t) :
     IF p = Root
     THEN ~(SameRoot(o, t) \/ SameRoot(o, b) \/ SameRoot(t, b))
          /\ ScopeOfMerge(b, o, t) # Parts
     ELSE ~Settled(b[p], o[p], t[p])}

MergeStages(b, o, t) ==
  LET root == IF SameRoot(o, b) THEN t ELSE o
  IN  [p \in Parts |->
         IF p = Residual \/ ScopeOfMerge(b, o, t) = Parts
         THEN MergePart(b[p], o[p], t[p])
         ELSE root[p]]
=============================================================================
