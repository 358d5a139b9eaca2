--------------------------- MODULE PairSyncProofs ---------------------------
(***************************************************************************)
(* What OpenPlan and PairSync guarantee for any keys, values, layouts and  *)
(* merge stages.  The first part is about planning alone: what a decision  *)
(* says of the values it was made of, and that an open whose plan was      *)
(* carried out has nothing left to do.  PairInv is the inductive invariant *)
(* of every pair; SyncInv is the one of a pair whose files are not edited  *)
(* between the reads of a command and its writes.                          *)
(***************************************************************************)
EXTENDS PairSync, TLAPS

-----------------------------------------------------------------------------
(* Documents.                                                               *)

\* The parts of a document, and which of them are which.
LEMMA PartsAre ==
  /\ Parts = Keys \cup {Root, Residual}
  /\ Root \notin Keys /\ Residual \notin Keys /\ Root # Residual
BY PartsAssumption DEF Parts, Units

\* A document that is a mapping, part by part.
LEMMA MappingIs ==
  ASSUME NEW d \in [Parts -> Values],
         d[Residual] \in Layouts, d[Root] = Absent,
         \A k \in Keys : d[k] \in Vals \cup {Absent}
  PROVE  d \in Documents /\ IsMapping(d)
BY DEF Documents, Values, IsMapping

\* What membership in Documents says of each part.
LEMMA DocumentIs ==
  ASSUME NEW d \in Documents
  PROVE  /\ d \in [Parts -> Values]
         /\ d[Residual] \in Layouts
         /\ d[Root] \in WholeVals \cup {Absent}
         /\ \A k \in Keys : d[k] \in Vals \cup {Absent}
         /\ ~IsMapping(d) => \A k \in Keys : d[k] = Absent
BY DEF Documents, Values, IsMapping

\* Documents are none of the marks for something that is not there.
LEMMA DocumentIsNot ==
  ASSUME NEW d \in Documents
  PROVE  d # Missing /\ d # Markers /\ d # NoRecord /\ IsDocument(d)
BY ValuesAssumption, FilesAssumption DEF IsDocument

\* Documents that agree on every part are the same document.
LEMMA SameParts ==
  ASSUME NEW d \in Documents, NEW e \in Documents, \A p \in Parts : d[p] = e[p]
  PROVE  d = e
BY DocumentIs

-----------------------------------------------------------------------------
(* Arbitration.                                                             *)

\* The local side gives way only where it is what the record says, or where it
\* is nothing and there is no record.
LEMMA TakenWas ==
  ASSUME NEW local \in Documents, NEW remote \in Documents,
         NEW rec \in Documents \cup {NoRecord}, NEW p \in Parts,
         Decide(rec, local, remote, p) = "TakeRemote"
  PROVE  /\ rec # NoRecord => local[p] = rec[p]
         /\ rec = NoRecord => local[p] = Absent
<1>1. CASE p = Residual
  BY <1>1 DEF Decide, ChooseResidual
<1>2. CASE p # Residual
  BY <1>2 DEF Decide, Arbitrate, Matches, Recorded, SameView
<1> QED
  BY <1>1, <1>2

\* In two mappings, the local side is kept against another only if that is what
\* the record says.
LEMMA KeptAgainst ==
  ASSUME NEW local \in Documents, NEW remote \in Documents, NEW rec \in Documents,
         NEW p \in Parts, IsMapping(local), IsMapping(remote),
         Decide(rec, local, remote, p) = "KeepLocal", local[p] # remote[p]
  PROVE  remote[p] = rec[p]
<1>1. rec # NoRecord
  BY DocumentIsNot
<1>2. CASE p = Residual
  BY <1>1, <1>2 DEF Decide, ChooseResidual
<1>3. CASE p # Residual
  BY <1>1, <1>3, PartsAre DEF Decide, Arbitrate, Matches, Recorded, SameView, IsMapping
<1> QED
  BY <1>2, <1>3

\* There are three decisions.
LEMMA ThreeDecisions ==
  ASSUME NEW local, NEW remote, NEW rec, NEW p
  PROVE  Decide(rec, local, remote, p) \in {"KeepLocal", "TakeRemote", "Conflict"}
BY DEF Decide, ChooseResidual, Arbitrate

\* A part that both sides show alike is kept.
LEMMA AlikeIsKept ==
  ASSUME NEW d \in Documents, NEW rec, NEW p
  PROVE  Decide(rec, d, d, p) = "KeepLocal"
BY DEF Decide, ChooseResidual, SameView

\* Each part of a merge of two mappings is one side's.
LEMMA MergedPart ==
  ASSUME NEW local \in Documents, NEW remote \in Documents, NEW rec, NEW p \in Parts,
         IsMapping(local), IsMapping(remote)
  PROVE  Merged(rec, local, remote)[p] =
           IF Decide(rec, local, remote, p) = "TakeRemote" THEN remote[p] ELSE local[p]
BY DEF Merged, MergeDocuments

\* A merge of documents is a document, and of mappings a mapping.
LEMMA MergedType ==
  ASSUME NEW local \in Documents, NEW remote \in Documents, NEW rec
  PROVE  /\ Merged(rec, local, remote) \in Documents
         /\ IsMapping(local) /\ IsMapping(remote) => IsMapping(Merged(rec, local, remote))
<1>1. CASE IsMapping(local) /\ IsMapping(remote)
  <2> DEFINE m == Merged(rec, local, remote)
  <2>1. \A p \in Parts : m[p] \in {local[p], remote[p]}
    BY <1>1, MergedPart
  <2>2. m \in [Parts -> Values]
    <3>1. m = [p \in Parts |-> m[p]]
      BY <1>1 DEF Merged, MergeDocuments
    <3>2. \A p \in Parts : m[p] \in Values
      BY <2>1, DocumentIs
    <3> HIDE DEF m
    <3> QED
      BY <3>1, <3>2
  <2> HIDE DEF m
  <2>3. m[Residual] \in Layouts /\ m[Root] = Absent
    BY <1>1, <2>1, PartsAre, DocumentIs DEF IsMapping
  <2>4. \A k \in Keys : m[k] \in Vals \cup {Absent}
    BY <2>1, PartsAre, DocumentIs
  <2>5. m \in Documents /\ IsMapping(m)
    BY <2>2, <2>3, <2>4, MappingIs
  <2> QED
    BY <2>5 DEF m
<1>2. CASE ~(IsMapping(local) /\ IsMapping(remote))
  BY <1>2 DEF Merged, MergeWholeDocument
<1> QED
  BY <1>1, <1>2

\* What open plans to write.
LEMMA PlanType ==
  ASSUME NEW local \in Documents \cup {Missing}, NEW remote \in Documents, NEW rec
  PROVE  PlanOpen(rec, local, remote).document \in Documents \cup {Missing}
<1>1. CASE local = Missing
  BY <1>1 DEF PlanOpen
<1>2. CASE local # Missing
  BY <1>2, MergedType DEF PlanOpen
<1> QED
  BY <1>1, <1>2

\* A document that is merged with itself stays, and nothing is disputed.
LEMMA MergedWithItself ==
  ASSUME NEW d \in Documents, NEW rec
  PROVE  Merged(rec, d, d) = d /\ Disputed(rec, d, d) = {}
<1>1. \A p : Decide(rec, d, d, p) = "KeepLocal"
  BY AlikeIsKept
<1>2. Disputed(rec, d, d) = {}
  BY <1>1 DEF Disputed
<1>3. CASE IsMapping(d)
  <2>1. \A p \in Parts : Merged(rec, d, d)[p] = d[p]
    BY <1>1, <1>3, MergedPart
  <2> QED
    BY <1>2, <2>1, MergedType, SameParts
<1>4. CASE ~IsMapping(d)
  BY <1>2, <1>4 DEF Merged, MergeWholeDocument
<1> QED
  BY <1>3, <1>4

\* A merge without a dispute, merged again, is itself: each part is now either
\* the same on both sides or kept as before.
LEMMA MergedAgain ==
  ASSUME NEW local \in Documents, NEW remote \in Documents,
         NEW rec \in Documents \cup {NoRecord},
         Disputed(rec, local, remote) = {},
         NEW m, m = Merged(rec, local, remote)
  PROVE  Merged(rec, m, remote) = m /\ Disputed(rec, m, remote) = {}
<1>0. m \in Documents
  BY MergedType
<1>1. CASE IsMapping(local) /\ IsMapping(remote)
  <2>1. IsMapping(m)
    BY <1>1, MergedType
  <2>2. ASSUME NEW p \in Parts
        PROVE  Decide(rec, m, remote, p) = "KeepLocal" \/ m[p] = remote[p]
    <3>1. CASE m[p] = remote[p]
      BY <3>1
    <3>2. CASE m[p] # remote[p]
      <4>1. Decide(rec, local, remote, p) = "KeepLocal" /\ m[p] = local[p]
        BY <1>1, <3>2, MergedPart, ThreeDecisions DEF Disputed
      <4>2. Decide(rec, m, remote, p) = Decide(rec, local, remote, p)
        <5>1. CASE p = Residual
          BY <4>1, <5>1 DEF Decide, ChooseResidual
        <5>2. CASE p \in Keys
          BY <4>1, <5>2, PartsAre DEF Decide, Arbitrate, Matches, Recorded, SameView
        <5>3. CASE p = Root
          BY <1>1, <2>1, <3>2, <5>3 DEF IsMapping
        <5> QED
          BY <5>1, <5>2, <5>3, PartsAre
      <4> QED
        BY <4>1, <4>2
    <3> QED
      BY <3>1, <3>2
  <2>3. ASSUME NEW p \in Parts PROVE Decide(rec, m, remote, p) # "Conflict"
    <3>1. CASE Decide(rec, m, remote, p) = "KeepLocal"
      BY <3>1
    <3>2. CASE m[p] = remote[p]
      <4>1. Decide(rec, m, remote, p) = "KeepLocal"
        BY <1>1, <2>1, <3>2 DEF Decide, ChooseResidual, SameView, IsMapping
      <4> QED
        BY <4>1
    <3> QED
      BY <2>2, <3>1, <3>2
  <2>4. Disputed(rec, m, remote) = {}
    BY <1>1, <2>1, <2>3 DEF Disputed
  <2>5. Merged(rec, m, remote) = m
    <3>1. \A p \in Parts : Merged(rec, m, remote)[p] = m[p]
      BY <1>0, <1>1, <2>1, <2>2, MergedPart
    <3>2. Merged(rec, m, remote) \in Documents
      BY <1>0, MergedType
    <3> QED
      BY <1>0, <3>1, <3>2, SameParts
  <2> QED
    BY <2>4, <2>5
<1>2. CASE ~(IsMapping(local) /\ IsMapping(remote))
  <2>1. m \in {local, remote}
    BY <1>2 DEF Merged, MergeWholeDocument
  <2>2. CASE m = local
    BY <1>2, <2>2
  <2>3. CASE m = remote
    BY <2>3, MergedWithItself
  <2> QED
    BY <2>1, <2>2, <2>3
<1> QED
  BY <1>1, <1>2

\* Nothing to write, nothing disputed.
Finished(plan) == plan.document = Missing /\ ConflictFree(plan)

\* The document a plan leaves in the plaintext file.
Synced(local, plan) == IF plan.document = Missing THEN local ELSE plan.document

\* Open is idempotent: once a conflict-free plan is carried out, planning again,
\* with the same record, finds nothing to write and no conflict.
THEOREM PlanAgain ==
  ASSUME NEW local \in Documents \cup {Missing}, NEW remote \in Documents,
         NEW rec \in Documents \cup {NoRecord},
         ConflictFree(PlanOpen(rec, local, remote))
  PROVE  LET synced == Synced(local, PlanOpen(rec, local, remote))
         IN  synced \in Documents /\ Finished(PlanOpen(rec, synced, remote))
<1> DEFINE synced == Synced(local, PlanOpen(rec, local, remote))
<1>1. CASE local = Missing
  <2>1. synced = remote /\ remote # Missing
    BY <1>1, DocumentIsNot DEF PlanOpen, Synced
  <2>2. Finished(PlanOpen(rec, remote, remote))
    BY <2>1, MergedWithItself DEF PlanOpen, Finished, ConflictFree
  <2> QED
    BY <2>1, <2>2
<1>2. CASE local # Missing
  <2> DEFINE m == Merged(rec, local, remote)
  <2>1. local \in Documents /\ m \in Documents /\ m # Missing
    BY <1>2, MergedType, DocumentIsNot
  <2>2. synced = m /\ Disputed(rec, local, remote) = {}
    BY <1>2, <2>1 DEF PlanOpen, Synced, ConflictFree
  <2>3. Merged(rec, m, remote) = m /\ Disputed(rec, m, remote) = {}
    BY <2>1, <2>2, MergedAgain
  <2> HIDE DEF m
  <2>4. Finished(PlanOpen(rec, m, remote))
    BY <2>1, <2>3 DEF PlanOpen, Finished, ConflictFree
  <2> QED
    BY <2>1, <2>2, <2>4
<1> QED
  BY <1>1, <1>2

\* A plaintext that is what the record says gives way to the ciphertext as a
\* whole: nothing is disputed.
LEMMA PlanOfRecorded ==
  ASSUME NEW rec \in Documents, NEW remote \in Documents
  PROVE  /\ Disputed(rec, rec, remote) = {}
         /\ Merged(rec, rec, remote) \in {rec, remote}
<1>1. rec # NoRecord
  BY DocumentIsNot
<1>2. ASSUME NEW p \in Parts
      PROVE  /\ Decide(rec, rec, remote, p) \in {"KeepLocal", "TakeRemote"}
             /\ Decide(rec, rec, remote, p) = "KeepLocal" =>
                  rec[p] = remote[p]
  BY <1>1 DEF Decide, ChooseResidual, Arbitrate, Matches, Recorded, SameView
<1>3. Root \in Parts
  BY PartsAre
<1>4. Disputed(rec, rec, remote) = {}
  BY <1>2, <1>3 DEF Disputed
<1>5. CASE IsMapping(rec) /\ IsMapping(remote)
  <2>1. \A p \in Parts : Merged(rec, rec, remote)[p] = remote[p]
    BY <1>2, <1>5, MergedPart
  <2> QED
    BY <1>4, <2>1, MergedType, SameParts
<1>6. CASE ~(IsMapping(rec) /\ IsMapping(remote))
  BY <1>4, <1>6 DEF Merged, MergeWholeDocument
<1> QED
  BY <1>5, <1>6

-----------------------------------------------------------------------------
(* Types of a pair.                                                         *)

\* The merge of three index stages is a document.
LEMMA MergeStagesType ==
  ASSUME NEW b \in Documents, NEW o \in Documents, NEW t \in Documents
  PROVE  MergeStages(b, o, t) \in Documents
<1> DEFINE m == MergeStages(b, o, t)
           root == IF SameRoot(o, b) THEN t ELSE o
<1>1. \A p \in Parts :
        m[p] = IF p = Residual \/ ScopeOfMerge(b, o, t) = Parts
               THEN MergePart(b[p], o[p], t[p]) ELSE root[p]
  BY DEF MergeStages
<1>2. \A p \in Parts : m[p] \in {o[p], t[p]}
  BY <1>1 DEF MergePart
<1>3. m \in [Parts -> Values]
  <2>1. m = [p \in Parts |-> m[p]]
    BY DEF MergeStages
  <2>2. \A p \in Parts : m[p] \in Values
    BY <1>2, DocumentIs
  <2> HIDE DEF m
  <2> QED
    BY <2>1, <2>2
<1>4. CASE IsMapping(o) /\ IsMapping(t)
  <2> HIDE DEF m
  <2>1. /\ m[Residual] \in Layouts /\ m[Root] = Absent
        /\ \A k \in Keys : m[k] \in Vals \cup {Absent}
    BY <1>2, <1>4, PartsAre, DocumentIs DEF IsMapping
  <2> QED
    BY <1>3, <2>1, MappingIs DEF m
<1>5. CASE ~(IsMapping(o) /\ IsMapping(t)) /\ Keys # {}
  <2>1. ScopeOfMerge(b, o, t) # Parts
    BY <1>5, PartsAre DEF ScopeOfMerge
  <2>2. root \in Documents /\ \A p \in Parts \ {Residual} : m[p] = root[p]
    BY <1>1, <2>1
  <2> HIDE DEF m, root
  <2>3. /\ m[Residual] \in Layouts /\ m[Root] \in WholeVals \cup {Absent}
        /\ \A k \in Keys : m[k] \in Vals \cup {Absent}
        /\ m[Root] # Absent => \A k \in Keys : m[k] = Absent
    BY <1>2, <2>2, PartsAre, DocumentIs DEF IsMapping
  <2>4. m \in Documents
    BY <1>3, <2>3 DEF Documents, Values
  <2> QED
    BY <2>4 DEF m
<1>6. CASE Keys = {}
  <2> HIDE DEF m, root
  <2>1. m[Residual] \in Layouts /\ m[Root] \in WholeVals \cup {Absent}
    BY <1>2, PartsAre, DocumentIs
  <2>2. m \in Documents
    BY <1>3, <1>6, <2>1 DEF Documents, Values
  <2> QED
    BY <2>2 DEF m
<1> QED
  BY <1>4, <1>5, <1>6

\* The document that stands for a missing stage 1.
LEMMA EmptyDocumentType == EmptyDocument \in Documents
<1>1. EmptyDocument \in [Parts -> Values] /\ EmptyDocument[Residual] \in Layouts
  BY PartsAre, FilesAssumption DEF EmptyDocument, Values
<1>2. EmptyDocument[Root] = Absent /\ \A k \in Keys : EmptyDocument[k] \in Vals \cup {Absent}
  BY PartsAre DEF EmptyDocument
<1> QED
  BY <1>1, <1>2, MappingIs

\* What a command owes, if it is well-formed, is a command.
LEMMA OwingType ==
  ASSUME NEW op \in {"open", "seal", "resolve", "converge"},
         NEW c \in Documents \cup {Missing}, NEW p \in Documents \cup {Missing, Markers},
         NEW r \in Documents \cup {Missing}
  PROVE  Owing(op, c, p, r) \in Commands
BY DEF Owing, Idle, Commands

\* Nothing in flight is a command too.
LEMMA IdleType == Idle \in Commands
BY DEF Idle, Commands

\* A history that also knows the document of a file.
LEMMA AlsoKnownType ==
  ASSUME known \in [Parts -> SUBSET Values], NEW c \in Documents
  PROVE  AlsoKnown(c) \in [Parts -> SUBSET Values]
BY DocumentIs DEF AlsoKnown

-----------------------------------------------------------------------------
(* The invariant of every pair.                                             *)

\* The history knows what is in the ciphertext file and in the record.
KnownInv ==
  /\ IsDocument(cipher) => \A p \in Parts : cipher[p] \in known[p]
  /\ base # NoRecord => \A p \in Parts : base[p] \in known[p]

\* Only a command in flight owes a write, and open none of the ciphertext.
BusyInv ==
  /\ cmd.op = "none" => cmd = Idle
  /\ cmd.op = "open" => cmd.toCipher = Missing

PairInv == TypeOK /\ KnownInv /\ BusyInv

\* The invariant holds at first.
LEMMA InitPairInv == Init => PairInv
<1> SUFFICES ASSUME Init PROVE PairInv
  OBVIOUS
<1>1. plain \in Documents \cup {Missing} /\ cipher \in Documents \cup {Missing}
  BY DEF Init, Rendered
<1>2. known \in [Parts -> SUBSET Values]
  BY <1>1, DocumentIs DEF Init
<1>3. agreed \in [Parts -> Values \cup {NoRecord}]
  BY DEF Init
<1>4. TypeOK
  BY <1>1, <1>2, <1>3, IdleType DEF Init, TypeOK
<1>5. KnownInv
  BY <1>1 DEF Init, KnownInv, IsDocument
<1> QED
  BY <1>4, <1>5 DEF Init, PairInv, BusyInv, Idle

\* The user has no ciphertext and no record in hand.
LEMMA UserKeepsPair ==
  ASSUME PairInv, UserStep
  PROVE  PairInv'
<1>1. plain' \in Documents \cup {Missing}
  BY DEF UserStep, EditPlaintext, DeletePlaintext, Rendered
<1>2. UNCHANGED <<cipher, base, stages, cmd, history>>
  BY DEF UserStep, EditPlaintext, DeletePlaintext
<1> QED
  BY <1>1, <1>2 DEF history, PairInv, TypeOK, KnownInv, BusyInv, IsDocument

\* Git brings in ciphertexts, which the history takes note of.
LEMMA GitKeepsPair ==
  ASSUME PairInv, GitStep \/ LoseBaseline
  PROVE  PairInv'
<1> USE DEF history, files
<1>1. CASE GitPull
  <2>1. PICK d \in Documents : cipher' = d /\ known' = AlsoKnown(d)
    BY <1>1 DEF GitPull, Rendered
  <2>2. known' \in [Parts -> SUBSET Values]
    BY <2>1, AlsoKnownType DEF PairInv, TypeOK
  <2>3. \A p \in Parts : known[p] \subseteq known'[p] /\ d[p] \in known'[p]
    BY <2>1 DEF AlsoKnown
  <2> QED
    BY <1>1, <2>1, <2>2, <2>3 DEF GitPull, PairInv, TypeOK, KnownInv, BusyInv
<1>2. CASE GitMergeConflict
  <2>1. cipher \in Documents
    BY <1>2 DEF GitMergeConflict, PairInv, TypeOK, IsDocument
  <2>2. stages' \in Stages
    BY <1>2, <2>1, FilesAssumption DEF GitMergeConflict, Stages, Rendered
  <2> QED
    BY <1>2, <2>2 DEF GitMergeConflict, PairInv, TypeOK, KnownInv, BusyInv, IsDocument
<1>3. CASE GitAdd
  BY <1>3 DEF GitAdd, PairInv, TypeOK, KnownInv, BusyInv, IsDocument
<1>4. CASE GitMergeAbort
  <2>1. stages.ours \in Documents
    BY <1>4 DEF GitMergeAbort, PairInv, TypeOK, Stages
  <2>2. known' \in [Parts -> SUBSET Values]
    BY <1>4, <2>1, AlsoKnownType DEF GitMergeAbort, PairInv, TypeOK
  <2>3. \A p \in Parts : known[p] \subseteq known'[p] /\ stages.ours[p] \in known'[p]
    BY <1>4 DEF GitMergeAbort, AlsoKnown
  <2> QED
    BY <1>4, <2>1, <2>2, <2>3 DEF GitMergeAbort, PairInv, TypeOK, KnownInv, BusyInv
<1>5. CASE LoseBaseline
  BY <1>5 DEF LoseBaseline, PairInv, TypeOK, KnownInv, BusyInv, IsDocument
<1> QED
  BY <1>1, <1>2, <1>3, <1>4, <1>5 DEF GitStep

\* A command starts: it reads and plans, and owes documents.
LEMMA StartKeepsPair ==
  ASSUME PairInv, StartOpen \/ StartSeal \/ StartResolve \/ StartConverge
  PROVE  PairInv'
<1>1. UNCHANGED <<plain, cipher, base, stages, agreed, clouded, known>>
  BY DEF StartOpen, StartSeal, StartResolve, StartConverge, files, history
<1>2. /\ plain \in Documents \cup {Missing, Markers}
      /\ cipher \in Documents \cup {Missing, Markers}
      /\ base \in Documents \cup {NoRecord} /\ stages \in Stages \cup {NoStages}
  BY DEF PairInv, TypeOK
<1>3. PICK op \in {"open", "seal", "resolve", "converge"}, c \in Documents \cup {Missing},
           p \in Documents \cup {Missing, Markers}, r \in Documents \cup {Missing} :
        cmd' = Owing(op, c, p, r) /\ (op = "open" => c = Missing)
  <2>1. CASE StartOpen
    <3>1. plain \in Documents \cup {Missing} /\ cipher \in Documents
      BY <1>2, <2>1 DEF StartOpen, IsDocument
    <3> DEFINE plan == PlanOpen(base, plain, cipher)
    <3>2. plan.document \in Documents \cup {Missing}
      BY <3>1, PlanType
    <3> HIDE DEF plan
    <3> QED
      BY <2>1, <3>1, <3>2 DEF StartOpen, plan
  <2>2. CASE StartSeal
    BY <1>2, <2>2 DEF StartSeal, IsDocument
  <2>3. CASE StartResolve
    <3>1. stages \in Stages
      BY <1>2, <2>3 DEF StartResolve
    <3>2. stages.ours \in Documents /\ stages.theirs \in Documents
      BY <3>1 DEF Stages
    <3> DEFINE b == IF stages.base = Missing THEN EmptyDocument ELSE stages.base
               merged == MergeStages(b, stages.ours, stages.theirs)
    <3>3. b \in Documents
      BY <3>1, EmptyDocumentType DEF Stages
    <3> HIDE DEF b
    <3>4. merged \in Documents
      BY <3>2, <3>3, MergeStagesType
    <3>5. cmd' = Owing("resolve", merged, merged, merged)
          \/ cmd' = Owing("resolve", stages.ours, Markers, Missing)
      BY <2>3 DEF StartResolve, b
    <3> HIDE DEF merged
    <3> QED
      BY <3>2, <3>4, <3>5
  <2>4. CASE StartConverge
    BY <1>2, <2>4 DEF StartConverge, IsDocument
  <2> QED
    BY <2>1, <2>2, <2>3, <2>4
<1>4. cmd' \in Commands
  BY <1>3, OwingType
<1>5. BusyInv'
  BY <1>3 DEF BusyInv, Owing, Idle
<1> QED
  BY <1>1, <1>4, <1>5 DEF PairInv, TypeOK, KnownInv, IsDocument

\* What is left to a command after a write.
LEMMA LessOwing ==
  ASSUME PairInv, cmd.op # "none",
         NEW p \in Documents \cup {Missing, Markers}, NEW next,
         next = Owing(cmd.op, Missing, p, cmd.toRecord)
  PROVE  /\ next \in Commands
         /\ next.op = "none" => next = Idle
         /\ next.toCipher = Missing
<1>1. cmd.op \in {"open", "seal", "resolve", "converge"} /\ cmd.toRecord \in Documents \cup {Missing}
  BY DEF PairInv, TypeOK, Commands
<1> QED
  BY <1>1, OwingType DEF Owing, Idle

\* A command writes, ends or dies.
LEMMA WriteKeepsPair ==
  ASSUME PairInv, WriteCiphertext \/ WritePlaintext \/ SaveBaseline \/ Die
  PROVE  PairInv'
<1> USE DEF history, files
<1>1. /\ cmd.toCipher \in Documents \cup {Missing}
      /\ cmd.toPlain \in Documents \cup {Missing, Markers}
      /\ cmd.toRecord \in Documents \cup {Missing}
      /\ (cmd.toCipher # Missing \/ cmd.toPlain # Missing) => cmd.op # "none"
  BY DEF PairInv, TypeOK, Commands, BusyInv, Idle
<1>2. CASE WriteCiphertext
  <2>1. cmd.toCipher \in Documents /\ cipher' = cmd.toCipher /\ known' = AlsoKnown(cmd.toCipher)
    BY <1>1, <1>2 DEF WriteCiphertext
  <2>2. known' \in [Parts -> SUBSET Values]
    BY <2>1, AlsoKnownType DEF PairInv, TypeOK
  <2>3. \A p \in Parts : known[p] \subseteq known'[p] /\ cipher'[p] \in known'[p]
    BY <2>1 DEF AlsoKnown
  <2>4. cmd' \in Commands /\ BusyInv'
    BY <1>1, <1>2, LessOwing DEF WriteCiphertext, BusyInv
  <2> QED
    BY <1>2, <2>1, <2>2, <2>3, <2>4 DEF WriteCiphertext, PairInv, TypeOK, KnownInv
<1>3. CASE WritePlaintext
  <2>1. cmd' \in Commands /\ BusyInv'
    BY <1>1, <1>3, LessOwing DEF WritePlaintext, BusyInv
  <2> QED
    BY <1>1, <1>3, <2>1 DEF WritePlaintext, PairInv, TypeOK, KnownInv, IsDocument
<1>4. CASE SaveBaseline
  <2>1. cmd.toRecord \in Documents /\ base' = cmd.toRecord
    BY <1>1, <1>4 DEF SaveBaseline
  <2>2. \A p \in Parts : /\ cmd.toRecord[p] \in Values
                         /\ IsDocument(plain) => plain[p] \in Values
                         /\ IsDocument(cipher) => cipher[p] \in Values
    BY <2>1, DocumentIs DEF PairInv, TypeOK, IsDocument
  <2>3. agreed' \in [Parts -> Values \cup {NoRecord}] /\ clouded' \subseteq Parts
    BY <1>4, <2>2 DEF SaveBaseline, Agreement, PairInv, TypeOK
  <2>4. \A p \in Parts :
          known'[p] = IF cmd.op = "converge" THEN known[p] \cup {cmd.toRecord[p]}
                      ELSE {cmd.toRecord[p]} \cup (IF IsDocument(cipher) THEN {cipher[p]} ELSE {})
    BY <1>4 DEF SaveBaseline
  <2>5. known' \in [Parts -> SUBSET Values]
    <3>1. ASSUME NEW p \in Parts PROVE known'[p] \in SUBSET Values
      <4>1. known[p] \subseteq Values
        BY DEF PairInv, TypeOK
      <4>2. \A v \in known'[p] : \/ v \in known[p] \/ v = cmd.toRecord[p]
                                 \/ IsDocument(cipher) /\ v = cipher[p]
        BY <2>4
      <4> QED
        BY <2>2, <4>1, <4>2
    <3>2. known' = [p \in Parts |-> known'[p]]
      BY <1>4 DEF SaveBaseline
    <3> QED
      BY <3>1, <3>2
  <2>6. KnownInv'
    BY <1>4, <2>1, <2>4 DEF SaveBaseline, PairInv, KnownInv, IsDocument
  <2> QED
    BY <1>4, <2>1, <2>3, <2>5, <2>6, IdleType DEF SaveBaseline, PairInv, TypeOK, BusyInv, Idle
<1>5. CASE Die
  BY <1>5, IdleType DEF Die, PairInv, TypeOK, KnownInv, BusyInv, Idle, IsDocument
<1> QED
  BY <1>2, <1>3, <1>4, <1>5

\* Every step keeps the invariant of the pair.
LEMMA NextKeepsPair == PairInv /\ [Next]_vars => PairInv'
<1>1. PairInv /\ UNCHANGED vars => PairInv'
  BY DEF vars, PairInv, TypeOK, KnownInv, BusyInv, IsDocument
<1> QED
  BY <1>1, UserKeepsPair, GitKeepsPair, StartKeepsPair, WriteKeepsPair DEF Next, CommandStep

-----------------------------------------------------------------------------
(* The invariant of a pair that nobody edits while a command runs.          *)

\* Open owes what it would plan now, or has nothing left to plan.
OpenInv ==
  cmd.op = "open" =>
    /\ cmd.toCipher = Missing
    /\ cipher \in Documents /\ plain \in Documents \cup {Missing}
    /\ cmd.toPlain # Missing =>
         LET plan == PlanOpen(base, plain, cipher)
         IN  /\ cmd.toPlain = plan.document
             /\ cmd.toRecord = IF ConflictFree(plan) THEN plan.document ELSE Missing
    /\ cmd.toPlain = Missing =>
         plain = cmd.toRecord /\ plain # Missing /\ Finished(PlanOpen(base, plain, cipher))

\* Before a command saves its record, the file it is a record of holds the same.
OwedInv ==
  /\ cmd.op = "seal" => cmd.toPlain = Missing /\ plain = cmd.toRecord
  /\ cmd.op = "resolve" =>
       /\ cmd.toPlain # Missing => cmd.toRecord \in {Missing, cmd.toPlain}
       /\ cmd.toPlain = Missing => cmd.toCipher = Missing /\ plain = cmd.toRecord
  /\ cmd.op = "converge" =>
       /\ cmd.toPlain = Missing
       /\ IF cmd.toCipher = Missing THEN cipher = cmd.toRecord ELSE cmd.toCipher = cmd.toRecord

\* Where the last record was an agreement, it says what the agreement was.
AgreedInv ==
  \A p \in Parts \ clouded : base # NoRecord /\ base[p] = agreed[p]

SyncInv == PairInv /\ OpenInv /\ OwedInv /\ AgreedInv

\* Nothing is owed and nothing agreed upon at first.
LEMMA InitSyncInv == Init => SyncInv
<1> SUFFICES ASSUME Init PROVE SyncInv
  OBVIOUS
<1>1. OpenInv /\ OwedInv
  BY DEF Init, OpenInv, OwedInv, Idle
<1>2. AgreedInv
  BY DEF Init, AgreedInv
<1> QED
  BY <1>1, <1>2, InitPairInv DEF SyncInv

\* Without a command in flight there is nothing to keep about one.
LEMMA NothingOwed ==
  ASSUME cmd' = Idle
  PROVE  OpenInv' /\ OwedInv'
BY DEF OpenInv, OwedInv, Idle

\* The user and Git wait for the command in flight to end.
LEMMA OthersKeepSync ==
  ASSUME ~EditsWhileRunning, SyncInv, UserStep \/ GitStep \/ LoseBaseline
  PROVE  OpenInv' /\ OwedInv' /\ AgreedInv'
<1>1. cmd = Idle /\ UNCHANGED <<cmd, agreed>>
  BY DEF UserStep, EditPlaintext, DeletePlaintext, UserMayAct, GitStep, GitPull,
         GitMergeConflict, GitAdd, GitMergeAbort, LoseBaseline, history, files
<1>2. OpenInv' /\ OwedInv'
  BY <1>1, NothingOwed
<1>3. UNCHANGED <<base, clouded>> \/ clouded' = Parts
  BY DEF UserStep, EditPlaintext, DeletePlaintext, GitStep, GitPull,
         GitMergeConflict, GitAdd, GitMergeAbort, LoseBaseline, history
<1>4. AgreedInv'
  BY <1>1, <1>3 DEF SyncInv, AgreedInv
<1> QED
  BY <1>2, <1>4

\* A command starts and owes what it has planned from the files as they are.
LEMMA StartKeepsSync ==
  ASSUME SyncInv, StartOpen \/ StartSeal \/ StartResolve \/ StartConverge
  PROVE  OpenInv' /\ OwedInv' /\ AgreedInv'
<1>1. UNCHANGED <<plain, cipher, base, stages, agreed, clouded, known>>
  BY DEF StartOpen, StartSeal, StartResolve, StartConverge, files, history
<1>2. /\ plain \in Documents \cup {Missing, Markers}
      /\ cipher \in Documents \cup {Missing, Markers}
      /\ stages \in Stages \cup {NoStages}
      /\ base \in Documents \cup {NoRecord}
  BY DEF SyncInv, PairInv, TypeOK
<1>3. AgreedInv'
  BY <1>1 DEF SyncInv, AgreedInv
<1>4. CASE StartOpen
  <2>1. plain \in Documents \cup {Missing} /\ cipher \in Documents
    BY <1>2, <1>4 DEF StartOpen, IsDocument
  <2> DEFINE plan == PlanOpen(base, plain, cipher)
             record == IF ConflictFree(plan) THEN Synced(plain, plan) ELSE Missing
  <2>2. cmd' = Owing("open", Missing, plan.document, record)
    BY <1>4 DEF StartOpen, Synced
  <2>3. plan.document = Missing => plain # Missing
    BY <2>1, DocumentIsNot DEF PlanOpen
  <2>4. OwedInv'
    BY <2>2 DEF OwedInv, Owing, Idle
  <2>5. CASE plan.document # Missing
    <3>1. /\ cmd'.op = "open" /\ cmd'.toCipher = Missing
          /\ cmd'.toPlain = plan.document
          /\ cmd'.toRecord = IF ConflictFree(plan) THEN plan.document ELSE Missing
      BY <2>2, <2>5 DEF Owing, Synced
    <3> QED
      BY <1>1, <1>3, <2>1, <2>4, <2>5, <3>1 DEF OpenInv
  <2>6. CASE plan.document = Missing /\ ConflictFree(plan)
    <3>1. plain # Missing /\ record = plain
      BY <2>3, <2>6 DEF Synced
    <3>2. /\ cmd'.op = "open" /\ cmd'.toCipher = Missing
          /\ cmd'.toPlain = Missing /\ cmd'.toRecord = plain
      BY <2>2, <2>6, <3>1 DEF Owing
    <3>3. Finished(plan)
      BY <2>6 DEF Finished
    <3> HIDE DEF plan
    <3>4. Finished(PlanOpen(base, plain, cipher))'
      BY <1>1, <3>3 DEF plan
    <3> QED
      BY <1>1, <1>3, <2>1, <2>4, <3>1, <3>2, <3>4 DEF OpenInv
  <2>7. CASE plan.document = Missing /\ ~ConflictFree(plan)
    <3>1. cmd' = Idle
      BY <2>2, <2>7 DEF Owing
    <3> QED
      BY <1>3, <3>1, NothingOwed
  <2> QED
    BY <2>5, <2>6, <2>7
<1>5. CASE StartSeal
  <2>1. plain \in Documents /\ plain # Missing
    BY <1>2, <1>5 DEF StartSeal, IsDocument
  <2>2. cmd'.op = "seal" /\ cmd'.toPlain = Missing /\ cmd'.toRecord = plain
    BY <1>5, <2>1 DEF StartSeal, Owing
  <2> QED
    BY <1>1, <1>3, <2>2 DEF OpenInv, OwedInv
<1>6. CASE StartResolve
  <2>1. stages.ours \in Documents /\ stages.theirs \in Documents
        /\ stages.base \in Documents \cup {Missing}
    BY <1>2, <1>6 DEF StartResolve, Stages
  <2> DEFINE b == IF stages.base = Missing THEN EmptyDocument ELSE stages.base
             merged == MergeStages(b, stages.ours, stages.theirs)
  <2>2. b \in Documents
    BY <2>1, EmptyDocumentType
  <2> HIDE DEF b
  <2>3. merged \in Documents /\ merged # Missing /\ stages.ours # Missing
    BY <2>1, <2>2, MergeStagesType, DocumentIsNot
  <2>4. cmd' = Owing("resolve", merged, merged, merged)
        \/ cmd' = Owing("resolve", stages.ours, Markers, Missing)
    BY <1>6 DEF StartResolve, b
  <2> HIDE DEF merged
  <2>5. /\ cmd'.op = "resolve" /\ cmd'.toPlain # Missing
        /\ cmd'.toRecord \in {Missing, cmd'.toPlain}
    BY <2>3, <2>4, FilesAssumption DEF Owing
  <2> QED
    BY <1>3, <2>5 DEF OpenInv, OwedInv
<1>7. CASE StartConverge
  <2>1. cipher \in Documents /\ cipher # Missing
    BY <1>2, <1>7 DEF StartConverge, IsDocument
  <2>2. /\ cmd'.op = "converge" /\ cmd'.toPlain = Missing
        /\ cmd'.toCipher = cipher /\ cmd'.toRecord = cipher
    BY <1>7, <2>1 DEF StartConverge, Owing
  <2> QED
    BY <1>3, <2>1, <2>2 DEF OpenInv, OwedInv
<1> QED
  BY <1>4, <1>5, <1>6, <1>7

\* A write brings the file to what the record will say.
LEMMA WriteKeepsSync ==
  ASSUME SyncInv, WriteCiphertext \/ WritePlaintext \/ SaveBaseline \/ Die
  PROVE  OpenInv' /\ OwedInv' /\ AgreedInv'
<1> USE DEF history, files
<1>1. CASE Die
  BY <1>1, NothingOwed DEF Die, SyncInv, AgreedInv
<1>2. CASE SaveBaseline
  <2>1. /\ cmd' = Idle /\ base' = cmd.toRecord /\ clouded' = Parts \ Agreement
        /\ agreed' = [p \in Parts |-> IF p \in Agreement THEN plain[p] ELSE agreed[p]]
        /\ cmd.toCipher = Missing /\ cmd.toPlain = Missing /\ cmd.toRecord # Missing
    BY <1>2 DEF SaveBaseline
  <2>2. cmd.op \in {"open", "seal", "resolve", "converge"} /\ cmd.toRecord \in Documents
    BY <2>1 DEF SyncInv, PairInv, BusyInv, Idle, TypeOK, Commands
  <2>3. cmd.toRecord = plain \/ cmd.toRecord = cipher
    BY <2>1, <2>2 DEF SyncInv, OpenInv, OwedInv
  <2>4. \A p \in Agreement : p \in Parts /\ cmd.toRecord[p] = plain[p]
    BY <2>3 DEF Agreement
  <2>5. AgreedInv'
    BY <2>1, <2>2, <2>4, DocumentIsNot DEF AgreedInv
  <2> QED
    BY <2>1, <2>5, NothingOwed
<1>3. CASE WriteCiphertext
  <2>1. /\ cmd.toCipher # Missing /\ cipher' = cmd.toCipher
        /\ cmd' = Owing(cmd.op, Missing, cmd.toPlain, cmd.toRecord)
        /\ UNCHANGED <<plain, base, stages, agreed, clouded>>
    BY <1>3 DEF WriteCiphertext
  <2>2. cmd.op # "open"
    BY <2>1 DEF SyncInv, OpenInv
  <2>3. cmd' = Idle
        \/ (cmd'.op = cmd.op /\ cmd'.toCipher = Missing
            /\ cmd'.toPlain = cmd.toPlain /\ cmd'.toRecord = cmd.toRecord)
    BY <2>1 DEF Owing
  <2>4. OpenInv' /\ OwedInv'
    BY <2>1, <2>2, <2>3, NothingOwed DEF SyncInv, OpenInv, OwedInv
  <2> QED
    BY <2>1, <2>4 DEF SyncInv, AgreedInv
<1>4. CASE WritePlaintext
  <2>1. /\ cmd.toCipher = Missing /\ cmd.toPlain # Missing /\ plain' = cmd.toPlain
        /\ UNCHANGED <<cipher, base, stages, agreed, clouded>>
    BY <1>4 DEF WritePlaintext
  <2>2. AgreedInv'
    BY <2>1 DEF SyncInv, AgreedInv
  <2>3. CASE cmd.toRecord = Missing
    <3>1. cmd' = Idle
      BY <1>4, <2>3 DEF WritePlaintext, Owing
    <3> QED
      BY <2>2, <3>1, NothingOwed
  <2>4. CASE cmd.toRecord # Missing
    <3>1. /\ cmd'.op = cmd.op /\ cmd'.toCipher = Missing
          /\ cmd'.toPlain = Missing /\ cmd'.toRecord = cmd.toRecord
      BY <1>4, <2>4 DEF WritePlaintext, Owing
    <3>2. cmd.op \in {"open", "resolve"}
      <4>1. cmd.op # "none"
        BY <2>1 DEF SyncInv, PairInv, BusyInv, Idle
      <4> QED
        BY <2>1, <4>1 DEF SyncInv, OwedInv, PairInv, TypeOK, Commands
    <3>3. CASE cmd.op = "resolve"
      BY <2>1, <2>2, <2>4, <3>1, <3>3 DEF SyncInv, OpenInv, OwedInv
    <3>4. CASE cmd.op = "open"
      <4> DEFINE plan == PlanOpen(base, plain, cipher)
      <4>1. /\ plain \in Documents \cup {Missing} /\ cipher \in Documents
            /\ cmd.toPlain = plan.document /\ ConflictFree(plan)
            /\ cmd.toRecord = plan.document
        BY <2>1, <2>4, <3>4 DEF SyncInv, OpenInv
      <4>2. base \in Documents \cup {NoRecord}
        BY DEF SyncInv, PairInv, TypeOK
      <4>3. plain' = Synced(plain, plan) /\ plain' = cmd.toRecord
        BY <2>1, <4>1 DEF Synced
      <4>4. plain' \in Documents /\ Finished(PlanOpen(base, plain', cipher))
        BY <4>1, <4>2, <4>3, PlanAgain
      <4> HIDE DEF plan
      <4>5. plain' # Missing /\ Finished(PlanOpen(base, plain, cipher))'
        BY <2>1, <4>4, DocumentIsNot
      <4>6. OpenInv'
        BY <2>1, <3>1, <4>1, <4>3, <4>4, <4>5 DEF OpenInv
      <4> QED
        BY <2>2, <3>1, <3>4, <4>6 DEF OwedInv
    <3> QED
      BY <3>2, <3>3, <3>4
  <2> QED
    BY <2>3, <2>4
<1> QED
  BY <1>1, <1>2, <1>3, <1>4

\* Every step keeps the invariant of the undisturbed pair.
LEMMA NextKeepsSync ==
  ASSUME ~EditsWhileRunning, SyncInv, [Next]_vars
  PROVE  SyncInv'
<1>1. PairInv'
  BY NextKeepsPair DEF SyncInv
<1>2. CASE UNCHANGED vars
  BY <1>1, <1>2 DEF vars, SyncInv, OpenInv, OwedInv, AgreedInv
<1>3. CASE Next
  BY <1>1, <1>3, OthersKeepSync, StartKeepsSync, WriteKeepsSync DEF Next, CommandStep, SyncInv
<1> QED
  BY <1>2, <1>3

-----------------------------------------------------------------------------
(* The properties.                                                          *)

\* The invariant of every pair.
THEOREM PairInvariant == Spec => []PairInv
<1>1. Init => PairInv
  BY InitPairInv
<1>2. PairInv /\ [Next]_vars => PairInv'
  BY NextKeepsPair
<1> QED
  BY <1>1, <1>2, PTL DEF Spec

\* The files and the record hold documents or nothing, whatever is edited,
\* pulled, merged or interrupted when: no merge makes a document that is none.
THEOREM PairTypes == Spec => []TypeOK
<1>1. PairInv => TypeOK
  BY DEF PairInv
<1> QED
  BY <1>1, PairInvariant, PTL

\* The invariant of a pair that nobody edits while a command runs.
THEOREM SyncInvariant ==
  ASSUME ~EditsWhileRunning
  PROVE  Spec => []SyncInv
<1>1. SyncInv /\ [Next]_vars => SyncInv'
  BY NextKeepsSync
<1> QED
  BY <1>1, InitSyncInv, PTL DEF Spec

\* An open that died between its two writes finds nothing to do and no conflict
\* when it is run again (open.rs:120-137).
THEOREM OpenRecovers ==
  ASSUME ~EditsWhileRunning
  PROVE  Spec => []InterruptedOpenRecovers
<1>1. SyncInv => InterruptedOpenRecovers
  BY DEF SyncInv, OpenInv, InterruptedOpenRecovers, Finished
<1> QED
  BY <1>1, SyncInvariant, PTL

\* An open that ends without a conflict leaves apart only what the user alone has
\* changed since the pair last agreed.
THEOREM CleanOpenSynchronizes ==
  ASSUME ~EditsWhileRunning
  PROVE  Spec => []CleanOpenIsSynchronized
<1>1. SyncInv => CleanOpenIsSynchronized
  <2> SUFFICES ASSUME SyncInv, cmd.op = "open", cmd.toPlain = Missing, BothMappings,
                      NEW p \in Parts \ clouded, plain[p] # cipher[p]
               PROVE  cipher[p] = agreed[p]
    BY DEF CleanOpenIsSynchronized
  <2>1. /\ plain \in Documents /\ cipher \in Documents /\ IsMapping(plain) /\ IsMapping(cipher)
        /\ Finished(PlanOpen(base, plain, cipher)) /\ plain # Missing
    BY DEF SyncInv, OpenInv, BothMappings
  <2>2. base \in Documents /\ base[p] = agreed[p]
    BY DEF SyncInv, AgreedInv, PairInv, TypeOK
  <2>3. Disputed(base, plain, cipher) = {}
    BY <2>1 DEF PlanOpen, Finished, ConflictFree
  <2>4. Merged(base, plain, cipher) = plain
    BY <2>1, MergedType, DocumentIsNot DEF PlanOpen, Finished, ConflictFree
  <2>5. Decide(base, plain, cipher, p) = "KeepLocal"
    BY <2>1, <2>3, <2>4, MergedPart, ThreeDecisions DEF Disputed
  <2> QED
    BY <2>1, <2>2, <2>5, KeptAgainst
<1> QED
  BY <1>1, SyncInvariant, PTL

\* Open never overwrites or drops a value that was typed since the last
\* successful command and is held nowhere else (open/plan.rs arbitrate).
THEOREM FreshEditsAreKept ==
  ASSUME ~EditsWhileRunning
  PROVE  Spec => KeepsFreshEdits
<1> DEFINE A == cmd.op = "open" /\ BothMappings =>
                  \A p \in Parts :
                    /\ plain[p] \notin known[p]
                    /\ ~(plain[p] = Absent /\ base = NoRecord)
                    => plain'[p] = plain[p]
<1>1. SyncInv /\ [Next]_vars => [A]_plain
  <2> SUFFICES ASSUME SyncInv, [Next]_vars, plain' # plain, cmd.op = "open", BothMappings,
                      NEW p \in Parts, plain[p] \notin known[p],
                      ~(plain[p] = Absent /\ base = NoRecord)
               PROVE  plain'[p] = plain[p]
    OBVIOUS
  <2>1. WritePlaintext
    <3>1. cmd # Idle
      BY DEF Idle
    <3> QED
      BY <3>1
      DEF Next, vars, files, UserStep, EditPlaintext, DeletePlaintext, UserMayAct,
          GitStep, GitPull, GitMergeConflict, GitAdd, GitMergeAbort, LoseBaseline,
          CommandStep, StartOpen, StartSeal, StartResolve, StartConverge, WriteCiphertext,
          SaveBaseline, Die
  <2>2. /\ plain \in Documents /\ cipher \in Documents /\ base \in Documents \cup {NoRecord}
        /\ IsMapping(plain) /\ IsMapping(cipher) /\ plain # Missing
    BY DEF SyncInv, OpenInv, BothMappings, IsDocument, PairInv, TypeOK
  <2>3. plain' = PlanOpen(base, plain, cipher).document /\ plain' # Missing
    BY <2>1 DEF WritePlaintext, SyncInv, OpenInv
  <2>4. plain' = Merged(base, plain, cipher)
    BY <2>2, <2>3 DEF PlanOpen
  <2>5. Decide(base, plain, cipher, p) # "TakeRemote"
    <3>1. base # NoRecord => base[p] # plain[p]
      BY DEF SyncInv, PairInv, KnownInv
    <3> QED
      BY <2>2, <3>1, TakenWas
  <2> QED
    BY <2>2, <2>4, <2>5, MergedPart
<1> HIDE DEF A
<1>2. Spec => [][A]_plain
  BY <1>1, SyncInvariant, PTL DEF Spec
<1> QED
  BY <1>2 DEF KeepsFreshEdits, A
=============================================================================
