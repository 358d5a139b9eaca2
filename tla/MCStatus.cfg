\* status beside the other commands, on one key with two values; five labels
\* are one more than the envelopes of a document that are ever in play.
SPECIFICATION StatusSpec
CONSTANTS
  l1 = l1
  Labels = {1, 2, 3, 4, 5}
  Keys = {k1}
  Root = Root
  Residual = Residual
  Vals = {v1, v2}
  WholeVals = {}
  Layouts = {l1}
  Absent = Absent
  Missing = Missing
  NoRecord = NoRecord
  Unrenderable = {}
  Markers = Markers
  NoStages = NoStages
  DefaultLayout = l1
  MergeBases <- MCBases
  MergeTheirs <- MCTheirs
  EditsWhileRunning = FALSE
  BaselineMayVanish = TRUE
INVARIANTS
  StatusTypeOK
  CleanWasTrue
  FreshEditsAreReported
  BehindCanBeOpened
  SealAdviceIsSafe
