\* Open must keep a part that only the plaintext changed.
SPECIFICATION Spec
CONSTANTS
  l1 = l1
  l2 = l2
  Keys = {k1}
  Root = Root
  Residual = Residual
  Vals = {v1, v2}
  WholeVals = {}
  Layouts = {l1, l2}
  Absent = Absent
  Missing = Missing
  NoRecord = NoRecord
  Unrenderable <- MCUnrenderable
  Markers = Markers
  NoStages = NoStages
  DefaultLayout = l1
  MergeBases <- MCBases
  MergeTheirs <- MCTheirs
  EditsWhileRunning = FALSE
  BaselineMayVanish = FALSE
SYMMETRY Symmetry
PROPERTY PlaintextOnlyChangesRemain
