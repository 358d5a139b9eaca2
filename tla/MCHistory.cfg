\* Every history of a few commits on two branches, scanned at any time.
SPECIFICATION Spec
CONSTANTS
  Refs = {main, topic}
  Formats = {"dotenv", "json"}
  Declared = "dotenv"
  Changes <- MCChanges
  MaxCommits = 5
SYMMETRY Symmetry
INVARIANTS
  TypeOK
  OnlyMergesHide
  CleanRangeBringsOnlyDropped
