\* Two generations for one destination.
SPECIFICATION Spec
CONSTANTS
  Callers = {g1, g2}
  User = user
  Nothing = Nothing
  Room = 1
  Outputs <- MCOutputs
INVARIANTS
  TypeOK
  PublishedIsKept
  PublishedIsUsable
  NoSecretLeftBehind
PROPERTY EveryGenerationEnds
