\* Two paths: one requested and one listed by somebody else at the same time,
\* or both requested with only one of them protectable.
SPECIFICATION Spec
CONSTANTS
  a = a
  b = b
  Paths = {a, b}
  Requests <- MCRequests
  HandManifests <- MCManifests
  HandRules <- MCRules
  NestedRules <- MCNested
  NoFile = NoFile
  Garbage = Garbage
  Malformed = Malformed
  NoBlock = NoBlock
  RacyEdits = FALSE
INVARIANT TypeOK
PROPERTIES
  NoOverwrittenManifest
  UserRulesSurvive
  PublishedIsProtected
  ProtectionIsRetained
  RecoveryProtectsBoth
