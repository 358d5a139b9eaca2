\* Two processes on two files, every order of their steps, crashes included.
SPECIFICATION Spec
CONSTANTS
  operator = operator
  teammate = teammate
  outsider = outsider
  Recipients <- MCRecipients
  Mine <- MCMine
  Requests <- MCRequests
  TeamSets <- MCTeamSets
  HandEdits <- MCHandEdits
  Files = {f1, f2}
  Procs = {p1, p2}
  NoFile = NoFile
  Broken = Broken
  Nobody = Nobody
  EditsDuringPublication = FALSE
  GitDuringAuthorization = {f2}
SYMMETRY Symmetry
INVARIANTS
  TypeOK
  NoUnnamedGrant
  OnlyRecipientsHoldTheKey
PROPERTIES
  ChangesOnlyInItsDirection
  NoOverwrittenManifest
