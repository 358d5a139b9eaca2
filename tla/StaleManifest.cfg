\* Resolve must not encrypt merged content to a recipient the policy dropped.
SPECIFICATION Spec
CONSTANTS
  operator = operator
  teammate = teammate
  outsider = outsider
  Recipients <- MCRecipients
  Mine <- MCMine
  Requests <- MCRemovals
  TeamSets <- MCTeamSets
  HandEdits = {}
  Files = {f1, f2}
  Procs = {p1, p2}
  NoFile = NoFile
  Broken = Broken
  Nobody = Nobody
  EditsDuringPublication = FALSE
  GitDuringAuthorization = {}
PROPERTY MergedValuesStayWithinPolicy
