\* One recipient is being removed while seals run and commands keep dying.
SPECIFICATION RemovalSpec
CONSTANTS
  operator = operator
  teammate = teammate
  outsider = outsider
  Recipients <- MCRecipients
  Mine <- MCMine
  Requests <- MCRemovals
  TeamSets <- MCTeamSets
  HandEdits = {}
  Files = {f1, f2}
  Procs = {p1, p2}
  NoFile = NoFile
  Broken = Broken
  Nobody = Nobody
  EditsDuringPublication = FALSE
  GitDuringAuthorization = {}
PROPERTY RemovalConverges
