\* Two editors: SOPS opens a second one after a content it cannot read.  One
\* other process on the socket.
SPECIFICATION Spec
CONSTANTS
  Editors = {e1, e2}
  Strays = {s1}
  Nobody = Nobody
INVARIANTS
  TypeOK
  SuccessIsOneEditor
  NothingLeftRunning
PROPERTY KeepsPromise
\* An edit that has returned is over.
CHECK_DEADLOCK FALSE
