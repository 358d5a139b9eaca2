\* Every order of two edits in either clone, in each of the formats, and what
\* comes of merging them, once or twice.
SPECIFICATION Spec
CONSTANTS
  a = a
  b = b
  c = c
  v1 = v1
  v2 = v2
  s1 = s1
  s2 = s2
  r1 = r1
  r2 = r2
  Keys = {a, b, c}
  Vals = {v1, v2}
  Styles = {s1, s2}
  Rests = {r1, r2}
  DefaultStyle = s1
  NoKey = NoKey
  NoItem = NoItem
  Clash = Clash
  MaxEdits = 2
  FirstTexts <- MCFirstTexts
INVARIANTS
  OneSidedEditsAreTaken
  LayoutCoversValues
  SidesAreEqual
  MovesAreKept
\* The edits are used up, or a conflict is left to the user.
CHECK_DEADLOCK FALSE
