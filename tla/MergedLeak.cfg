\* Verify must find a plaintext that was committed on a branch, removed there,
\* and merged.
SPECIFICATION Spec
CONSTANTS
  Refs = {main, topic}
  Formats = {"dotenv", "json"}
  Declared = "dotenv"
  Changes <- MCLeaks
  MaxCommits = 5
SYMMETRY Symmetry
INVARIANT EveryLeakIsFound
