SPECIFICATION Spec
CONSTANTS
  i1 = i1
  i2 = i2
  i3 = i3
  h1 = h1
  h2 = h2
  n1 = n1
  n2 = n2
  n3 = n3
  None = None
  Imports = {i1, i2}
  Contents = {h1, h2}
  Names = {n1, n2}
  Files = {"a", "a-2", "a-2-2", "b"}
  Prefixes = {"p"}
  Uploads <- AnyUploads
  Prefix <- SharedPrefix
  Candidates <- SharedCandidates
  Collisions = TRUE
  Faults <- NoFaults
CHECK_DEADLOCK FALSE
INVARIANTS RevisionsIntact
