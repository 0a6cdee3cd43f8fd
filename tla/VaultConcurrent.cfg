SPECIFICATION Spec
CONSTANTS
  i1 = i1
  i2 = i2
  i3 = i3
  h1 = h1
  h2 = h2
  n1 = n1
  n2 = n2
  n3 = n3
  None = None
  Imports = {i1, i2, i3}
  Contents = {h1, h2}
  Names = {n1, n2, n3}
  Files = {"a", "a-2", "a-2-2", "b"}
  Prefixes = {"p"}
  Uploads <- MixedUploads
  Prefix <- SharedPrefix
  Candidates <- SharedCandidates
  Collisions = FALSE
  Faults <- AllFaults
CHECK_DEADLOCK FALSE
INVARIANTS NoOrphans NoLeftoverTemps
PROPERTIES ImmutableVault StoreSpec
