SPECIFICATION Spec
CONSTANTS
  ActionLens <- MCActionLens
  Contents <- MCContents
  Junk = {0, 255}
INVARIANTS
  HostOrder
  WireOrder
  
