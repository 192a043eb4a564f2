\* An array that was shrunk to fit, and grows again.
CONSTANTS
  Nodes = {n1, n2, n3}
  Nil = Nil
  Nobody = Nobody
  Chunk = 4
  ListChunk = 2
  MaxId = 10
  Permanent = 2
  Stale = FALSE
  OutOf <- OutOfNode
SPECIFICATION Spec
INVARIANTS
  ArrayFits
CHECK_DEADLOCK FALSE
