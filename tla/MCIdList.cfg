\* Three nodes of four relations.  Memory may be missing, and clients search
\* for deleted objects, too.
CONSTANTS
  Nodes = {n1, n2, n3}
  Nil = Nil
  Nobody = Nobody
  Chunk = 4
  ListChunk = 2
  MaxId = 10
  Permanent = 2
  Stale = TRUE
  OutOf <- OutOfBoth
SPECIFICATION FairSpec
INVARIANTS
  NodesSound
PROPERTIES
  SearchEnds
  ImplementsMap
CHECK_DEADLOCK FALSE
