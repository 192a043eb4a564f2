\* One socket: its number is given out again as soon as it is closed.
CONSTANTS
  Channels = {c1, c2}
  Elems = {e1, e2, e3}
  Nil = Nil
  MaxSocket = 1
  MaxAddrs = 2
SPECIFICATION AresFairSpec
INVARIANTS
  ListAndSocketsSound
PROPERTIES
  LookupEnds
  Reclaimed
  WorkerStops
