\* Two agents that claim one name, with two faults.
CONSTANTS
  a1 = a1
  a2 = a2
  n1 = n1
  Agents = {a1, a2}
  Names = {n1}
  Idents <- MCIdents
  Retry = 1
  Period = 2
  Slow = 3
  TTL = 2
  Linger = 4
  ClientTimeout = 2
  Nothing = Nothing
  MaxOut = 2
  MaxFaults = 2
SPECIFICATION FairSpec
INVARIANTS
  RegisteredIsListed
PROPERTIES
  ListSettles
