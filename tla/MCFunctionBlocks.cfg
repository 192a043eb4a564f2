\* A project with two blocks and one with a chart; clients act twice.
CONSTANTS
  U = U  I = I  A = A  B = B  C = C  p = p  q = q  c1 = c1  c2 = c2
  NoObject = NoObject  NoElement = NoElement
  Tasks = {U, I}
  Blocks = {A, B}
  Charts = {C}
  Ports = {p, q}
  UrTask = U
  InTask <- MCInTask
  InPorts <- MCInPorts
  OutPorts <- MCOutPorts
  Connections = {c1, c2}
  Bad = 2
  Values = {0, 1, 2}
  Layouts <- MCLayouts
  CycleTimes = {0, 1, 3}
  ExactTimes = {1}
  Second = 1
  Modes <- MCModes
  Movable = {A, B, I}
  Wrap = 3
  RunLength = 12
  Times <- MCTimes
  MaxOps = 2
SPECIFICATION FairSpec
INVARIANTS
  ElementsCurrent
  OutputsFollow
PROPERTIES
  PhaseKept
  Served
  ValuesArrive
