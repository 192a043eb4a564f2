\* Two parents, four children, and three links of an n:m association.
CONSTANTS
  c1 = c1
  c2 = c2
  c3 = c3
  c4 = c4
  b1 = b1
  b2 = b2
  b3 = b3
  Parents = {p1, p2}
  Children = {c1, c2, c3, c4}
  Nil = Nil
  Name <- Names
  Blocks = {b1, b2, b3}
SYMMETRY Symmetry
SPECIFICATION Spec
INVARIANTS
  LinksSound
  OKMeansInPlace
  OtherSideKept
PROPERTIES
  ImplementsSequences
