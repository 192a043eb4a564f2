\* Four objects, two names.
CONSTANTS
  Children = {o1, o2, o3, o4}
  Root = Root
  Parents <- Domains
  Holders = {o1, o2}
  Held = {o2}
  Nil = Nil
  Names = {a, b}
  MaxHierarchyDepth = 2
  MaxMade = 2
SPECIFICATION FairSpec
INVARIANTS
  TreeSound
PROPERTIES
  CallsReturn
  ImplementsHierarchy
