CONSTANTS
  Blocks = {b1, b2, b3}
  Null = Null
  MaxEvents = 3
  MaxCrashes = 2
SPECIFICATION LifecycleFairSpec
INVARIANTS
  NoDanglingEvent
  FlagsMatchEvents
PROPERTIES
  ComesUpAgain
