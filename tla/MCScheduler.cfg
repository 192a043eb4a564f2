\* Two objects; the clock may be set, and times that have passed be asked for.
CONSTANTS
  Objects = {o1, o2}
  NoObj = NoObj
  MaxTime = 4
  MaxSpan = 2
  MaxSleep = 2
  ClockMayJump = TRUE
  PastTimes = TRUE
SPECIFICATION FairSpec
INVARIANTS
  QueueSound
  NextEventTimeExact
PROPERTIES
  NewcomerGoesLast
  NoOversleep
  ImplementsTimers
  DueEventServed
