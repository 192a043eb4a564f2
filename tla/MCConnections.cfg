\* Two connections, each used once; the server may stop nowhere.
CONSTANTS
  c1 = c1
  c2 = c2
  Conns = {c1, c2}
  Cases <- MCCases
  Nil = Nil
SPECIFICATION FairSpec
INVARIANTS
  PassSound
  AnswersInOrder
PROPERTIES
  Answered
  Reclaimed
