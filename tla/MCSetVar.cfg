CONSTANTS
  Width = 2
  Sources <- MCSources
  Decls <- MCDecls
SPECIFICATION ValueSpec
INVARIANTS
  HoldsLastValue
  ReadsBack
PROPERTIES
  RequestsExact
