SPECIFICATION Spec
CONSTANTS
  MaxChunks = 4
  Cap = 2
  MaxTerms = 2
CHECK_DEADLOCK FALSE
INVARIANTS
  TypeOK
  ShownInOrder
PROPERTY AcksLedger
