SPECIFICATION Spec
CONSTANTS
  Err = Err
  Half = 4
  Delta = 2
  Kinds <- AllKinds
  Terms <- SomeTerms
  MaxOps = 4
  MaxTerms = 3
INVARIANTS
  Denotes
  Lawful
CHECK_DEADLOCK FALSE
