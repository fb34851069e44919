SPECIFICATION Spec
CONSTANT Inputs <- MCInputs
INVARIANTS
  TypeOK
  InBounds
  KeptIsPaidFor
  Decodes
PROPERTY Finishes
CHECK_DEADLOCK FALSE
