SPECIFICATION Spec
CONSTANT Templates <- Small
INVARIANTS
  SendFits
CHECK_DEADLOCK FALSE
