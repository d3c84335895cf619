CONSTANT
  Patience <- MCPatience
CHECK_DEADLOCK FALSE
SPECIFICATION Spec
INVARIANT
  InterruptedEndsWell
