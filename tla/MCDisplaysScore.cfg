SPECIFICATION Spec
CONSTANT
  Nil = Nil
INVARIANT
  FullScoreIsEarned
CHECK_DEADLOCK FALSE
