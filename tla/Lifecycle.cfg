SPECIFICATION Spec
CONSTANT Server = {"s1", "s2"}

  
PROPERTIES
  LeavingEnds
  ComesUp
CHECK_DEADLOCK FALSE
