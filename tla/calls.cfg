SPECIFICATION Spec
CONSTANTS
  p1 = p1
  p2 = p2
  p3 = p3
  Nobody = Nobody
  Program <- MCProgram
  is_32 <- MCIs32
  MaxDepth = 4
CHECK_DEADLOCK FALSE
INVARIANT AloneAnswered
PROPERTY
  RoutineOnCaller
