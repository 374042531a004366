SPECIFICATION Spec
CONSTANTS
  s1 = s1
  s2 = s2
  MapSize = 3
  Base = {1, 2, 3}
  ForeignBase = {}
  Handle = {1, 2, 3}
  Selector <- Two
PROPERTY
  FreeFrees
