SPECIFICATION CarefulSpec
CONSTANTS
  s1 = s1
  s2 = s2
  MapSize = 2
  Base = {1, 2, 3}
  ForeignBase = {9}
  Handle = {1, 2, 3, 4}
  Selector <- Two
INVARIANTS
  MapTrue
  SegmentsLive
PROPERTY
  MemorySpec
