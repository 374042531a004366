SPECIFICATION Spec
CONSTANTS
  p1 = p1
  p2 = p2
  p4 = p4
  h1 = h1
  l1 = l1
  u1 = u1
  e1 = e1
  s1 = s1
  s2 = s2
  Home = p1
  MadePsp <- Made
  OtherPsp <- Others
  HighPsp <- High
  HomeEnv = e1
  LowDta <- Low
  HighDta <- Users
  Selector <- Selectors
  MapSize = 2
  StandIn = StandIn
  Zero = Zero
  Other = Other
  Absent = Absent
  Taken = Taken
  None = None
  Bad = Bad
SYMMETRY Alike
VIEW NoAnswer
CONSTRAINT FewStrange
INVARIANTS
  MapSound
PROPERTIES
  EnvPassed
  PspAnswered
  DtaAnswered
