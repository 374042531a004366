SPECIFICATION Spec
CONSTANTS
  d1 = d1
  d2 = d2
  d3 = d3
  None = None
  Failed = Failed
  MaxClients = 3
  MaxCalls = 2
  have_fs = TRUE
  have_gs = FALSE
  Descriptor <- Descriptors
SYMMETRY Interchangeable
CONSTRAINT FewCalls
CHECK_DEADLOCK FALSE
INVARIANTS
  AssertHolds
  ChainTrue
  SelectorsLive
  ThunkOff
