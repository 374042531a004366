SPECIFICATION Spec
CONSTANTS
  Requests <- SweepRequests
  CallbackRequests <- NoisyCallbacks
  Abortable <- NoRequests
  LdtFull = TRUE
  MaxProcs = 2
  MaxFrames = 3
  MaxClients = 1
INVARIANTS
  AppMappingSafe
  FrameReleased
PROPERTY
  RegistersRestored
