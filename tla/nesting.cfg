SPECIFICATION FairSpec
CONSTANTS
  Requests <- NestingRequests
  CallbackRequests <- QuietCallbacks
  Abortable <- QuietAborts
  LdtFull = FALSE
  MaxProcs = 4
  MaxFrames = 6
  MaxClients = 3
INVARIANTS
  BufferHeld
  IoBufferHeld
  NoErrors
  ClientHeld
  EnvSound
PROPERTIES
  FrameEventuallyReleased
  BufferSpec
