SPECIFICATION Spec
CONSTANTS
  Requests <- NestingRequests
  CallbackRequests <- QuietCallbacks
  Abortable <- AbortReadKeys
  LdtFull = FALSE
  MaxProcs = 4
  MaxFrames = 5
  MaxClients = 3
INVARIANT ExecUnmapped
