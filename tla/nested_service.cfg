SPECIFICATION Spec
CONSTANTS
  Requests <- NestingRequests
  CallbackRequests <- NoisyCallbacks
  Abortable <- NoRequests
  LdtFull = FALSE
  MaxProcs = 2
  MaxFrames = 3
  MaxClients = 1
INVARIANT NoNestedMapping
