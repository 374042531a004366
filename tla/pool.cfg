SPECIFICATION EntrySpec
CONSTANTS
  c1 = c1
  c2 = c2
  r1 = r1
  d1 = d1
  d2 = d2
  d3 = d3
  NoSet = NoSet
  NoRoutine = NoRoutine
  None = None
  Failed = Failed
  MaxClients = 2
  CallbackSet <- Sets
  Kind = {"mouse"}
  Routine <- Routines
  Descriptor <- Descriptors
SYMMETRY Interchangeable
INVARIANTS
  CallbacksLive
  CallbacksOwned
  AliasesOwned
  EntriesAnswer
PROPERTIES
  XmsReached
  AloneRouted
