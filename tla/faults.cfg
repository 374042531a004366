SPECIFICATION Spec
CONSTANTS
  e1 = e1
  e2 = e2
  zeros = zeros
  ones = ones
  None = None
  Entry <- OneEntry
  Value <- Values
  Zeros = zeros
  SegReg <- Regs
  Insns <- Program
  Offsets <- Starts
CHECK_DEADLOCK FALSE
INVARIANTS
  NoSystemDescriptor
  AliasTrue
  RegistersValid
  AsExecuted
  SegExecuted
PROPERTY WritesOnly
