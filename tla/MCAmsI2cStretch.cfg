CONSTANTS
  Bits = 2
  Ticks = 3
  Own <- MCOwn
  Devs <- OneDev
  Regs <- OneReg
  Data <- OneByte
  Retries = 2
  Stretches = 2
SPECIFICATION Spec
INVARIANT InStep
