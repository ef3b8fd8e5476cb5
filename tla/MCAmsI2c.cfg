CONSTANTS
  Bits = 2
  Ticks = 3
  Own <- MCOwn
  Devs <- MCDevs
  Regs <- MCRegs
  Data <- MCData
  Retries = 2
  Stretches = 0
SPECIFICATION FairSpec
INVARIANT BridgeSafe
PROPERTY ServesAccess
PROPERTY DataStableWhileHigh
PROPERTY CallDone
PROPERTY CallReturns
