CONSTANTS
  Units <- MCUnits
  Parents <- MCParents
  Bus <- MCBus
  KindOf <- MCKindOf
  Checked <- Root
  Chips <- MCChips
  Delay <- MCDelay
  Gap = 1
  Changes = 5
  Foreign <- I2cBus
  DiInputs = {1}
  DiWanted = {1}
  DiSettings <- MCSettings
  DoOutputs = {1}
  DoTimeout = 3
  FlInterval = 3
  FlSettle = 2
  FlWords = 2
  FlBursts = 2
  FlHost = {"a"}
  FlOffsets = {"low", "high"}
  AbReceivers = {0, 1}
  AbTransmitters = {0}
  AbWords = {1, 2}
  AbSpeeds = {0, 1}
  AbPace = 1
  AtSize = 2
  AtDeafMax = 3
  BkChannels = 2
  BkRest = 6
  BkChanges = 2
SPECIFICATION BoardSpec
INVARIANT ChainSafe
INVARIANT BoardSafe
PROPERTY AllConfigured
PROPERTY BoardAlive
