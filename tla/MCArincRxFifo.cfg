CONSTANTS
  Top <- MCTop
  Lo <- MCLo
  Modes <- FifoMode
  ParityOff = FALSE
  PolledHost = FALSE
SPECIFICATION FairSpec
INVARIANT RxSafe
PROPERTY IsFifo
PROPERTY WordTaken
