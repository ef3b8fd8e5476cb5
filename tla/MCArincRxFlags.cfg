CONSTANTS
  Top <- MCTop
  Lo <- MCLo
  Modes <- AddressMode
  ParityOff = FALSE
  PolledHost = TRUE
SPECIFICATION Spec
INVARIANT FlagMeansReceived
