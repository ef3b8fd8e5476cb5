CONSTANTS
  Top <- MCTop
  Lo <- MCLo
  Modes <- BothModes
  ParityOff = FALSE
  PolledHost = TRUE
SPECIFICATION OneModeSpec
 
PROPERTY ExactlyOnce
 
