CONSTANTS
  VcIrqs = {1, 2}
  VcGo = 0
  VcBanks = {1, 2}
  VcModes = {mode}
  VcFields = 2
  VcJunk = junk
  VsSets = {s1, s2}
  VsTaps <- MCTaps
  VsPhases <- MCPhases
  VsNone = unwritten
  VmInputs = 2
  VmWords = {1}
  VmReset = 99
  VqMax = 24
  VqScale = 8
  VqValues <- MCValues
  VqBits = {0, 1, 2}
  VqTaps <- MCTapCounts
  VqSizes <- MCSizes
  ViFormats <- MCPictures
  ViSignals = {"stable", "valid", "locked"}
  ClSize = 2
  StBytes = {0, 90, 255}
  StMoves = 1
SPECIFICATION Spec
INVARIANT ObjectsSafe
 
 
PROPERTY VcSeenFirst
CHECK_DEADLOCK FALSE
