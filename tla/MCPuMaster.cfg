CONSTANTS
  Encoders <- OneEncoder
  CountMax = 1
  LightMax = 1
  DefaultLight = 1
  Surroundings <- FastAndSpaced
  CLOCK_FREQ = 24
  Scan = 5
  Resets = 2
SPECIFICATION PanelSpec
 
INVARIANT ReleaseSafe
PROPERTY ScanAlive
PROPERTY BrightnessTaken
PROPERTY CountsToldOnce
PROPERTY TypeSettles
