CONSTANTS
  MlPanels = {0, 1, 2, 3}
  EDP_TIMEOUT = 5
  MlFaultMax = 2
  LcInputs = {2}
  LcLayers = {1}
  LAYER_TIMEOUT = 3
SPECIFICATION Spec
INVARIANT MlSafe
INVARIANT LcSafe
PROPERTY LcHolds
PROPERTY FirmwareLive
