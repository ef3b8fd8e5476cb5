CONSTANTS
  HfCallers = {main, task}
  ALT_MAX_FD = 5
  HfDevices = {"/dev/null", "uart"}
  HfFilesystems = {fs}
  HfConsole = "uart"
  HfNone = none
  HcWord = 16
  ALT_US = 6
  HcRate = 2
  HcTimes = {0, 1, 2}
  HcSleeps = {0, 1, 2, 3, 5, 6, 7}
  HcIntMax = 7
  HcMhz = 5
  HcCycles = 2
  HpFuncs = {f}
  HpCallers = {p, q}
  HpEntry = 12
  MCOUNT_SLAB_INCREMENT = 28
  HpHistogram = 6
  HpMallocs = {6}
  HpLimit = 100
  HpMaxCalls = 3
  IoCallers = {main, task}
  IoFds = {0, 1, 3}
  IoOpened = 3
  IoPresent = {0, 1}
  DvNames <- MCNames
  DvMax = 2
  DvSlash = "/"
  DvNul = "0"
  DvBeyond = {"/", "a", "0"}
  LgNibbles = 2
  LgWidths <- MCWidths
  LgFormats <- MCFormats
  LgFifo = 2
  LgMessages = 2
  LgTexts <- MCTexts
  ECHO_LEN = 3
  INTERVAL = 2
  LgTicks = 7
  HkLine = 2
  HkLines = 5
  HkSets = 2
  HkLengths = {0, 1, 2, 3, 5, 6}
  HkSections <- MCSections
  HsBuilds <- MCBuilds
  HsLists <- MCLists
  HsFifo = 3
  HsMessage = 2
  HsCauses = {3, 6}
SPECIFICATION Spec
 
 
INVARIANT DriverCallsSafe
INVARIANT StartSafe
 
PROPERTY HcKept
 
CHECK_DEADLOCK FALSE
