CONSTANTS
  BUF_LEN = 3
  JtFifo = 1
  JtMax = 4
  JtTimeouts = {2}
  JtForever = 3
  HaAlarms = {a1, a2}
  HaList = list
  HaRoll = 6
  HaDelays = {0, 2, 4}
  HaAgain = {1, 5}
  HiNirq = 3
  HiRaises = 3
  HiCalls = 3
SPECIFICATION Spec
INVARIANT UartAndAlarmsSafe
INVARIANT HiSafe
PROPERTY InterruptsLive
CHECK_DEADLOCK FALSE
