CONSTANTS
  TIMER_DELAY = 3
  ADV7613_TIMER_RESET = 2
SPECIFICATION FairSpec
PROPERTY ReadsPeriodically
