\* The queue as linux_exec.c enters it: basic mode, no switch on the timer.
CONSTANTS
  TaskLimit = 2
  TickSpace = 4
  Requests = {}
  MayBlock = TRUE
  TimerDriven = FALSE
SPECIFICATION FairSpec
PROPERTIES
  Preempted
