\* Timer-driven queue with sleeps, timed waits and event waits, and with the
\* threads of a program that clone, join and use a lock.
CONSTANTS
  TaskLimit = 3
  TickSpace = 6
  Requests = {4, 5}
  MayBlock = TRUE
  TimerDriven = TRUE
  TidWords = {w1, w2}
  Locks = {lock}
  NoAddress = NoAddress
  WaiterLimit = 2
SPECIFICATION MCSpec
INVARIANTS
  TypeOK
  OneRunner
  ResumesSavedFrame
  SleepersBlocked
  FutexBooks
PROPERTIES
  WakesOnTime
  ResultDelivered
  SleepersWake
  Preempted
  ReadyRuns
  NoWaiterDropped
  ThreadsImplementScheduler
