\* The manual page against a SIGTERM on top of a critical section.
CONSTANTS
  MainThread = MainThread
  Free = Free
  Conns <- TwoConns
  SignalBound = 2
  LeakBound = 1
SPECIFICATION FairSpec
CHECK_DEADLOCK FALSE
PROPERTY TermShutsDown
