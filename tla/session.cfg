\* Three clients one after the other and two signals at any time.
CONSTANTS
  MainThread = MainThread
  Free = Free
  Conns <- ThreeConns
  SignalBound = 2
  LeakBound = 1
SPECIFICATION FairSpec
CHECK_DEADLOCK FALSE
INVARIANTS
  TypeOK
  WaitingHasTimer
  ListenerIsAwaited
  ClientIsServed
  OneSender
PROPERTIES
  KeepsPromise
  NoThreadLingers
  WaitingEnds
