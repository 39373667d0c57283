CONSTANTS
  Widths = {1, 2}
  Contents = {0, 1}
  Black = 0
  RequestBound = 6
SPECIFICATION FairSpec
CHECK_DEADLOCK FALSE
INVARIANTS
  TypeOK
  SettledIsShown
  LossIsMarked
  FaultsAreKnown
PROPERTIES
  QuietRefines
