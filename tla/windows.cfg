\* Two windows, two ids, two connections one after the other.
CONSTANTS
  w1 = w1
  w2 = w2
  i1 = i1
  i2 = i2
  s1 = s1
  s2 = s2
  Ptr <- Windows2
  Id <- Ids2
  Geom = {0, 1}
  Senders <- Threads2
  ChangeBound = 4
  Null = Null
SPECIFICATION Spec
CONSTRAINT BeforeDisorder
SYMMETRY Symmetry
CHECK_DEADLOCK FALSE
INVARIANTS
  TypeOK
  ClientFollowsList
  SettledScreenIsShown
  EntryOutlivesRequest
