\* Two connections one after the other; the thread of the first may survive.
CONSTANTS
  Crc = {c1, c2}
  Addr = {1, 2, 3}
  Senders = {11, 12}
  CacheMax = 1
  QueueBound = 2
  Null = Null
  Free = Free
SPECIFICATION FairSpec
CHECK_DEADLOCK FALSE
INVARIANTS
  TypeOK
  BusyCountsUsers
  PointersAreLive
  ClientCanDraw
  CachesAgree
PROPERTIES
  CalmSettles
