\* An ARGB cursor and a bitmap cursor, two connections one after the other.
CONSTANTS
  Cursor = {1, 2}
  Argb = {1}
  Senders = {11, 12}
  QueueBound = 2
  Null = Null
SPECIFICATION FairSpec
CONSTRAINT BeforeOverlap
CHECK_DEADLOCK FALSE
INVARIANTS
  TypeOK
  ReferencesResolve
  SentListIsExact
  LastCursorIsShown
  ImagesFitClient
PROPERTY
  CursorsAreDelivered
