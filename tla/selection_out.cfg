\* Applications and the client copy in turn, in two selections; images are read
\* incrementally.
CONSTANTS
  None = None
  Selections = {"CLIPBOARD", "PRIMARY"}
  Skipped = {}
  Kinds = {"text", "image"}
  Size <- Units
  ChunkUnits = 2
  EventUnits = 1
  IncrUnits = 2
  Delay = 1
  OnDemands = {TRUE, FALSE}
  ClientMayOwn = TRUE
  ServerMayOwn = TRUE
  ClientKinds = {"image"}
  AppKinds = {"image", "other"}
  AppIncr = {"image"}
  Requests = {}
  CopyBound = 2
  TimeBound = 1
  ConnBound = 2
SPECIFICATION Spec
CHECK_DEADLOCK FALSE
INVARIANTS
  TransfersAreWhole
  TransfersEnd
