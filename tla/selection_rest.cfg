\* A client that announces what it copies, one image, and is asked for it.
CONSTANTS
  None = None
  Selections = {"CLIPBOARD"}
  Skipped = {}
  Kinds = {"text", "image"}
  Size <- Copied
  ChunkUnits = 4
  EventUnits = 3
  IncrUnits = 2
  Delay = 1
  OnDemands = {TRUE}
  ClientMayOwn = TRUE
  ServerMayOwn = TRUE
  ClientKinds = {"image"}
  AppKinds = {}
  AppIncr = {}
  Requests = {1}
  CopyBound = 1
  TimeBound = 3
  ConnBound = 1
SPECIFICATION Spec
CHECK_DEADLOCK FALSE
INVARIANTS
  NextEventHasData
