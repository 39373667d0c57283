\* A client that sends what it copies at once: a text, that fits in one event,
\* and an image, that does not.
CONSTANTS
  None = None
  Selections = {"CLIPBOARD"}
  Skipped = {}
  Kinds = {"text", "image"}
  Size <- Copied
  ChunkUnits = 4
  EventUnits = 3
  IncrUnits = 2
  Delay = 1
  OnDemands = {FALSE}
  ClientMayOwn = TRUE
  ServerMayOwn = TRUE
  ClientKinds = {"text", "image"}
  AppKinds = {}
  AppIncr = {}
  Requests = {1}
  CopyBound = 2
  TimeBound = 3
  ConnBound = 1
SPECIFICATION Spec
CHECK_DEADLOCK FALSE
INVARIANTS
  DataIsWhole
