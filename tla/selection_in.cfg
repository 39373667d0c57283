\* One selection of the client, pasted twice, lost once to an application; an
\* event of the client holds a text, and neither an image nor a chunk of it.
CONSTANTS
  None = None
  Selections = {"CLIPBOARD"}
  Skipped = {}
  Kinds = {"text", "image"}
  Size <- Copied
  ChunkUnits = 4
  EventUnits = 3
  IncrUnits = 2
  Delay = 1
  OnDemands = {TRUE}
  ClientMayOwn = TRUE
  ServerMayOwn = TRUE
  ClientKinds = {"text", "image"}
  AppKinds = {"text"}
  AppIncr = {}
  Requests = {1, 2}
  CopyBound = 2
  TimeBound = 3
  ConnBound = 1
SPECIFICATION Spec
CHECK_DEADLOCK FALSE
INVARIANTS
  TypeOK
  OneAnswer
  DataIsWhole
  RequestedIsAsked
  LossIsTold
PROPERTIES
  AnswersAreLatest
