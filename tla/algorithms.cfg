CONSTANTS
  Near = 1
  Small = 4
  Points = 3
  MaxMatch = 2
  EvLength = 3
  ReadMax = 6
  Kinds = {"plain", "odd", "bye", "chunk", "rest"}
  EventBound = 3
  ConnBound = 2
  Types = {"frame", "repaint"}
  Threads = {"s1", "s2"}
  Payload = 2
  LengthBound = 3
  SequenceSize = 2
  PacketBound = 3
  RoundBound = 1
SPECIFICATION Spec
CHECK_DEADLOCK FALSE
INVARIANTS
  ChangesAreSent
  FramesAreRebuilt
  StreamsAreWhole
