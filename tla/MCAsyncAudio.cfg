SPECIFICATION Spec
CONSTANTS
  MaxQueued = 3
  MaxFrames = 7
INVARIANTS TypeOK OffMeansEmpty QueueIsLatest FrontendDecides
PROPERTIES HeardInOrder
