SPECIFICATION CornerSpec
CONSTANTS
  Browsers = {b1, b2}
  BufferLimit = 2
  MaxRuns = 2
  MaxSeq = 2
  MaxOffers = 2
  MaxRequests = 2
  MaxDrops = 1
  Main = b1
  MaxAsked = 2
INVARIANTS
  TranscriptIsFaithful
  CardsAreOpen
CHECK_DEADLOCK FALSE
PROPERTIES
  EndsAreOwn
  BusyEnds
