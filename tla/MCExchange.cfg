CONSTANTS
  None = None
  Actors = {p, q}
  NetActors = {q}
  Names = {n1, n2}
  MaxCalls = 4
SPECIFICATION FairSpec
INVARIANTS TypeOK InOrder NoGap PublishHitsExchange
PROPERTIES UsedExchangeStays FanOut CleanUp NetStopEnds
