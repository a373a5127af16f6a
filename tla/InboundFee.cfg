SPECIFICATION FairSpec
CONSTANTS
  Channels = {c1, c2, c3}
  FirstAmount = 2
  MaxInt = 8388607
  Listings <- MCListings
  Edges <- MCEdges
INVARIANTS
  TypeOK
  SplitIsPossible
  SeriesIsComplete
  NearOptimal
PROPERTY CollectEnds
CHECK_DEADLOCK FALSE
