SPECIFICATION Spec
CONSTANTS
  Channels = {c1, c2}
  FirstAmount = 2
  MaxInt = 8388607
  Listings <- MCListings
  Edges <- MCEdges
INVARIANT
  PoliciesAreRemote
CHECK_DEADLOCK FALSE
