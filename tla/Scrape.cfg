SPECIFICATION Spec
CONSTANTS
  Collectors = {"chain", "channels", "wallet", "peers", "info", "wtclient", "graph"}
  MaxBeside = 3
INVARIANTS
  GapsAreExplained
  ToleratedIsNotRaised
