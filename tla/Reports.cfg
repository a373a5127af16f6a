SPECIFICATION Spec
CONSTANTS
  Nil = Nil
  GraphPolicies <- MCPolicies
  MaxFloat = 9
  MaxEdges = 3
  Values = {1, 2, 5}
  Confirmations = {0, 1, 6}
  MaxUtxos = 4
  Sessions <- MCSessions
  MaxTowers = 3
  MaxSessions = 2
INVARIANTS
  TypesOK
  GraphReportIsRight
  GraphInboundFeesAreRight
  WalletUtxosAreRight
  TowersBackupsAreRight
PROPERTY AllImplementScrape
