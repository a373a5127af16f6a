SPECIFICATION FairSpec
CONSTANTS
  Statuses = {"SUCCEEDED", "IN_FLIGHT"}
  Attempts = {0, 2}
  MaxPayments = 2
INVARIANTS
  TypeOK
  MetricsMatchLog
  ScrapeIsClose
PROPERTY EveryPaymentIsObserved
