SPECIFICATION Spec
CONSTANTS
  f1 = f1
  f2 = f2
  r1 = r1
  Keys <- MCKeys
  KeyType <- MCKeyType
  Chans <- MCChans
  Reasons <- MCReasons
  ReasonLabel <- MCReasonLabel
  NoReason = ""
  FailedBack = "failed_back"
  MaxEvents = 4
SYMMETRY Symmetric
INVARIANTS
  TypeOK
  ActiveMatchesLog
  ResolvedMatchesLog
  HistogramMatchesLog
  NoLeak
