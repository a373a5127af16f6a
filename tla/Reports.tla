------------------------------- MODULE Reports ------------------------------
(***************************************************************************)
(* The three collectors that compute something in a loop over an answer of *)
(* lnd: graph, wallet and watchtower client. A scrape runs them side by    *)
(* side, and they share nothing, so this module only brings them together: *)
(* each has its own variables, and the properties are those of one each.   *)
(***************************************************************************)
EXTENDS Integers, Sequences, FiniteSets

CONSTANTS
  Nil,            \* a policy or a tower that is not there
  GraphPolicies, MaxFloat, MaxEdges,   \* those of GraphCollector
  Values, Confirmations, MaxUtxos,     \* those of WalletCollector
  Sessions, MaxTowers, MaxSessions     \* those of WtClientCollector

VARIABLES
  gAt, gEdges, gNext, gStats, gFees, gReport, gEmitted, gCause, gRaised,
  wAt, wUtxos, wNext, wNumConf, wNumUnconf, wSum, wMaxAmt, wMinAmt, wEmitted,
  wCause, wRaised,
  tWtOn, tAt, tTowers, tNext, tSession, tNumBackups, tNumPendingBackups,
  tBackups, tCause, tRaised

gVars == <<gAt, gEdges, gNext, gStats, gFees, gReport, gEmitted, gCause,
           gRaised>>
wVars == <<wAt, wUtxos, wNext, wNumConf, wNumUnconf, wSum, wMaxAmt, wMinAmt,
           wEmitted, wCause, wRaised>>
tVars == <<tWtOn, tAt, tTowers, tNext, tSession, tNumBackups,
           tNumPendingBackups, tBackups, tCause, tRaised>>

Graph == INSTANCE GraphCollector WITH
  Policies <- GraphPolicies, at <- gAt, edges <- gEdges, next <- gNext,
  stats <- gStats, fees <- gFees, report <- gReport, emitted <- gEmitted,
  cause <- gCause, raised <- gRaised

Wallet == INSTANCE WalletCollector WITH
  at <- wAt, utxos <- wUtxos, next <- wNext, numConf <- wNumConf,
  numUnconf <- wNumUnconf, sum <- wSum, maxAmt <- wMaxAmt, minAmt <- wMinAmt,
  emitted <- wEmitted, cause <- wCause, raised <- wRaised

Towers == INSTANCE WtClientCollector WITH
  wtOn <- tWtOn, at <- tAt, towers <- tTowers,
  next <- tNext, session <- tSession, numBackups <- tNumBackups,
  numPendingBackups <- tNumPendingBackups, backups <- tBackups,
  cause <- tCause, raised <- tRaised

ASSUME GraphAssumption == Graph!PoliciesAssumption
ASSUME WalletAssumption == Wallet!ValuesAssumption
ASSUME TowersAssumption == Towers!SessionsAssumption

-----------------------------------------------------------------------------
(* Properties                                                              *)

(* The types of the three collectors                                        *)
TypesOK == Graph!TypeOK /\ Wallet!TypeOK /\ Towers!TypeOK
(* The statistics of the policies                                           *)
GraphReportIsRight == Graph!ReportIsRight
(* The histograms of the inbound fees                                       *)
GraphInboundFeesAreRight == Graph!InboundFeesAreRight
(* What is exported of the unspent outputs                                  *)
WalletUtxosAreRight == Wallet!UtxosAreRight
(* The backups of the towers                                                *)
TowersBackupsAreRight == Towers!BackupsAreRight
(* Each of the three collectors implements Scrape.                          *)
AllImplementScrape ==
  Graph!ImplementsScrape /\ Wallet!ImplementsScrape /\ Towers!ImplementsScrape
=============================================================================
