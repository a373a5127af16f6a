--------------------------- MODULE WalletCollector --------------------------
(***************************************************************************)
(* The wallet collector (collectors/wallet_collector.go): Collect asks lnd *)
(* for the unspent outputs, counts them and finds the smallest and the     *)
(* largest in one loop, then asks for the balance and for the accounts.    *)
(*                                                                         *)
(* The average is sum / (numConf + numUnconf), NaN of no output, and left  *)
(* to the three variables it is made of. Balance and key counts are        *)
(* exported as lnd has them.                                               *)
(***************************************************************************)
EXTENDS Integers, Sequences, FiniteSets, Functions

CONSTANTS
  Values,        \* of an unspent output, in satoshis
  Confirmations, \* that it may have
  MaxUtxos       \* bound: the outputs of the wallet

(* An output of the wallet is worth something: 0 stands for "none yet" in  *)
(* the loop. MCReports evaluates the assumption.                           *)
ValuesAssumption ==
  /\ Values \subseteq Nat \ {0} /\ Confirmations \subseteq Nat
  /\ MaxUtxos \in Nat

VARIABLES
  at,      \* the call Collect waits for, "loop", or "idle"
  utxos,   \* ListUnspent's answer
  next,    \* the place of the output the loop is at
  numConf, numUnconf, sum, maxAmt, minAmt,
  emitted, \* the descriptors of the metrics that are exported
  cause,   \* why the call failed that ended Collect, or "none"
  raised   \* whether it has sent an error

vars == <<at, utxos, next, numConf, numUnconf, sum, maxAmt, minAmt, emitted,
          cause, raised>>
local == <<utxos, next, numConf, numUnconf, sum, maxAmt, minAmt>>

(* Collect as module Scrape has it                                         *)
Collect == INSTANCE Scrape WITH
  Collectors <- {"wallet"}, MaxBeside <- 1,
  lnd <- "up", wtOn <- TRUE, beside <- {"wallet"},
  step <- [c \in {"wallet"} |-> CASE at = "idle" -> 0
                                  [] at \in {"ListUnspent", "loop"} -> 1
                                  [] at = "WalletBalance" -> 2
                                  [] at = "ListAccounts" -> 3],
  emitted <- [c \in {"wallet"} |-> emitted],
  cause <- [c \in {"wallet"} |-> cause],
  raised <- [c \in {"wallet"} |-> raised],
  ran <- [c \in {"wallet"} |-> at # "idle" \/ emitted # {} \/ cause # "none"]

Failures == Collect!Causes \ {"inactive"}

-----------------------------------------------------------------------------
Init ==
  /\ at = "idle"
  /\ utxos = <<>> /\ next = 1
  /\ numConf = 0 /\ numUnconf = 0 /\ sum = 0 /\ maxAmt = 0 /\ minAmt = 0
  /\ emitted = {} /\ cause = "none" /\ raised = FALSE

Begin ==
  /\ at = "idle"
  /\ at' = "ListUnspent"
  /\ utxos' = <<>> /\ next' = 1
  /\ numConf' = 0 /\ numUnconf' = 0 /\ sum' = 0 /\ maxAmt' = 0 /\ minAmt' = 0
  /\ emitted' = {} /\ cause' = "none" /\ raised' = FALSE

(* lnd answers with any outputs, in any order.                             *)
ListUnspent ==
  /\ at = "ListUnspent"
  /\ at' = "loop"
  /\ utxos' \in UNION {[1..m -> [value : Values, confs : Confirmations]] :
                         m \in 0..MaxUtxos}
  /\ UNCHANGED <<next, numConf, numUnconf, sum, maxAmt, minAmt, emitted, cause,
                 raised>>

(* mutant: both comparisons the wrong way round                            *)
ExtremesSwapped(value) ==
  /\ maxAmt' = IF value < maxAmt \/ maxAmt = 0 THEN value ELSE maxAmt
  /\ minAmt' = IF value > minAmt THEN value ELSE minAmt

(* mutant: 0 is taken for a minimum                                        *)
ExtremesFromZero(value) ==
  /\ maxAmt' = IF value > maxAmt THEN value ELSE maxAmt
  /\ minAmt' = IF value < minAmt THEN value ELSE minAmt

Extremes(value) ==
  /\ maxAmt' = IF value > maxAmt THEN value ELSE maxAmt
  /\ minAmt' = IF value < minAmt \/ minAmt = 0 THEN value ELSE minAmt

CountUtxo ==
  /\ at = "loop" /\ next \in DOMAIN utxos
  /\ LET utxo == utxos[next] IN
       /\ sum' = sum + utxo.value
       /\ IF utxo.confs = 0
          THEN numUnconf' = numUnconf + 1 /\ numConf' = numConf
          ELSE numConf' = numConf + 1 /\ numUnconf' = numUnconf
       /\ Extremes(utxo.value)
  /\ next' = next + 1
  /\ UNCHANGED <<at, utxos, emitted, cause, raised>>

ExportUtxos ==
  /\ at = "loop" /\ next \notin DOMAIN utxos
  /\ at' = "WalletBalance"
  /\ emitted' = Collect!WalletCalls[1].emits
  /\ UNCHANGED <<local, cause, raised>>

WalletBalance ==
  /\ at = "WalletBalance"
  /\ at' = "ListAccounts"
  /\ emitted' = emitted \cup {"confirmedBalanceDesc", "unconfirmedBalanceDesc"}
  /\ UNCHANGED <<local, cause, raised>>

(* The counts of the keys of every account, those that are not 0           *)
ListAccounts ==
  /\ at = "ListAccounts"
  /\ at' = "idle"
  /\ emitted' = emitted \cup {"keyCountDesc"}
  /\ UNCHANGED <<local, cause, raised>>

(* mutant: the error of WalletBalance does not end Collect                 *)
FailsWithoutReturn(err) ==
  /\ at \in {"ListUnspent", "WalletBalance", "ListAccounts"}
  /\ at' = IF at = "WalletBalance" THEN "ListAccounts" ELSE "idle"
  /\ cause' = err /\ raised' = TRUE
  /\ UNCHANGED <<local, emitted>>

(* A call fails: the error is sent, and Collect returns.                   *)
Fails(err) ==
  /\ at \in {"ListUnspent", "WalletBalance", "ListAccounts"}
  /\ at' = "idle" /\ cause' = err /\ raised' = TRUE
  /\ UNCHANGED <<local, emitted>>

Next ==
  \/ Begin \/ ListUnspent \/ CountUtxo \/ ExportUtxos \/ WalletBalance
  \/ ListAccounts \/ \E err \in Failures : Fails(err)

Spec == Init /\ [][Next]_vars

-----------------------------------------------------------------------------
(* Properties                                                              *)

(* The types; the smallest output is not larger than the largest.          *)
TypeOK ==
  /\ at \in {"idle", "ListUnspent", "loop", "WalletBalance", "ListAccounts"}
  /\ utxos \in Seq([value : Values, confs : Confirmations])
  /\ next \in 1..Len(utxos) + 1
  /\ numConf \in Nat /\ numUnconf \in Nat /\ sum \in Nat
  /\ minAmt <= maxAmt
  /\ emitted \subseteq Collect!All(Collect!WalletCalls)
  /\ cause \in Failures \cup {"none"} /\ raised \in BOOLEAN

(* What is exported of the outputs does not depend on their order: the     *)
(* smallest and the largest are there and nothing is beyond them, each     *)
(* output counts once, as confirmed or not, and the sum is theirs. 0 is    *)
(* exported for the smallest only by a wallet that has none.               *)
UtxosAreRight ==
  "minUtxoSizeDesc" \in emitted =>
    LET amounts == {utxos[i].value : i \in DOMAIN utxos} IN
    /\ IF utxos = <<>>
       THEN minAmt = 0 /\ maxAmt = 0
       ELSE minAmt \in amounts /\ maxAmt \in amounts
    /\ amounts \subseteq minAmt..maxAmt
    /\ numConf + numUnconf = Len(utxos)
    /\ numConf = Cardinality({i \in DOMAIN utxos : utxos[i].confs > 0})
    /\ sum = SumFunction([i \in DOMAIN utxos |-> utxos[i].value])

(* The collector does what Scrape says of it: it exports all that an       *)
(* answer gives or stops at the call that fails, with an error.            *)
ImplementsScrape == Collect!Spec
=============================================================================
