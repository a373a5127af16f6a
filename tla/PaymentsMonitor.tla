--------------------------- MODULE PaymentsMonitor --------------------------
(***************************************************************************)
(* The payments monitor (collectors/payments_collector.go): a goroutine    *)
(* that reads lnd's finished payments from a stream and updates three      *)
(* metrics for each, one after the other, while a scrape reads them, also  *)
(* one after the other and in any order, with no lock over either.         *)
(*                                                                         *)
(* The stream is a log that only grows, of which a monitor sees what comes *)
(* after its subscription. The metrics live as long as the process. How    *)
(* the goroutine is stopped, and its error, are in module Exporter.        *)
(***************************************************************************)
EXTENDS Naturals, Sequences, FiniteSets, Functions

CONSTANTS
  Statuses,    \* the states in which lnd may report a payment
  Attempts,    \* the numbers of attempts that a payment may take
  MaxPayments  \* bound: the length of the log

ASSUME PaymentsAssumption == Attempts \subseteq Nat /\ MaxPayments \in Nat

VARIABLES
  log,       \* the payments lnd has finished
  base,      \* length of the log when the monitor subscribed
  n,         \* how far the monitor has read
  pc,        \* where the goroutine is
  payments,  \* totalPayments
  attempts,  \* totalHTLCAttempts
  histogram, \* paymentAttempts: count and sum
  todo,      \* the metrics that the running scrape has yet to read
  seen,      \* what it has read of the others
  began      \* history: the metrics when it began

vars == <<log, base, n, pc, payments, attempts, histogram, todo, seen, began>>
metrics == <<payments, attempts, histogram>>
scrape == <<todo, seen, began>>

Labels == {"succeeded", "failed", "unknown"}
Label(status) == CASE status = "SUCCEEDED" -> "succeeded"
                   [] status = "FAILED"    -> "failed"
                   [] OTHER                -> "unknown"

(* A metric by its vector and label; the histogram is read at once.        *)
Metrics == {"payments", "attempts"} \X Labels \cup {<<"histogram", "all">>}

None == [payments |-> [l \in Labels |-> 0], attempts |-> [l \in Labels |-> 0],
         histogram |-> [count |-> 0, sum |-> 0]]
Current == [payments |-> payments, attempts |-> attempts, histogram |-> histogram]
Values == [payments : [Labels -> Nat], attempts : [Labels -> Nat],
           histogram : [count : Nat, sum : Nat]]

(* The types; the goroutine is between two updates only with a payment.    *)
TypeOK ==
  /\ log \in Seq([status : Statuses, attempts : Attempts])
  /\ base \in Nat /\ n \in Nat /\ base <= n /\ n <= Len(log)
  /\ pc \in {"off", "receiving", "counted", "added", "failed"}
  /\ pc \in {"counted", "added"} => n > base
  /\ Current \in Values /\ seen \in Values /\ began \in Values
  /\ todo \subseteq Metrics

Init ==
  /\ log = <<>> /\ base = 0 /\ n = 0 /\ pc = "off"
  /\ payments = None.payments /\ attempts = None.attempts
  /\ histogram = None.histogram
  /\ todo = {} /\ seen = None /\ began = None

-----------------------------------------------------------------------------
LndFinishes ==
  /\ Len(log) < MaxPayments
  /\ \E s \in Statuses, a \in Attempts :
       log' = Append(log, [status |-> s, attempts |-> a])
  /\ UNCHANGED <<base, n, pc, metrics, scrape>>

(* mutant: the payments so far are delivered as well                       *)
StartFromBeginning ==
  /\ pc = "off"
  /\ pc' = "receiving"
  /\ base' = Len(log) /\ n' = 0
  /\ UNCHANGED <<log, metrics, scrape>>

Start ==
  /\ pc = "off"
  /\ pc' = "receiving"
  /\ base' = Len(log) /\ n' = Len(log)
  /\ UNCHANGED <<log, metrics, scrape>>

(* The stream fails.                                                       *)
End ==
  /\ pc = "receiving"
  /\ pc' = "failed"
  /\ UNCHANGED <<log, base, n, metrics, scrape>>

(* The process ends, at any point, and a new one begins with new metrics.  *)
Restart ==
  /\ pc # "off"
  /\ pc' = "off"
  /\ payments' = None.payments /\ attempts' = None.attempts
  /\ histogram' = None.histogram
  /\ todo' = {} /\ seen' = None /\ began' = None
  /\ UNCHANGED <<log, base, n>>

-----------------------------------------------------------------------------
(* processPaymentUpdate: its three updates                                 *)
payment == log[n]

(* mutant: a payment that is neither succeeded nor failed is waited for    *)
CountFinalPayment ==
  /\ pc = "receiving" /\ n < Len(log)
  /\ Label(log[n + 1].status) # "unknown"
  /\ n' = n + 1
  /\ pc' = "counted"
  /\ payments' = [payments EXCEPT ![Label(log[n + 1].status)] = @ + 1]
  /\ UNCHANGED <<log, base, attempts, histogram, scrape>>

CountPayment ==
  /\ pc = "receiving" /\ n < Len(log)
  /\ n' = n + 1
  /\ pc' = "counted"
  /\ payments' = [payments EXCEPT ![Label(log[n + 1].status)] = @ + 1]
  /\ UNCHANGED <<log, base, attempts, histogram, scrape>>

(* mutant: the vector is set to the attempts of the last payment           *)
SetAttempts ==
  /\ pc = "counted"
  /\ pc' = "added"
  /\ attempts' = [attempts EXCEPT ![Label(payment.status)] = payment.attempts]
  /\ UNCHANGED <<log, base, n, payments, histogram, scrape>>

(* mutant: without the attempts of failed payments                         *)
AddAttemptsOfSucceeded ==
  /\ pc = "counted"
  /\ pc' = "added"
  /\ attempts' = IF payment.status = "SUCCEEDED"
                 THEN [attempts EXCEPT !["succeeded"] = @ + payment.attempts]
                 ELSE attempts
  /\ UNCHANGED <<log, base, n, payments, histogram, scrape>>

AddAttempts ==
  /\ pc = "counted"
  /\ pc' = "added"
  /\ attempts' = [attempts EXCEPT ![Label(payment.status)] = @ + payment.attempts]
  /\ UNCHANGED <<log, base, n, payments, histogram, scrape>>

Observe ==
  /\ pc = "added"
  /\ pc' = "receiving"
  /\ histogram' = [count |-> histogram.count + 1,
                   sum   |-> histogram.sum + payment.attempts]
  /\ UNCHANGED <<log, base, n, payments, attempts, scrape>>

-----------------------------------------------------------------------------
(* A scrape: the registry's gathering of the three collectors              *)
ScrapeBegins ==
  /\ todo = {} /\ pc # "off"
  /\ todo' = Metrics
  /\ seen' = None /\ began' = Current
  /\ UNCHANGED <<log, base, n, pc, metrics>>

ScrapeReads(m) ==
  /\ m \in todo
  /\ todo' = todo \ {m}
  /\ seen' = IF m[1] = "histogram" THEN [seen EXCEPT !.histogram = histogram]
             ELSE [seen EXCEPT ![m[1]][m[2]] = Current[m[1]][m[2]]]
  /\ UNCHANGED <<log, base, n, pc, metrics, began>>

Next ==
  \/ LndFinishes \/ Start \/ End \/ Restart
  \/ CountPayment \/ AddAttempts \/ Observe
  \/ ScrapeBegins \/ \E m \in Metrics : ScrapeReads(m)

Spec == Init /\ [][Next]_vars

(* The goroutine goes on: what lnd has sent is received, and a payment     *)
(* that is received is processed. Nothing is assumed of lnd, of scrapes or *)
(* of who restarts the process.                                            *)
FairSpec == Spec /\ WF_vars(CountPayment) /\ WF_vars(AddAttempts)
                 /\ WF_vars(Observe)

-----------------------------------------------------------------------------
(* Properties                                                              *)

(* The payments the goroutine is done with, after each of its updates      *)
Window(to) == IF pc = "off" THEN {} ELSE base + 1 .. to
Under(l, to) == {i \in Window(to) : Label(log[i].status) = l}
SumAttempts(S) == SumFunction([i \in S |-> log[i].attempts])
Added == IF pc = "counted" THEN n - 1 ELSE n
Observed == IF pc \in {"counted", "added"} THEN n - 1 ELSE n

(* The metrics are what the payments since the subscription add up to, up  *)
(* to the one that is being processed.                                     *)
MetricsMatchLog ==
  /\ \A l \in Labels : /\ payments[l] = Cardinality(Under(l, n))
                       /\ attempts[l] = SumAttempts(Under(l, Added))
  /\ histogram.count = Cardinality(Window(Observed))
  /\ histogram.sum = SumAttempts(Window(Observed))

Total(f) == f["succeeded"] + f["failed"] + f["unknown"]

(* However a scrape and the updates interleave, what the scrape reads in   *)
(* different places differs by no more than what was processed meanwhile   *)
(* and the payment in process when it began: a dashboard that divides      *)
(* attempts by payments is wrong by those at most.                         *)
ScrapeIsClose ==
  LET meanwhile == Total(payments) - began.histogram.count IN
  todo = {} =>
    /\ seen.histogram.count <= Total(seen.payments) + meanwhile
    /\ Total(seen.payments) <= seen.histogram.count + meanwhile
    /\ began.histogram.sum <= Total(seen.attempts)
    /\ Total(seen.attempts) <= Total(attempts)

(* Every payment that lnd finishes while the monitor is subscribed gets    *)
(* into all three metrics in the end, whatever its status is, unless the   *)
(* stream fails or the process ends first.                                 *)
EveryPaymentIsObserved ==
  \A i \in 1..MaxPayments :
    (i \in Window(Len(log))) ~>
      (i \in Window(Observed) \/ pc \in {"off", "failed"})
=============================================================================
