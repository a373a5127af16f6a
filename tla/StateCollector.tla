--------------------------- MODULE StateCollector ---------------------------
(***************************************************************************)
(* The state collector (collectors/state_collector.go): how long lnd took  *)
(* from its unlocking to being active, measured by a goroutine that        *)
(* listens to lnd's changes of state and exported by Collect.              *)
(*                                                                         *)
(* Time is a counter that only Tick moves, bounded by MaxTime; everything  *)
(* else happens within an instant or across several. 0 is the zero time.   *)
(* The mutex makes Record and Collect atomic.                              *)
(***************************************************************************)
EXTENDS Naturals, Sequences

CONSTANT MaxTime
ASSUME MaxTimeAssumption == MaxTime \in Nat \ {0}

VARIABLES
  now,
  lnd,              \* lnd's state
  reached,          \* history: when lnd reached each state, or 0
  updates,          \* states that the subscription has yet to deliver
  monitor,          \* where the goroutine is
  state,            \* the state it has received last
  programStartTime,
  unlockTime,
  endTime,
  exported          \* history: the metrics that scrapes have been given

vars == <<now, lnd, reached, updates, monitor, state, programStartTime,
          unlockTime, endTime, exported>>
times == <<programStartTime, unlockTime, endTime>>

States == <<"locked", "unlocked", "rpcActive", "serverActive">>
Instants == 0..MaxTime

(* The types; the program starts, connects and records in this order.      *)
TypeOK ==
  /\ now \in 1..MaxTime
  /\ lnd \in 1..4
  /\ reached \in [1..4 -> Instants]
  /\ updates \in Seq(1..4) /\ Len(updates) <= 4
  /\ monitor \in {"off", "connecting", "subscribing", "listening", "received",
                  "done", "failed"}
  /\ state \in 1..4
  /\ programStartTime \in Instants
  /\ unlockTime # 0 => unlockTime \in programStartTime..now
  /\ endTime # 0 => endTime \in unlockTime..now
  /\ \A m \in exported : m \in [unlock : Nat, start : Nat]

Init ==
  /\ now = 1
  /\ lnd \in 1..4 /\ reached = [s \in 1..4 |-> IF s <= lnd THEN 1 ELSE 0]
  /\ updates = <<>> /\ monitor = "off" /\ state = 1
  /\ programStartTime = 0 /\ unlockTime = 0 /\ endTime = 0
  /\ exported = {}

Tick ==
  /\ now < MaxTime
  /\ now' = now + 1
  /\ UNCHANGED <<lnd, reached, updates, monitor, state, times, exported>>

-----------------------------------------------------------------------------
(* lnd goes from one state to the next and tells its subscribers.          *)
Subscribed == monitor \in {"listening", "received"}

LndAdvances ==
  /\ lnd < 4
  /\ lnd' = lnd + 1
  /\ reached' = [reached EXCEPT ![lnd + 1] = now]
  /\ updates' = IF Subscribed THEN Append(updates, lnd + 1) ELSE updates
  /\ UNCHANGED <<now, monitor, state, times, exported>>

-----------------------------------------------------------------------------
ProgramStarts ==
  /\ monitor = "off"
  /\ monitor' = "connecting"
  /\ programStartTime' = now
  /\ UNCHANGED <<now, lnd, reached, updates, state, unlockTime, endTime,
                 exported>>

(* mutant: lnd's wallet is not waited for, and may still be locked         *)
ConnectAtOnce ==
  /\ monitor = "connecting"
  /\ monitor' = "subscribing"
  /\ unlockTime' = now
  /\ UNCHANGED <<now, lnd, reached, updates, state, programStartTime, endTime,
                 exported>>

(* mutant: the fields are assigned in each other's place                   *)
ConnectSwapped ==
  /\ monitor = "connecting"
  /\ States[lnd] \in {"rpcActive", "serverActive"}
  /\ monitor' = "subscribing"
  /\ programStartTime' = now /\ unlockTime' = programStartTime
  /\ UNCHANGED <<now, lnd, reached, updates, state, endTime, exported>>

(* The client, once lnd is unlocked and its RPCs answer, is made, and with *)
(* it the collector, which takes this moment for that of the unlocking.    *)
Connect ==
  /\ monitor = "connecting"
  /\ States[lnd] \in {"rpcActive", "serverActive"}
  /\ monitor' = "subscribing"
  /\ unlockTime' = now
  /\ UNCHANGED <<now, lnd, reached, updates, state, programStartTime, endTime,
                 exported>>

(* lnd tells a new subscriber its present state.                           *)
Subscribe ==
  /\ monitor = "subscribing"
  /\ monitor' = "listening"
  /\ updates' = <<lnd>>
  /\ UNCHANGED <<now, lnd, reached, state, times, exported>>

(* The subscription cannot be made or breaks.                              *)
StreamFails ==
  /\ monitor \in {"subscribing", "listening"}
  /\ monitor' = "failed"
  /\ updates' = <<>>
  /\ UNCHANGED <<now, lnd, reached, state, times, exported>>

Receive ==
  /\ monitor = "listening" /\ updates # <<>>
  /\ monitor' = "received"
  /\ state' = Head(updates)
  /\ updates' = Tail(updates)
  /\ UNCHANGED <<now, lnd, reached, times, exported>>

Active(s) == States[s] = "serverActive"

(* mutant: the goroutine returns after its first update, whatever it is    *)
RecordOnce ==
  /\ monitor = "received"
  /\ endTime' = IF Active(state) /\ unlockTime # 0 THEN now ELSE endTime
  /\ monitor' = "done"
  /\ UNCHANGED <<now, lnd, reached, updates, state, programStartTime,
                 unlockTime, exported>>

(* The goroutine ends with the first report that lnd is active.            *)
Record ==
  /\ monitor = "received"
  /\ IF Active(state) /\ unlockTime # 0
     THEN endTime' = now /\ monitor' = "done"
     ELSE monitor' = "listening" /\ UNCHANGED endTime
  /\ UNCHANGED <<now, lnd, reached, updates, state, programStartTime,
                 unlockTime, exported>>

(* mutant: the time until the scrape                                       *)
CollectSince ==
  /\ unlockTime # 0 /\ endTime # 0
  /\ exported' = exported \cup {[unlock |-> unlockTime - programStartTime,
                                 start |-> now - unlockTime]}
  /\ UNCHANGED <<now, lnd, reached, updates, monitor, state, times>>

(* Nothing is exported before both times are known.                        *)
Collect ==
  /\ unlockTime # 0 /\ endTime # 0
  /\ exported' = exported \cup {[unlock |-> unlockTime - programStartTime,
                                 start |-> endTime - unlockTime]}
  /\ UNCHANGED <<now, lnd, reached, updates, monitor, state, times>>

Next ==
  \/ Tick \/ LndAdvances
  \/ ProgramStarts \/ Connect \/ Subscribe \/ StreamFails \/ Receive \/ Record
  \/ Collect

Spec == Init /\ [][Next]_vars

(* The goroutine runs when it can and lnd answers the subscription.        *)
FairSpec == Spec /\ WF_vars(Subscribe) /\ WF_vars(Receive) /\ WF_vars(Record)

-----------------------------------------------------------------------------
(* Properties                                                              *)

(* What one scrape is given every later scrape is given too: the metric    *)
(* does not change under a dashboard that has read it.                     *)
StableMetric == \A m1, m2 \in exported : m1 = m2

(* The metric is not given before lnd is active, and its two parts lie in  *)
(* the order of what they measure: lnd is unlocked by the end of the first *)
(* and active by the end of the second, so that together they are no less  *)
(* than the time from the program's start until lnd was active.            *)
Truthful ==
  \A m \in exported :
    /\ Active(lnd)
    /\ reached[2] # 0 /\ reached[2] <= programStartTime + m.unlock
    /\ programStartTime + m.unlock + m.start >= reached[4]

(* lnd was active before the program started.                              *)
Late == reached[4] # 0 /\ reached[4] < programStartTime

(* An lnd that becomes active after the program has started is seen to be, *)
(* whether it does so before the subscription, which then reports it as    *)
(* the present state, or after, as a change, unless the stream fails. What *)
(* a program that starts late should see is NoMetricIfLate's.              *)
EndIsRecorded ==
  (unlockTime # 0 /\ Active(lnd) /\ ~Late)
    ~> (endTime # 0 \/ monitor = "failed")

(* A comment on endTime (lines 29 to 32): "If lndmon starts after LND has  *)
(* already reached SERVER_ACTIVE, no startup time metric will be emitted." *)
NoMetricIfLate == exported # {} => ~Late
=============================================================================
