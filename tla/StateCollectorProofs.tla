------------------------ MODULE StateCollectorProofs ------------------------
(***************************************************************************)
(* Proofs about the state collector, for a clock of any length. The idea   *)
(* is that the times of the collector are written once and in order, each  *)
(* at an instant when lnd has reached what it stands for, and that a scrape*)
(* is given nothing but the times that are final.                          *)
(***************************************************************************)
EXTENDS StateCollector, Integers, SequenceTheorems, TLAPS

(* lnd has reached the states up to its own, one after the other.          *)
ReachedInv ==
  /\ \A s \in 1..4 : reached[s] # 0 <=> s <= lnd
  /\ \A s \in 1..4 : reached[s] <= now
  /\ \A s \in 1..3 : s < lnd => reached[s] <= reached[s + 1]

(* Which times are known where the goroutine is                            *)
TimesInv ==
  /\ programStartTime = 0 <=> monitor = "off"
  /\ programStartTime <= now
  /\ unlockTime = 0 <=> monitor \in {"off", "connecting"}
  /\ endTime = 0 <=> monitor # "done"

(* The client is there when lnd's RPCs are; the end comes after the last   *)
(* state.                                                                  *)
OrderInv ==
  /\ unlockTime # 0 => 3 <= lnd /\ reached[3] <= unlockTime
  /\ endTime # 0 => lnd = 4 /\ reached[4] <= endTime

(* A subscription has been made, and has not failed.                       *)
Connected == Subscribed \/ monitor = "done"

(* What is delivered, or has been, are states that lnd has reached; there  *)
(* are no more of them than lnd has had since its RPCs were there.         *)
UpdatesInv ==
  /\ \A i \in 1..Len(updates) : updates[i] <= lnd
  /\ Len(updates) <= IF Connected THEN lnd - 2 ELSE 0
  /\ monitor = "received" => state <= lnd

ExportedInv ==
  \A m \in exported :
    /\ endTime # 0
    /\ m = [unlock |-> unlockTime - programStartTime,
            start |-> endTime - unlockTime]

IInv == TypeOK /\ ReachedInv /\ TimesInv /\ OrderInv /\ UpdatesInv /\ ExportedInv

-----------------------------------------------------------------------------
LEMMA InitInv == Init => IInv
<1> SUFFICES ASSUME Init PROVE IInv
  OBVIOUS
<1>1. <<>> \in Seq(1..4) /\ Len(<<>>) = 0
  OBVIOUS
<1> QED
  BY <1>1, MaxTimeAssumption
     DEF Init, IInv, TypeOK, Instants, ReachedInv, TimesInv, OrderInv,
         UpdatesInv, ExportedInv, Connected, Subscribed

(* The clock: nothing is later than before.                                *)
LEMMA TickInv == IInv /\ Tick => IInv'
<1> SUFFICES ASSUME IInv, Tick PROVE IInv'
  OBVIOUS
<1>1. /\ now' = now + 1 /\ now' \in 1..MaxTime
      /\ UNCHANGED <<lnd, reached, updates, monitor, state, programStartTime,
                     unlockTime, endTime, exported>>
  BY MaxTimeAssumption DEF Tick, times, IInv, TypeOK
<1>2. TypeOK'
  BY <1>1, MaxTimeAssumption DEF IInv, TypeOK, Instants, TimesInv
<1>3. ReachedInv' /\ TimesInv'
  BY <1>1, MaxTimeAssumption DEF IInv, TypeOK, Instants, ReachedInv, TimesInv
<1>4. OrderInv' /\ UpdatesInv' /\ ExportedInv'
  BY <1>1 DEF IInv, OrderInv, UpdatesInv, ExportedInv, Connected, Subscribed
<1> QED BY <1>2, <1>3, <1>4 DEF IInv

LEMMA LndAdvancesInv == IInv /\ LndAdvances => IInv'
<1> SUFFICES ASSUME IInv, LndAdvances PROVE IInv'
  OBVIOUS
<1> USE DEF IInv
<1>1. /\ lnd \in 1..3 /\ lnd' = lnd + 1
      /\ reached' = [reached EXCEPT ![lnd + 1] = now]
      /\ updates' = IF Subscribed THEN Append(updates, lnd + 1) ELSE updates
      /\ UNCHANGED <<now, monitor, state, programStartTime, unlockTime, endTime,
                     exported>>
  BY DEF LndAdvances, times, TypeOK
<1>2. /\ now \in Instants \ {0}
      /\ reached' \in [1..4 -> Instants]
      /\ reached'[lnd + 1] = now
      /\ \A s \in 1..4 : s # lnd + 1 => reached'[s] = reached[s]
  BY <1>1, MaxTimeAssumption DEF TypeOK, Instants
<1>3. /\ updates' \in Seq(1..4)
      /\ Len(updates') <= IF Connected THEN lnd' - 2 ELSE 0
      /\ \A i \in 1..Len(updates') : updates'[i] <= lnd'
  <2>1. CASE Subscribed
    <3>1. updates' = Append(updates, lnd + 1) /\ lnd + 1 \in 1..4
      BY <1>1, <2>1
    <3>2. /\ Len(updates') = Len(updates) + 1 /\ updates' \in Seq(1..4)
          /\ \A i \in 1..Len(updates) : updates'[i] = updates[i]
          /\ updates'[Len(updates) + 1] = lnd + 1
      BY <3>1, AppendProperties DEF TypeOK
    <3> QED BY <1>1, <2>1, <3>2 DEF TypeOK, UpdatesInv, Connected
  <2>2. CASE ~Subscribed
    BY <1>1, <2>2 DEF TypeOK, UpdatesInv
  <2> QED BY <2>1, <2>2
<1>4. TypeOK'
  BY <1>1, <1>2, <1>3 DEF TypeOK, Connected, Subscribed
<1>5. ReachedInv'
  BY <1>1, <1>2, MaxTimeAssumption DEF TypeOK, Instants, ReachedInv
<1>6. TimesInv' /\ ExportedInv'
  BY <1>1 DEF TimesInv, ExportedInv
<1>7. OrderInv'
  BY <1>1, <1>2 DEF OrderInv, ReachedInv, TypeOK
<1>8. UpdatesInv'
  BY <1>1, <1>3 DEF UpdatesInv, Connected, Subscribed, TypeOK
<1> QED BY <1>4, <1>5, <1>6, <1>7, <1>8

(* What no step of the collector but Tick and LndAdvances changes          *)
LndAlone == UNCHANGED <<now, lnd, reached>>

LEMMA StartInv == IInv /\ (ProgramStarts \/ Connect) => IInv'
<1> SUFFICES ASSUME IInv, ProgramStarts \/ Connect PROVE IInv'
  OBVIOUS
<1> USE DEF IInv
<1>1. LndAlone /\ UNCHANGED <<updates, state, endTime, exported>>
  BY DEF ProgramStarts, Connect, LndAlone
<1>2. /\ monitor \in {"off", "connecting"}
      /\ monitor' \in {"connecting", "subscribing"}
      /\ exported = {} /\ updates = <<>> /\ endTime = 0
  BY DEF ProgramStarts, Connect, TimesInv, ExportedInv, UpdatesInv, Connected,
         Subscribed, TypeOK
<1>3. CASE ProgramStarts
  BY <1>1, <1>2, <1>3, MaxTimeAssumption
     DEF ProgramStarts, LndAlone, TypeOK, Instants, ReachedInv, TimesInv,
         OrderInv, UpdatesInv, Connected, Subscribed, ExportedInv
<1>4. CASE Connect
  <2>1. lnd \in {3, 4} /\ unlockTime' = now /\ UNCHANGED programStartTime
        /\ monitor = "connecting" /\ monitor' = "subscribing"
    BY <1>4 DEF Connect, States, TypeOK
  <2> QED
    BY <1>1, <1>2, <2>1, MaxTimeAssumption
       DEF LndAlone, TypeOK, Instants, ReachedInv, TimesInv, OrderInv,
           UpdatesInv, Connected, Subscribed, ExportedInv
<1> QED BY <1>3, <1>4

LEMMA StreamInv == IInv /\ (Subscribe \/ StreamFails \/ Receive) => IInv'
<1> SUFFICES ASSUME IInv, Subscribe \/ StreamFails \/ Receive PROVE IInv'
  OBVIOUS
<1> USE DEF IInv
<1>1. LndAlone /\ UNCHANGED <<programStartTime, unlockTime, endTime, exported>>
  BY DEF Subscribe, StreamFails, Receive, times, LndAlone
<1>2. /\ monitor \in {"subscribing", "listening"}
      /\ monitor' \in {"listening", "failed", "received"}
  BY DEF Subscribe, StreamFails, Receive
<1>3. /\ state' \in 1..4 /\ (monitor' = "received" => state' <= lnd)
      /\ updates' \in Seq(1..4) /\ Len(updates') <= 4
      /\ Len(updates') <= IF Connected' THEN lnd - 2 ELSE 0
      /\ \A i \in 1..Len(updates') : updates'[i] <= lnd
  <2>1. CASE Subscribe
    <3>1. lnd \in 3..4
      BY <2>1 DEF Subscribe, OrderInv, TimesInv, TypeOK
    <3> QED BY <2>1, <3>1 DEF Subscribe, Connected, Subscribed, TypeOK
  <2>2. CASE StreamFails
    BY <2>2 DEF StreamFails, Connected, Subscribed, TypeOK
  <2>3. CASE Receive
    <3>1. /\ updates # <<>> /\ updates \in Seq(1..4) /\ lnd \in 1..4
          /\ Len(updates) <= 4 /\ Len(updates) <= lnd - 2
          /\ state' = Head(updates) /\ updates' = Tail(updates)
          /\ Connected'
      BY <2>3 DEF Receive, TypeOK, UpdatesInv, Connected, Subscribed
    <3>2. /\ state' = updates[1] /\ updates[1] \in 1..4
          /\ updates' \in Seq(1..4) /\ Len(updates') = Len(updates) - 1
          /\ \A i \in 1..Len(updates') : updates'[i] = updates[i + 1]
          /\ Len(updates) \in Nat \ {0}
      BY <3>1, HeadTailProperties, EmptySeq, ElementOfSeq
    <3>3. \A i \in 1..Len(updates) : updates[i] <= lnd
      BY DEF UpdatesInv
    <3> QED BY <3>1, <3>2, <3>3
  <2> QED BY <2>1, <2>2, <2>3
<1>4. TypeOK'
  BY <1>1, <1>2, <1>3 DEF LndAlone, TypeOK
<1>5. ReachedInv' /\ TimesInv' /\ OrderInv' /\ ExportedInv'
  BY <1>1, <1>2 DEF LndAlone, ReachedInv, TimesInv, OrderInv, ExportedInv
<1>6. UpdatesInv'
  BY <1>1, <1>3 DEF LndAlone, UpdatesInv
<1> QED BY <1>4, <1>5, <1>6

(* The end is recorded once, when lnd is active.                           *)
LEMMA RecordInv == IInv /\ Record => IInv'
<1> SUFFICES ASSUME IInv, Record PROVE IInv'
  OBVIOUS
<1> USE DEF IInv
<1>1. /\ LndAlone
      /\ UNCHANGED <<updates, state, programStartTime, unlockTime, exported>>
      /\ monitor = "received" /\ unlockTime # 0 /\ endTime = 0
      /\ exported = {}
  BY DEF Record, LndAlone, TimesInv, ExportedInv
<1>2. CASE Active(state)
  <2>1. endTime' = now /\ monitor' = "done"
    BY <1>1, <1>2 DEF Record
  <2>2. lnd = 4
    BY <1>1, <1>2 DEF Active, States, UpdatesInv, TypeOK
  <2>3. now \in 1..MaxTime /\ reached[4] <= now /\ unlockTime \in 1..now
    BY <1>1, MaxTimeAssumption DEF TypeOK, Instants, ReachedInv
  <2>4. TypeOK'
    BY <1>1, <2>1, <2>3 DEF LndAlone, TypeOK
  <2>5. TimesInv' /\ OrderInv'
    BY <1>1, <2>1, <2>2, <2>3 DEF LndAlone, TimesInv, OrderInv
  <2>6. ReachedInv' /\ ExportedInv'
    BY <1>1, <2>1 DEF LndAlone, ReachedInv, ExportedInv
  <2>7. UpdatesInv'
    <3>1. Len(updates) <= lnd - 2 /\ Connected'
      BY <1>1, <2>1 DEF UpdatesInv, Connected, Subscribed
    <3> QED BY <1>1, <2>1, <2>2, <3>1 DEF LndAlone, UpdatesInv
  <2> QED BY <2>4, <2>5, <2>6, <2>7
<1>3. CASE ~Active(state)
  BY <1>1, <1>3 DEF Record, LndAlone, TypeOK, ReachedInv, TimesInv, OrderInv,
     UpdatesInv, Connected, Subscribed, ExportedInv
<1> QED BY <1>2, <1>3

LEMMA CollectInv == IInv /\ Collect => IInv'
<1> SUFFICES ASSUME IInv, Collect PROVE IInv'
  OBVIOUS
<1> USE DEF IInv
<1> DEFINE metric == [unlock |-> unlockTime - programStartTime,
                      start |-> endTime - unlockTime]
<1>1. /\ LndAlone
      /\ UNCHANGED <<updates, monitor, state, programStartTime, unlockTime,
                     endTime>>
      /\ unlockTime # 0 /\ endTime # 0
      /\ exported' = exported \cup {metric}
  BY DEF Collect, times, LndAlone
<1>2. metric \in [unlock : Nat, start : Nat]
  BY <1>1 DEF TypeOK, Instants
<1>3. TypeOK'
  BY <1>1, <1>2 DEF LndAlone, TypeOK
<1>4. ExportedInv'
  BY <1>1 DEF ExportedInv
<1>5. ReachedInv' /\ TimesInv' /\ OrderInv' /\ UpdatesInv'
  BY <1>1 DEF LndAlone, ReachedInv, TimesInv, OrderInv, UpdatesInv, Connected,
              Subscribed
<1> QED BY <1>3, <1>4, <1>5

LEMMA Invariance == Spec => []IInv
<1>1. IInv /\ [Next]_vars => IInv'
  <2>1. IInv /\ UNCHANGED vars => IInv'
    BY DEF vars, times, IInv, TypeOK, ReachedInv, TimesInv, OrderInv, UpdatesInv,
           Connected, Subscribed, ExportedInv
  <2> QED
    BY <2>1, TickInv, LndAdvancesInv, StartInv, StreamInv, RecordInv, CollectInv
       DEF Next
<1> QED BY <1>1, InitInv, PTL DEF Spec

-----------------------------------------------------------------------------
(* The variables keep their types; unlocking and end, once they are there, *)
(* are in the order of the program's life.                                 *)
THEOREM TypeCorrect == Spec => []TypeOK
BY Invariance, PTL DEF IInv

(* Whenever scrapes come, they are all given the same metric.              *)
THEOREM MetricIsStable == Spec => []StableMetric
<1>1. IInv => StableMetric
  BY DEF IInv, ExportedInv, StableMetric
<1> QED BY <1>1, Invariance, PTL

(* However long the steps take and wherever lnd is when the program starts,*)
(* the metric is given after lnd is active and covers the time until then. *)
THEOREM MetricIsTruthful == Spec => []Truthful
<1>1. IInv => Truthful
  <2> SUFFICES ASSUME IInv, NEW m \in exported
               PROVE  /\ Active(lnd)
                      /\ reached[2] # 0
                      /\ reached[2] <= programStartTime + m.unlock
                      /\ programStartTime + m.unlock + m.start >= reached[4]
    BY DEF Truthful
  <2> USE DEF IInv
  <2>1. /\ endTime # 0 /\ lnd = 4 /\ unlockTime # 0
        /\ m.unlock = unlockTime - programStartTime
        /\ m.start = endTime - unlockTime
    BY DEF ExportedInv, OrderInv, TimesInv
  <2>2. /\ reached[2] # 0 /\ reached[2] <= reached[3]
        /\ reached[3] <= unlockTime /\ reached[4] <= endTime
    BY <2>1 DEF ReachedInv, OrderInv
  <2>3. /\ unlockTime \in Nat /\ endTime \in Nat /\ programStartTime \in Nat
        /\ reached[2] \in Nat /\ reached[3] \in Nat /\ reached[4] \in Nat
    BY MaxTimeAssumption, <2>1 DEF TypeOK, Instants
  <2> QED BY <2>1, <2>2, <2>3 DEF Active, States
<1> QED BY <1>1, Invariance, PTL
=============================================================================
