---------------------------- MODULE HtlcMonitor -----------------------------
(***************************************************************************)
(* The htlc monitor (collectors/htlcs_collector.go): a goroutine that      *)
(* reads lnd's stream of htlc events, keeps the forwards it has seen in    *)
(* activeHtlcs, counts resolutions and observes how long they took.        *)
(*                                                                         *)
(* lnd's events are a log that only grows. The monitor subscribes at the   *)
(* end of the log and reads on from there; the time stamp of an event is   *)
(* its place in the log. What the monitor holds in memory dies with the    *)
(* process, the log does not. How the goroutine is started and stopped,    *)
(* and the send of the error it ends with, are in module Exporter.         *)
(***************************************************************************)
EXTENDS Integers, Sequences, FiniteSets, Functions

CONSTANTS
  Keys,          \* pairs of circuits, one pair for each htlc
  KeyType,       \* whether the htlc is a "forward", a "send" or a "receive"
  Chans,         \* the channels of a key, which other keys may share
  Reasons,       \* the failure strings of lnd's links
  ReasonLabel,   \* a failure string as a Prometheus label
  NoReason,      \* the empty string: an htlc that did not fail
  FailedBack,    \* failureReasonExternal
  MaxEvents      \* bound: the length of the log

Types == {"forward", "send", "receive"}
Resolutions == {"settle", "forwardFail", "linkFail"}
AllReasons == Reasons \cup {NoReason, FailedBack}

(* The label has "_" for every " " and is in lower case: two reasons may   *)
(* have one label, but only the empty string has the empty label.          *)
ASSUME HtlcAssumption ==
  /\ DOMAIN Chans = Keys
  /\ KeyType \in [Keys -> Types]
  /\ NoReason \notin Reasons \cup {FailedBack}
  /\ DOMAIN ReasonLabel = AllReasons
  /\ \A r \in AllReasons : ReasonLabel[r] = NoReason <=> r = NoReason
  /\ MaxEvents \in Nat

(* Where the monitor has no time for a key: log positions start at 1.      *)
NotTracked == 0

Events ==
  [kind : Resolutions \cup {"forward", "ignored", "unknown"}, key : Keys,
   type : Types \cup {"unknown"}, failure : AllReasons]

(* The labels of a resolution; htlcLabels leaves the reason out.           *)
Labels ==
  [outcome : {"settled", "failed"}, chans : {Chans[k] : k \in Keys},
   type : Types, reason : {ReasonLabel[r] : r \in AllReasons}]
HtlcLabels ==
  [outcome : {"settled", "failed"}, chans : {Chans[k] : k \in Keys},
   type : Types]
HtlcLabelsOf(l) == [outcome |-> l.outcome, chans |-> l.chans, type |-> l.type]

VARIABLES
  log,          \* lnd's htlc events
  base,         \* length of the log when the monitor subscribed
  n,            \* how far the monitor has read
  pc,           \* where the goroutine is
  activeHtlcs,  \* the time of the first forward of a tracked key
  resolved,     \* resolvedCounter
  histogram     \* resolutionTimeHistogram: count and sum

vars == <<log, base, n, pc, activeHtlcs, resolved, histogram>>
memory == <<activeHtlcs, resolved, histogram>>

TypeOK ==
  /\ log \in Seq(Events)
  /\ base \in Nat /\ n \in Nat /\ base <= n /\ n <= Len(log)
  /\ pc \in {"off", "select", "observing", "failed"}
  /\ activeHtlcs \in [Keys -> Nat]
  /\ resolved \in [Labels -> Nat]
  /\ histogram \in [HtlcLabels -> [count : Nat, sum : Nat]]

(* What newHtlcMonitor makes.                                              *)
NoHtlcs == [k \in Keys |-> NotTracked]
NoneResolved == [l \in Labels |-> 0]
NoneObserved == [l \in HtlcLabels |-> [count |-> 0, sum |-> 0]]

Init ==
  /\ log = <<>>
  /\ base = 0
  /\ n = 0
  /\ pc = "off"
  /\ activeHtlcs = NoHtlcs
  /\ resolved = NoneResolved
  /\ histogram = NoneObserved

-----------------------------------------------------------------------------
(* lnd: an htlc is forwarded, perhaps replayed, and resolved once. A link  *)
(* may fail an htlc it has not forwarded, and an htlc that pays an invoice *)
(* is resolved without a forward.                                          *)

Forwarded(k) == \E i \in DOMAIN log : log[i].kind = "forward" /\ log[i].key = k
Resolved(k) ==
  \E i \in DOMAIN log : log[i].kind \in Resolutions /\ log[i].key = k
InFlight(k) == Forwarded(k) /\ ~Resolved(k)

Emit(kind, k, type, failure) ==
  /\ Len(log) < MaxEvents
  /\ log' = Append(log, [kind |-> kind, key |-> k, type |-> type,
                         failure |-> failure])
  /\ UNCHANGED <<base, n, pc, memory>>

LndForward(k) ==
  /\ KeyType[k] # "receive"
  /\ ~Resolved(k)
  /\ Emit("forward", k, KeyType[k], NoReason)

LndResolve(k, kind, type) ==
  /\ ~Resolved(k)
  /\ kind = "linkFail" \/ KeyType[k] = "receive" \/ InFlight(k)
  /\ \E r \in IF kind = "linkFail" THEN Reasons ELSE {NoReason} :
       Emit(kind, k, type, r)

(* Events that are ignored: the subscription's comes first, a final one    *)
(* after the resolution. A kind that this version does not know may come   *)
(* with either; elsewhere it would do what End does at any point.          *)
LndOther(k, kind) ==
  /\ log = <<>> \/ Resolved(k)
  /\ Emit(kind, k, KeyType[k], NoReason)

Lnd ==
  \/ \E k \in Keys : LndForward(k)
  \/ \E k \in Keys, kind \in Resolutions :
       \E type \in {KeyType[k], "unknown"} : LndResolve(k, kind, type)
  \/ \E k \in Keys, kind \in {"ignored", "unknown"} : LndOther(k, kind)

-----------------------------------------------------------------------------
(* The goroutine of consumeHtlcEvents                                      *)

(* SubscribeHtlcEvents: a stream of the events from now on.                *)
StartFromBeginning ==                                            \* mutant
  /\ pc = "off"
  /\ pc' = "select"
  /\ base' = Len(log)
  /\ n' = 0
  /\ UNCHANGED <<log, memory>>

Start ==
  /\ pc = "off"
  /\ pc' = "select"
  /\ base' = Len(log)
  /\ n' = Len(log)
  /\ UNCHANGED <<log, memory>>

(* The stream fails or is closed, or the quit channel is closed: whichever *)
(* it is, the goroutine raises an error and ends.                          *)
End ==
  /\ pc = "select"
  /\ pc' = "failed"
  /\ UNCHANGED <<log, base, n, memory>>

(* The next event of the stream, read and passed to processHtlcEvent.      *)
event == log[n + 1]
Receive(kinds) ==
  /\ pc = "select"
  /\ n < Len(log)
  /\ event.kind \in kinds
  /\ n' = n + 1

(* A replayed forward keeps the time of the first one.                     *)
ProcessReplayAsNew ==                                            \* mutant
  /\ Receive({"forward"})
  /\ activeHtlcs' = [activeHtlcs EXCEPT ![event.key] = n + 1]
  /\ UNCHANGED <<log, base, pc, resolved, histogram>>

ProcessForward ==
  /\ Receive({"forward"})
  /\ activeHtlcs' =
       IF activeHtlcs[event.key] # NotTracked THEN activeHtlcs
       ELSE [activeHtlcs EXCEPT ![event.key] = n + 1]
  /\ UNCHANGED <<log, base, pc, resolved, histogram>>

ProcessIgnored ==
  /\ Receive({"ignored"})
  /\ UNCHANGED <<log, base, pc, memory>>

ProcessUnknown ==
  /\ Receive({"unknown"})
  /\ pc' = "failed"
  /\ UNCHANGED <<log, base, memory>>

(* The failure reason processHtlcEvent gives to recordResolution, and the  *)
(* labels recordResolution makes of it.                                    *)
FailureReason(e) ==
  CASE e.kind = "settle"      -> NoReason
    [] e.kind = "forwardFail" -> FailedBack
    [] e.kind = "linkFail"    -> e.failure

LabelsOf(e) ==
  [outcome |-> IF FailureReason(e) = NoReason THEN "settled" ELSE "failed",
   chans   |-> Chans[e.key],
   type    |-> e.type,
   reason  |-> ReasonLabel[FailureReason(e)]]

(* recordResolution, as far as a concurrent scrape can tell its steps      *)
(* apart: the count, and, if the forward is known, the observation.        *)
RecordIfTracked ==                                               \* mutant
  LET tracked == activeHtlcs[event.key] # NotTracked IN
  /\ Receive(Resolutions)
  /\ event.type # "unknown"
  /\ resolved' = IF event.type = "receive" \/ tracked
                 THEN [resolved EXCEPT ![LabelsOf(event)] = @ + 1]
                 ELSE resolved
  /\ pc' = IF event.type # "receive" /\ tracked THEN "observing" ELSE pc
  /\ UNCHANGED <<log, base, activeHtlcs, histogram>>

RecordResolution ==
  /\ Receive(Resolutions)
  /\ event.type # "unknown"
  /\ resolved' = [resolved EXCEPT ![LabelsOf(event)] = @ + 1]
  /\ pc' = IF event.type # "receive" /\ activeHtlcs[event.key] # NotTracked
           THEN "observing" ELSE pc
  /\ UNCHANGED <<log, base, activeHtlcs, histogram>>

ObserveAndKeep ==                                                \* mutant
  LET e == log[n] IN
  /\ pc = "observing"
  /\ histogram' = [histogram EXCEPT ![HtlcLabelsOf(LabelsOf(e))] =
       [count |-> @.count + 1, sum |-> @.sum + (n - activeHtlcs[e.key])]]
  /\ pc' = "select"
  /\ UNCHANGED <<log, base, n, activeHtlcs, resolved>>

ObserveAfterDelete ==                                            \* mutant
  LET e == log[n] IN
  /\ pc = "observing"
  /\ activeHtlcs' = [activeHtlcs EXCEPT ![e.key] = NotTracked]
  /\ histogram' = [histogram EXCEPT ![HtlcLabelsOf(LabelsOf(e))] =
       [count |-> @.count + 1, sum |-> @.sum + (n - activeHtlcs'[e.key])]]
  /\ pc' = "select"
  /\ UNCHANGED <<log, base, n, resolved>>

ObserveResolution ==
  LET e == log[n] IN
  /\ pc = "observing"
  /\ histogram' = [histogram EXCEPT ![HtlcLabelsOf(LabelsOf(e))] =
       [count |-> @.count + 1, sum |-> @.sum + (n - activeHtlcs[e.key])]]
  /\ activeHtlcs' = [activeHtlcs EXCEPT ![e.key] = NotTracked]
  /\ pc' = "select"
  /\ UNCHANGED <<log, base, n, resolved>>

RecordUnknownType ==
  /\ Receive(Resolutions)
  /\ event.type = "unknown"
  /\ pc' = "failed"
  /\ UNCHANGED <<log, base, memory>>

(* The process ends, at any point, and a new one makes a new monitor.      *)
Restart ==
  /\ pc # "off"
  /\ pc' = "off"
  /\ activeHtlcs' = NoHtlcs
  /\ resolved' = NoneResolved
  /\ histogram' = NoneObserved
  /\ UNCHANGED <<log, base, n>>

Next ==
  \/ Lnd
  \/ Start \/ End
  \/ ProcessForward \/ ProcessIgnored \/ ProcessUnknown
  \/ RecordResolution \/ ObserveResolution \/ RecordUnknownType
  \/ Restart

Spec == Init /\ [][Next]_vars

-----------------------------------------------------------------------------
(* Properties: what the monitor holds, compared with the part of the log   *)
(* it has read, and nothing but the log.                                   *)

(* The last event the goroutine is done with.                              *)
Done == IF pc = "observing" THEN n - 1 ELSE n
Window == IF pc = "off" THEN {} ELSE base + 1 .. Done

(* A resolution of a forward or a send by which a tracked key is let go.   *)
Releases(i, k) ==
  /\ log[i].kind \in Resolutions
  /\ log[i].type \in {"forward", "send"}
  /\ log[i].key = k

(* i is the first forward of k that is not released before j.              *)
FirstForward(i, k, j) ==
  LET forwards(p) == log[p].kind = "forward" /\ log[p].key = k
      held(p) == forwards(p) /\ ~\E q \in p + 1 .. j - 1 : Releases(q, k)
  IN  /\ i \in Window /\ i < j
      /\ held(i)
      /\ \A p \in Window : p < i => ~held(p)

(* A key is tracked if and only if a forward of it has been read and no    *)
(* resolution since, and its time is that of the first such forward, not   *)
(* of a replay.                                                            *)
ActiveMatchesLog ==
  \A k \in Keys :
    IF activeHtlcs[k] = NotTracked
    THEN \A i \in Window : ~FirstForward(i, k, Done + 1)
    ELSE FirstForward(activeHtlcs[k], k, Done + 1)

(* What the labels should say of a resolution: that it was settled if and  *)
(* only if lnd says so, and of a failure why, unless it came from          *)
(* downstream.                                                             *)
Describes(l, e) ==
  /\ l.outcome = "settled" <=> e.kind = "settle"
  /\ l.chans = Chans[e.key]
  /\ l.type = e.type
HasReason(l, e) ==
  l.reason = CASE e.kind = "settle"      -> NoReason
               [] e.kind = "forwardFail" -> ReasonLabel[FailedBack]
               [] e.kind = "linkFail"    -> ReasonLabel[e.failure]

(* Every counter is the number of resolutions that have been read and that *)
(* its labels describe: none is counted twice, or under another outcome.   *)
Read == IF pc = "off" THEN {} ELSE base + 1 .. n
CountedUnder(l) ==
  {i \in Read : /\ log[i].kind \in Resolutions
                /\ Describes(l, log[i])
                /\ HasReason(l, log[i])}
ResolvedMatchesLog ==
  \A l \in Labels : resolved[l] = Cardinality(CountedUnder(l))

(* The histogram holds one observation for every resolution of a forward   *)
(* or a send whose forward has been read too, of the time from the first   *)
(* forward to the resolution. One that was forwarded before the monitor    *)
(* subscribed is not in it.                                                *)
Observations(l) ==
  {o \in Window \X Window :
     /\ Releases(o[2], log[o[2]].key)
     /\ FirstForward(o[1], log[o[2]].key, o[2])
     /\ Describes(l, log[o[2]])}
HistogramMatchesLog ==
  \A l \in HtlcLabels :
    /\ histogram[l].count = Cardinality(Observations(l))
    /\ histogram[l].sum =
         SumFunction([o \in Observations(l) |-> o[2] - o[1]])

(* The map of active htlcs does not grow without end: while the goroutine  *)
(* runs, a tracked htlc is in flight at lnd, or its resolution is still to *)
(* be processed.                                                           *)
NoLeak ==
  \A k \in Keys :
    pc # "failed" /\ activeHtlcs[k] # NotTracked =>
      InFlight(k) \/ \E i \in Done + 1 .. Len(log) :
                       log[i].kind \in Resolutions /\ log[i].key = k
=============================================================================
