------------------------------ MODULE Exporter ------------------------------
(***************************************************************************)
(* The lndmon process: the main goroutine (lndmon.go, start), the          *)
(* Prometheus exporter it starts and stops (collectors/prometheus.go), the *)
(* four background goroutines, the Collect calls of the scrapes, and the   *)
(* buffered error channel they all send to and main receives from once.    *)
(*                                                                         *)
(* An error is a token: what the properties need is how many there are and *)
(* where each one is. The Collect calls of one scrape, and of several, are *)
(* alike, so they are counted. Everything lnd does is a choice: a stream   *)
(* it serves may be lost at any time, and any call may fail. The options   *)
(* have been parsed when the model begins.                                 *)
(*                                                                         *)
(* A definition marked "mutant" is not part of the model: it is the next   *)
(* definition with a plausible bug, which a property has to notice.        *)
(***************************************************************************)
EXTENDS Integers

CONSTANTS
  ErrBuf,           \* capacity of the error channel: 8 in the code
  EnableHtlc,       \* ~DisableHtlc
  EnablePayments,   \* ~DisablePayments
  EnableGraph,      \* ~DisableGraph
  MaxFailures,      \* bound: failed collector calls and cache refreshes
  MaxCollecting     \* bound: Collect calls in flight

ASSUME ExporterAssumption ==
  /\ ErrBuf \in Nat \ {0}
  /\ EnableHtlc \in BOOLEAN
  /\ EnablePayments \in BOOLEAN
  /\ EnableGraph \in BOOLEAN
  /\ MaxFailures \in Nat
  /\ MaxCollecting \in Nat

VARIABLES
  main,        \* where the main goroutine is
  pc,          \* where each background goroutine is
  lost,        \* the streams lnd has ended, which their readers may not know
  errChan,     \* number of errors in the buffer of the error channel
  collecting,  \* number of Collect calls working
  blocked,     \* number of Collect calls sending the error they ended with
  failures,    \* history: errors raised by Collect calls and cache refreshes
  reported,    \* history: 1 for a stream whose reader has raised its error
  result,      \* what start() returns
  signal,      \* the interceptor's shutdown channel is closed
  closed,      \* the quit channels that are closed
  http         \* the goroutine that serves /metrics

vars == <<main, pc, lost, errChan, collecting, blocked, failures, reported,
          result, signal, closed, http>>

-----------------------------------------------------------------------------
Streams == {"htlc", "payments", "state"}

(* Two stream monitors, the lnd state monitor, and the goroutine that      *)
(* refreshes the closed channels cache.                                    *)
Workers == Streams \cup {"cache"}

WorkerPC(w) ==
  {"off", "sending", "done"} \cup
    CASE w = "htlc"     -> {"running"}
      [] w = "payments" -> {"checking", "receiving"}
      [] w = "state"    -> {"subscribing", "listening"}
      [] w = "cache"    -> {"refreshing", "waiting"}

(* A stream is open, and can be lost, while its reader works on it.        *)
OpenPCs == {"running", "checking", "receiving", "listening"}
PCs == OpenPCs \cup {"off", "sending", "done", "subscribing", "refreshing",
                     "waiting"}
Open(w) == pc[w] \in OpenPCs

Starting == {"connect", "register", "startHtlc", "startPayments", "startHttp"}
Stopping == {"stopHtlc", "joinHtlc", "stopPayments", "joinPayments"}
Closing == {"closing", "closed"}
Ending == Stopping \cup Closing \cup {"exited"}
Alive == main # "exited"

(* The collectors whose Collect calls lnd and can raise an error: chain,   *)
(* channels, wallet, peers, info, watchtower client, and the graph.        *)
NumCollectors == 6 + (IF EnableGraph THEN 1 ELSE 0)

TypeOK ==
  /\ main \in Starting \cup {"waiting"} \cup Ending
  /\ pc \in [Workers -> PCs]
  /\ \A w \in Workers : pc[w] \in WorkerPC(w)
  /\ lost \subseteq Streams
  /\ errChan \in 0..ErrBuf
  /\ collecting \in Nat
  /\ blocked \in Nat
  /\ failures \in Nat
  /\ reported \in [Streams -> {0, 1}]
  /\ result \in {"nil", "startErr", "stopErr"}
  /\ signal \in BOOLEAN
  /\ closed \subseteq {"quit", "htlc", "payments"}
  /\ http \in {"off", "serving", "failed"}

Init ==
  /\ main = "connect"
  /\ pc = [w \in Workers |-> "off"]
  /\ lost = {}
  /\ errChan = 0
  /\ collecting = 0
  /\ blocked = 0
  /\ failures = 0
  /\ reported = [w \in Streams |-> 0]
  /\ result = "nil"
  /\ signal = FALSE
  /\ closed = {}
  /\ http = "off"

-----------------------------------------------------------------------------
(* The main goroutine                                                      *)

Goto(label) == main' = label

(* start() returns the error: exporter.Stop is not called, lnd.Close is,   *)
(* once there is a connection to close.                                    *)
FailStart(label) ==
  /\ Goto(label)
  /\ result' = "startErr"
  /\ UNCHANGED <<pc, lost, errChan, collecting, blocked, failures, reported,
                 signal, closed, http>>

(* NewLndServices succeeds, the primary node parses, and the exporter is   *)
(* made: the constructors of the state and the channels collector each     *)
(* spawn a goroutine, before Start.                                        *)
Connect ==
  /\ main = "connect"
  /\ Goto("register")
  /\ pc' = [pc EXCEPT !["state"] = "subscribing", !["cache"] = "refreshing"]
  /\ UNCHANGED <<lost, errChan, collecting, blocked, failures, reported,
                 result, signal, closed, http>>

Register ==
  /\ main = "register"
  /\ Goto("startHtlc")
  /\ UNCHANGED <<pc, lost, errChan, collecting, blocked, failures, reported,
                 result, signal, closed, http>>

StartHtlc ==
  /\ main = "startHtlc"
  /\ Goto("startPayments")
  /\ pc' = IF EnableHtlc THEN [pc EXCEPT !["htlc"] = "running"] ELSE pc
  /\ UNCHANGED <<lost, errChan, collecting, blocked, failures, reported,
                 result, signal, closed, http>>

StartPayments ==
  /\ main = "startPayments"
  /\ Goto("startHttp")
  /\ pc' = IF EnablePayments THEN [pc EXCEPT !["payments"] = "checking"]
           ELSE pc
  /\ UNCHANGED <<lost, errChan, collecting, blocked, failures, reported,
                 result, signal, closed, http>>

StartHttp ==
  /\ main = "startHttp"
  /\ Goto("waiting")
  /\ http' = "serving"
  /\ UNCHANGED <<pc, lost, errChan, collecting, blocked, failures, reported,
                 result, signal, closed>>

(* The steps of start() that can fail: NewLndServices, the primary node    *)
(* that does not parse after it, and those of exporter.Start.              *)
StartFails ==
  \/ main = "connect" /\ FailStart("exited")
  \/ /\ \/ main \in {"connect", "register"}
        \/ main = "startHtlc" /\ EnableHtlc
        \/ main = "startPayments" /\ EnablePayments
     /\ FailStart("closing")

(* The select of start(): the signal, or the only receive from errChan.    *)
TakeSignalIfServing ==                                           \* mutant
  /\ main = "waiting" /\ signal /\ http = "serving"
  /\ Goto("stopHtlc")
  /\ closed' = closed \cup {"quit"}
  /\ UNCHANGED <<pc, lost, errChan, collecting, blocked, failures, reported,
                 result, signal, http>>

TakeSignal ==
  /\ main = "waiting"
  /\ signal
  /\ Goto("stopHtlc")
  /\ closed' = closed \cup {"quit"}
  /\ UNCHANGED <<pc, lost, errChan, collecting, blocked, failures, reported,
                 result, signal, http>>

TakeErrorShadowed ==                                             \* mutant
  /\ main = "waiting" /\ errChan > 0
  /\ Goto("stopHtlc")
  /\ errChan' = errChan - 1
  /\ UNCHANGED <<pc, lost, collecting, blocked, failures, reported, result,
                 signal, closed, http>>

TakeError ==
  /\ main = "waiting"
  /\ errChan > 0
  /\ Goto("stopHtlc")
  /\ errChan' = errChan - 1
  /\ result' = "stopErr"
  /\ UNCHANGED <<pc, lost, collecting, blocked, failures, reported, signal,
                 closed, http>>

(* exporter.Stop: for each enabled monitor, close its quit channel and     *)
(* wait for its goroutine.                                                 *)
StopHtlcNoClose ==                                               \* mutant
  /\ main = "stopHtlc"
  /\ Goto(IF EnableHtlc THEN "joinHtlc" ELSE "stopPayments")
  /\ UNCHANGED <<pc, lost, errChan, collecting, blocked, failures, reported,
                 result, signal, closed, http>>

StopHtlc ==
  /\ main = "stopHtlc"
  /\ Goto(IF EnableHtlc THEN "joinHtlc" ELSE "stopPayments")
  /\ closed' = IF EnableHtlc THEN closed \cup {"htlc"} ELSE closed
  /\ UNCHANGED <<pc, lost, errChan, collecting, blocked, failures, reported,
                 result, signal, http>>

JoinHtlc ==
  /\ main = "joinHtlc"
  /\ pc["htlc"] = "done"
  /\ Goto("stopPayments")
  /\ UNCHANGED <<pc, lost, errChan, collecting, blocked, failures, reported,
                 result, signal, closed, http>>

StopPayments ==
  /\ main = "stopPayments"
  /\ Goto(IF EnablePayments THEN "joinPayments" ELSE "closing")
  /\ closed' = IF EnablePayments THEN closed \cup {"payments"} ELSE closed
  /\ UNCHANGED <<pc, lost, errChan, collecting, blocked, failures, reported,
                 result, signal, http>>

JoinPaymentsNoWait ==                                            \* mutant
  /\ main = "joinPayments"
  /\ Goto("closing")
  /\ UNCHANGED <<pc, lost, errChan, collecting, blocked, failures, reported,
                 result, signal, closed, http>>

JoinPayments ==
  /\ main = "joinPayments"
  /\ pc["payments"] = "done"
  /\ Goto("closing")
  /\ UNCHANGED <<pc, lost, errChan, collecting, blocked, failures, reported,
                 result, signal, closed, http>>

(* The deferred lnd.Close ends every stream that is open. What has not     *)
(* been joined goes on until the process exits, on a connection that is    *)
(* closed.                                                                 *)
Close ==
  /\ main = "closing"
  /\ Goto("closed")
  /\ lost' = lost \cup {w \in Streams : Open(w)}
  /\ UNCHANGED <<pc, errChan, collecting, blocked, failures, reported,
                 result, signal, closed, http>>

Exit ==
  /\ main = "closed"
  /\ Goto("exited")
  /\ UNCHANGED <<pc, lost, errChan, collecting, blocked, failures, reported,
                 result, signal, closed, http>>

(* An exited process is the only one that stops for good.                  *)
Exited == main = "exited" /\ UNCHANGED vars

MainStep ==
  \/ Register \/ StartHtlc \/ StartPayments \/ StartHttp
  \/ TakeSignal \/ TakeError
  \/ StopHtlc \/ JoinHtlc \/ StopPayments \/ JoinPayments
  \/ Close \/ Exit

-----------------------------------------------------------------------------
(* The background goroutines: they run until they end or main exits.       *)

Move(w, from, to) ==
  /\ Alive
  /\ pc[w] = from
  /\ pc' = [pc EXCEPT ![w] = to]

(* The reader of a stream has one error to send, and ends once it is sent. *)
Raise(w, from) ==
  /\ Move(w, from, "sending")
  /\ reported' = [reported EXCEPT ![w] = 1]
  /\ UNCHANGED <<main, lost, errChan, collecting, blocked, failures, result,
                 signal, closed, http>>

Step(w, from, to) ==
  /\ Move(w, from, to)
  /\ UNCHANGED <<main, lost, errChan, collecting, blocked, failures,
                 reported, result, signal, closed, http>>

SendWithoutReturn(w) ==                                          \* mutant
  /\ errChan < ErrBuf
  /\ Move(w, "sending", CASE w = "cache" -> "waiting"
                          [] w = "htlc"  -> "running"
                          [] OTHER       -> "done")
  /\ errChan' = errChan + 1
  /\ UNCHANGED <<main, lost, collecting, blocked, failures, reported, result,
                 signal, closed, http>>

SendUnbuffered(w) ==                                             \* mutant
  /\ Move(w, "sending", IF w = "cache" THEN "waiting" ELSE "done")
  /\ errChan' = IF main = "waiting" /\ errChan = 0 THEN 1 ELSE errChan
  /\ UNCHANGED <<main, lost, collecting, blocked, failures, reported, result,
                 signal, closed, http>>

(* A send to the error channel waits for room in its buffer.               *)
Send(w) ==
  /\ errChan < ErrBuf
  /\ Move(w, "sending", IF w = "cache" THEN "waiting" ELSE "done")
  /\ errChan' = errChan + 1
  /\ UNCHANGED <<main, lost, collecting, blocked, failures, reported, result,
                 signal, closed, http>>

(* The htlc monitor ends with an error whatever it ends for: the stream,   *)
(* an event it cannot process, or its quit channel.                        *)
HtlcFail == Raise("htlc", "running")

HtlcQuit == "htlc" \in closed /\ Raise("htlc", "running")

(* The payments monitor looks at its quit channel only between two         *)
(* receives, and a receive returns only when lnd sends or ends the stream. *)
(* What was sent before the end is still received.                         *)
PaymentsQuit == "payments" \in closed /\ Step("payments", "checking", "done")

PaymentsListen ==
  "payments" \notin closed /\ Step("payments", "checking", "receiving")

PaymentsUpdate == Step("payments", "receiving", "checking")

PaymentsFail == "payments" \in lost /\ Raise("payments", "receiving")

(* The state monitor ends when lnd's server is active. The select may take *)
(* an update, or the end of the stream, when it has both.                  *)
StateSubscribe ==
  main # "closed" /\ Step("state", "subscribing", "listening")

StateSubscribeFails == Raise("state", "subscribing")

StateActive == Step("state", "listening", "done")

StateFail == "state" \in lost /\ Raise("state", "listening")

(* The cache refresher goes on after an error, and ends only by quit.      *)
CacheRefreshed == Step("cache", "refreshing", "waiting")

CacheFail ==
  /\ failures < MaxFailures
  /\ failures' = failures + 1
  /\ Move("cache", "refreshing", "sending")
  /\ UNCHANGED <<main, lost, errChan, collecting, blocked, reported, result,
                 signal, closed, http>>

CacheTick == Step("cache", "waiting", "refreshing")

CacheQuit == "quit" \in closed /\ Step("cache", "waiting", "done")

WorkerStep ==
  \/ HtlcFail \/ HtlcQuit
  \/ PaymentsQuit \/ PaymentsListen \/ PaymentsUpdate \/ PaymentsFail
  \/ StateSubscribe \/ StateSubscribeFails \/ StateActive \/ StateFail
  \/ CacheRefreshed \/ CacheFail \/ CacheTick \/ CacheQuit
  \/ \E w \in Workers : Send(w)

-----------------------------------------------------------------------------
(* Scrapes: the registry calls Collect on every collector in a goroutine   *)
(* of its own, for as long as the process lives, before and after Stop.    *)

StartScrape ==
  /\ Alive
  /\ http = "serving"
  /\ collecting + blocked + NumCollectors <= MaxCollecting
  /\ collecting' = collecting + NumCollectors
  /\ UNCHANGED <<main, pc, lost, errChan, blocked, failures, reported,
                 result, signal, closed, http>>

CollectReturns ==
  /\ Alive
  /\ collecting > 0
  /\ collecting' = collecting - 1
  /\ UNCHANGED <<main, pc, lost, errChan, blocked, failures, reported,
                 result, signal, closed, http>>

CollectFail ==
  /\ Alive
  /\ collecting > 0
  /\ failures < MaxFailures
  /\ collecting' = collecting - 1
  /\ blocked' = blocked + 1
  /\ failures' = failures + 1
  /\ UNCHANGED <<main, pc, lost, errChan, reported, result, signal, closed,
                 http>>

CollectSendOrDrop ==                                             \* mutant
  /\ Alive
  /\ blocked > 0
  /\ blocked' = blocked - 1
  /\ errChan' = IF errChan < ErrBuf THEN errChan + 1 ELSE errChan
  /\ UNCHANGED <<main, pc, lost, collecting, failures, reported, result,
                 signal, closed, http>>

CollectSend ==
  /\ Alive
  /\ blocked > 0
  /\ errChan < ErrBuf
  /\ blocked' = blocked - 1
  /\ errChan' = errChan + 1
  /\ UNCHANGED <<main, pc, lost, collecting, failures, reported, result,
                 signal, closed, http>>

(* ListenAndServe returns: its error is logged, and nobody is told.        *)
HttpFails ==
  /\ Alive
  /\ http = "serving"
  /\ http' = "failed"
  /\ UNCHANGED <<main, pc, lost, errChan, collecting, blocked, failures,
                 reported, result, signal, closed>>

ScrapeStep ==
  StartScrape \/ CollectReturns \/ CollectFail \/ CollectSend \/ HttpFails

-----------------------------------------------------------------------------
(* lnd and the operator                                                    *)

Signal ==
  /\ Alive
  /\ ~signal
  /\ signal' = TRUE
  /\ UNCHANGED <<main, pc, lost, errChan, collecting, blocked, failures,
                 reported, result, closed, http>>

(* lnd ends a stream it serves, for instance because it goes away.         *)
LoseStream(w) ==
  /\ Alive
  /\ Open(w)
  /\ lost' = lost \cup {w}
  /\ UNCHANGED <<main, pc, errChan, collecting, blocked, failures, reported,
                 result, signal, closed, http>>

Environment == Signal \/ \E w \in Streams : LoseStream(w)

Next == Connect \/ StartFails \/ MainStep \/ WorkerStep \/ ScrapeStep
          \/ Environment \/ Exited

Spec == Init /\ [][Next]_vars

(* What the Go scheduler gives: a goroutine that can go on does, a send    *)
(* with room is made, a closed channel is noticed, and the end of a        *)
(* stream reaches its reader. lnd answers the calls that are bounded by    *)
(* the RPC timeout. Nothing is assumed of signals, of failures, of what    *)
(* lnd sends, of the scraper, or of the connection to lnd, which may wait  *)
(* for the wallet to be unlocked for ever.                                 *)
Fairness ==
  /\ WF_vars(MainStep)
  /\ WF_vars(HtlcQuit)
  /\ WF_vars(HtlcFail /\ "htlc" \in lost)
  /\ WF_vars(PaymentsQuit)
  /\ WF_vars(PaymentsListen)
  /\ WF_vars(PaymentsFail)
  /\ WF_vars(StateFail)
  /\ \A w \in Workers : WF_vars(Send(w))
  /\ WF_vars(CollectSend)

FairSpec == Spec /\ Fairness

-----------------------------------------------------------------------------
(* Properties                                                              *)

IsSending(w) == IF pc[w] = "sending" THEN 1 ELSE 0

(* Errors that have been raised, wait to be sent, and have been received.  *)
Raised ==
  failures + reported["htlc"] + reported["payments"] + reported["state"]
Pending ==
  blocked + IsSending("htlc") + IsSending("payments") + IsSending("state")
          + IsSending("cache")
Taken == IF result = "stopErr" THEN 1 ELSE 0

(* No error is lost or made up on its way: every error raised by one of    *)
(* the goroutines is at its sender, in the buffer, or received by main.    *)
ErrorConservation == errChan + Pending + Taken = Raised

(* When is the buffer large enough for main to receive only one error?     *)
(* Besides the calls that fail, each enabled stream reader raises one      *)
(* error at most, so a send can find the buffer full only after            *)
(* ErrBuf + Taken - Readers failed calls (prometheus.go, the comment on    *)
(* the size of errChan).                                                   *)
Readers == 1 + (IF EnableHtlc THEN 1 ELSE 0)
             + (IF EnablePayments THEN 1 ELSE 0)
NoBlockedSend ==
  MaxFailures + Readers <= ErrBuf + Taken
    => ~(Pending > 0 /\ errChan = ErrBuf)

(* The exit status tells the truth: without an error the process was       *)
(* signalled, with one a goroutine had raised it, and quit is closed in    *)
(* just the first case.                                                    *)
ExitStatus ==
  /\ main = "exited" /\ result = "nil" => signal
  /\ result = "stopErr" => Raised > 0
  /\ "quit" \in closed <=> main \in Ending /\ result = "nil"

(* The process as its supervisor sees it: see Lifecycle.                   *)
Phase ==
  CASE main \in Starting -> "starting"
    [] main = "waiting"  -> "running"
    [] main \in Stopping -> "stopping"
    [] main \in Closing  -> "closing"
    [] main = "exited"   -> "exited"
Cause == IF result # "nil" THEN result
         ELSE IF "quit" \in closed THEN "signal" ELSE "none"
Live == {w \in {"htlc", "payments"} : pc[w] \notin {"off", "done"}}

Abstract == INSTANCE Lifecycle WITH
  Monitors <- {"htlc", "payments"}, phase <- Phase, cause <- Cause,
  live <- Live

(* The exporter implements the life cycle: nothing is started once it has  *)
(* begun to stop, and after a stop both monitors have ended before the     *)
(* connection is closed, so that none takes the closing for a failure.     *)
ImplementsLifecycle == Abstract!Spec

(* An error raised by any goroutine, also while the process is starting,   *)
(* makes the process stop, however full the buffer is.                     *)
ErrorStops == (Pending > 0) ~> (main \in Ending)

(* A signal makes the process stop, once it is connected to lnd.           *)
SignalStops ==
  (signal /\ main # "connect") ~> (main \in Ending)

(* A stop that begins or goes on when the payments monitor is not in a     *)
(* receive from an open stream (see ShutdownCompletes) ends, unless the    *)
(* buffer fills up (see NoBlockedSend for when it cannot, and NoStuckStop).*)
PaymentsCanEnd ==
  \/ ~Open("payments")
  \/ "payments" \in lost
  \/ pc["payments"] = "checking" /\ "payments" \in closed
StopEnds ==
  (main \in Stopping /\ PaymentsCanEnd)
    ~> (main = "exited" \/ errChan = ErrBuf)

(* What the comments claim and the code does not do.                       *)

(* "buffer our error channel by 8 so that we do not need to consume all    *)
(* errors" (prometheus.go), "should be buffered so that it does not block  *)
(* sends" (htlcs_collector.go): once the first error has begun the stop,   *)
(* Stop never waits for a reader that waits for room in the buffer nobody  *)
(* receives from any more.                                                 *)
NoStuckStop ==
  ~ /\ result = "stopErr"
    /\ main = "joinHtlc"
    /\ pc["htlc"] = "sending"
    /\ errChan = ErrBuf

(* "stop cancels the payments monitor subscription"                        *)
(* (payments_collector.go): a stop ends, whatever lnd does.                *)
ShutdownCompletes == (main \in Stopping) ~> (main = "exited")
=============================================================================
