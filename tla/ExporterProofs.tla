--------------------------- MODULE ExporterProofs ---------------------------
(***************************************************************************)
(* What holds of the exporter for every capacity of the error channel,     *)
(* every configuration of the monitors, and any number of failures and of  *)
(* concurrent scrapes.                                                     *)
(***************************************************************************)
EXTENDS Exporter, TLAPS

(* A goroutine that moves to one of its labels keeps pc well typed.        *)
LEMMA MoveType ==
  ASSUME TypeOK, NEW w \in Workers, NEW from, NEW to \in WorkerPC(w),
         Move(w, from, to)
  PROVE  /\ pc' \in [Workers -> PCs]
         /\ \A v \in Workers : pc'[v] \in WorkerPC(v)
<1>1. to \in PCs
  BY DEF WorkerPC, PCs, OpenPCs, Workers, Streams
<1> QED
  BY <1>1 DEF TypeOK, Move

LEMMA StepType ==
  ASSUME TypeOK, NEW w \in Workers, NEW from, NEW to \in WorkerPC(w),
         Step(w, from, to)
  PROVE  TypeOK'
<1>1. Move(w, from, to)
  BY DEF Step
<1> QED
  BY <1>1, MoveType DEF TypeOK, Step

LEMMA RaiseType ==
  ASSUME TypeOK, NEW w \in Streams, NEW from, Raise(w, from)
  PROVE  TypeOK'
<1>1. w \in Workers /\ "sending" \in WorkerPC(w)
  BY DEF Workers, WorkerPC
<1>2. Move(w, from, "sending")
  BY DEF Raise
<1>3. reported' \in [Streams -> {0, 1}]
  BY DEF TypeOK, Raise
<1> QED
  BY <1>1, <1>2, <1>3, MoveType DEF TypeOK, Raise

(* The type invariant is inductive by itself.                              *)
LEMMA TypeStep == TypeOK /\ [Next]_vars => TypeOK'
<1> SUFFICES ASSUME TypeOK, [Next]_vars
             PROVE  TypeOK'
  OBVIOUS
<1> USE ExporterAssumption
<1>1. CASE Connect
  <2>1. /\ pc' \in [Workers -> PCs]
        /\ \A v \in Workers : pc'[v] \in WorkerPC(v)
    BY <1>1 DEF TypeOK, Connect, WorkerPC, PCs, Workers, Streams
  <2> QED
    BY <1>1, <2>1 DEF TypeOK, Connect, Goto, Starting
<1>2. CASE StartFails
  BY <1>2 DEF TypeOK, StartFails, FailStart, Goto, Ending, Closing
<1>3. CASE MainStep
  <2>1. CASE Register \/ StartHttp
    BY <1>3, <2>1 DEF TypeOK, Register, StartHttp, Goto, Starting
  <2>2. CASE StartHtlc
    <3>1. /\ pc' \in [Workers -> PCs]
          /\ \A v \in Workers : pc'[v] \in WorkerPC(v)
      BY <2>2 DEF TypeOK, StartHtlc, WorkerPC, PCs, OpenPCs, Workers, Streams
    <3> QED
      BY <2>2, <3>1 DEF TypeOK, StartHtlc, Goto, Starting
  <2>3. CASE StartPayments
    <3>1. /\ pc' \in [Workers -> PCs]
          /\ \A v \in Workers : pc'[v] \in WorkerPC(v)
      BY <2>3 DEF TypeOK, StartPayments, WorkerPC, PCs, OpenPCs, Workers,
                  Streams
    <3> QED
      BY <2>3, <3>1 DEF TypeOK, StartPayments, Goto, Starting
  <2>4. CASE TakeSignal
    BY <2>4 DEF TypeOK, TakeSignal, Goto, Stopping, Ending
  <2>5. CASE TakeError
    <3>1. errChan' \in 0 .. ErrBuf
      BY <2>5 DEF TypeOK, TakeError
    <3> QED
      BY <2>5, <3>1 DEF TypeOK, TakeError, Goto, Stopping, Ending
  <2>6. CASE StopHtlc \/ JoinHtlc \/ StopPayments \/ JoinPayments
    BY <2>6 DEF TypeOK, StopHtlc, JoinHtlc, StopPayments, JoinPayments, Goto,
                Stopping, Closing, Ending
  <2>7. CASE Close \/ Exit
    BY <2>7 DEF TypeOK, Close, Exit, Goto, Closing, Ending
  <2> QED
    BY <1>3, <2>1, <2>2, <2>3, <2>4, <2>5, <2>6, <2>7 DEF MainStep
<1>4. CASE WorkerStep
  <2> USE DEF Workers, Streams, WorkerPC
  <2>1. CASE HtlcFail \/ HtlcQuit
    BY <2>1, RaiseType DEF HtlcFail, HtlcQuit
  <2>2. CASE PaymentsFail
    BY <2>2, RaiseType DEF PaymentsFail
  <2>3. CASE StateSubscribeFails \/ StateFail
    BY <2>3, RaiseType DEF StateSubscribeFails, StateFail
  <2>4. CASE PaymentsQuit \/ PaymentsListen \/ PaymentsUpdate
    BY <2>4, StepType DEF PaymentsQuit, PaymentsListen, PaymentsUpdate
  <2>5. CASE StateSubscribe \/ StateActive
    BY <2>5, StepType DEF StateSubscribe, StateActive
  <2>6. CASE CacheRefreshed \/ CacheTick \/ CacheQuit
    BY <2>6, StepType DEF CacheRefreshed, CacheTick, CacheQuit
  <2>7. CASE CacheFail
    <3>1. Move("cache", "refreshing", "sending")
      BY <2>7 DEF CacheFail
    <3> QED
      BY <2>7, <3>1, MoveType DEF TypeOK, CacheFail
  <2>8. ASSUME NEW w \in Workers, Send(w)
        PROVE  TypeOK'
    <3> DEFINE to == IF w = "cache" THEN "waiting" ELSE "done"
    <3>1. to \in WorkerPC(w) /\ Move(w, "sending", to)
      BY <2>8 DEF Send
    <3>2. errChan' \in 0 .. ErrBuf
      BY <2>8 DEF Send, TypeOK
    <3> HIDE DEF to
    <3> QED
      BY <2>8, <3>1, <3>2, MoveType DEF TypeOK, Send
  <2> QED
    BY <1>4, <2>1, <2>2, <2>3, <2>4, <2>5, <2>6, <2>7, <2>8 DEF WorkerStep
<1>5. CASE ScrapeStep
  <2>1. CASE StartScrape
    <3>1. NumCollectors \in Nat
      BY DEF NumCollectors
    <3> QED
      BY <2>1, <3>1 DEF TypeOK, StartScrape
  <2>2. CASE CollectReturns \/ CollectFail
    <3>1. collecting' \in Nat /\ blocked' \in Nat /\ failures' \in Nat
      BY <2>2 DEF TypeOK, CollectReturns, CollectFail
    <3> QED
      BY <2>2, <3>1 DEF TypeOK, CollectReturns, CollectFail
  <2>3. CASE CollectSend
    <3>1. errChan' \in 0 .. ErrBuf
      BY <2>3 DEF TypeOK, CollectSend
    <3>2. blocked' \in Nat
      BY <2>3 DEF TypeOK, CollectSend
    <3> QED
      BY <2>3, <3>1, <3>2 DEF TypeOK, CollectSend
  <2>4. CASE HttpFails
    BY <2>4 DEF TypeOK, HttpFails
  <2> QED
    BY <1>5, <2>1, <2>2, <2>3, <2>4 DEF ScrapeStep
<1>6. CASE Environment
  BY <1>6 DEF TypeOK, Environment, Signal, LoseStream
<1>7. CASE UNCHANGED vars
  BY <1>7 DEF TypeOK, vars
<1> QED
  BY <1>1, <1>2, <1>3, <1>4, <1>5, <1>6, <1>7 DEF Next, Exited

LEMMA TypeInit == Init => TypeOK
<1> SUFFICES ASSUME Init PROVE TypeOK
  OBVIOUS
<1> USE ExporterAssumption DEF Init
<1>1. /\ pc \in [Workers -> PCs]
      /\ \A w \in Workers : pc[w] \in WorkerPC(w)
  BY DEF PCs, WorkerPC
<1>2. reported \in [Streams -> {0, 1}]
  OBVIOUS
<1>3. errChan \in 0 .. ErrBuf /\ lost \subseteq Streams
  OBVIOUS
<1> QED
  BY <1>1, <1>2, <1>3 DEF TypeOK, Starting

(* Every variable always has its type.                                     *)
THEOREM TypeCorrect == Spec => []TypeOK
<1>1. Init => TypeOK
  BY TypeInit
<1>2. TypeOK /\ [Next]_vars => TypeOK'
  BY TypeStep
<1> QED
  BY <1>1, <1>2, PTL DEF Spec

-----------------------------------------------------------------------------
(* The accounting of errors                                                *)

(* A reader has raised an error only if it has left its loop, and a        *)
(* monitor that is disabled never starts.                                  *)
Accounted ==
  /\ \A w \in Streams : pc[w] \notin {"sending", "done"} => reported[w] = 0
  /\ ~EnableHtlc => pc["htlc"] = "off"
  /\ ~EnablePayments => pc["payments"] = "off"
  /\ failures <= MaxFailures
  /\ main \in Starting \cup {"waiting"} => result = "nil"
  /\ main = "connect" => \A w \in Workers : pc[w] = "off"
  /\ main \in {"register", "startHtlc"} => pc["htlc"] = "off"
  /\ main \in {"register", "startHtlc", "startPayments"} =>
       pc["payments"] = "off"

ErrorInv == TypeOK /\ Accounted /\ ErrorConservation

LEMMA StepAccounts ==
  ASSUME ErrorInv, NEW w \in Workers, NEW from \in PCs, NEW to \in PCs,
         from \notin {"off", "sending", "done"}, to \notin {"off", "sending"},
         Step(w, from, to)
  PROVE  Accounted' /\ ErrorConservation'
<1>1. \A v \in Workers : v # w => pc'[v] = pc[v]
  BY DEF ErrorInv, TypeOK, Step, Move
<1>2. pc'[w] = to /\ pc[w] = from
  BY DEF ErrorInv, TypeOK, Step, Move
<1>3. Accounted'
  BY <1>1, <1>2 DEF ErrorInv, Accounted, Step, Move, Workers, Streams, Alive
<1>4. \A v \in Workers : IsSending(v)' = IsSending(v)
  BY <1>1, <1>2 DEF IsSending
<1>5. Pending' = Pending
  BY <1>4 DEF Pending, Step, Workers, Streams
<1> QED
  BY <1>3, <1>5 DEF ErrorInv, ErrorConservation, Raised, Taken, Step

LEMMA RaiseAccounts ==
  ASSUME ErrorInv, NEW w \in Streams, NEW from \in PCs,
         from \notin {"off", "sending", "done"}, Raise(w, from)
  PROVE  Accounted' /\ ErrorConservation'
<1>1. /\ \A v \in Workers : v # w => pc'[v] = pc[v]
      /\ \A v \in Streams : v # w => reported'[v] = reported[v]
  BY DEF ErrorInv, TypeOK, Raise, Move
<1>2. /\ pc'[w] = "sending" /\ pc[w] = from
      /\ reported'[w] = 1 /\ reported[w] = 0
  BY DEF ErrorInv, TypeOK, Raise, Move, Accounted, Workers
<1>3. Accounted'
  BY <1>1, <1>2 DEF ErrorInv, Accounted, Raise, Move, Workers, Streams, Alive
<1>4. /\ \A v \in Workers : v # w => IsSending(v)' = IsSending(v)
      /\ IsSending(w)' = 1 /\ IsSending(w) = 0
  BY <1>1, <1>2 DEF IsSending
<1>5. Pending' = Pending + 1 /\ Raised' = Raised + 1
  <2>1. blocked \in Nat /\ failures \in Nat
    BY DEF ErrorInv, TypeOK
  <2>2. \A v \in Workers : IsSending(v) \in Nat
    BY DEF IsSending
  <2>3. \A v \in Streams : reported[v] \in Nat
    BY DEF ErrorInv, TypeOK
  <2>4. blocked' = blocked /\ failures' = failures
    BY DEF Raise
  <2>5. Pending' = Pending + 1
    BY <1>4, <2>1, <2>2, <2>4 DEF Pending, Workers, Streams
  <2>6. Raised' = Raised + 1
    BY <1>1, <1>2, <2>1, <2>3, <2>4 DEF Raised, Streams
  <2> QED BY <2>5, <2>6
<1>6. errChan' = errChan /\ Taken' = Taken
  BY DEF Raise, Taken
<1>7. errChan \in Nat /\ Pending \in Nat /\ Taken \in Nat /\ Raised \in Nat
  BY DEF ErrorInv, TypeOK, Pending, IsSending, Taken, Raised, Streams
<1> QED
  BY <1>3, <1>5, <1>6, <1>7 DEF ErrorInv, ErrorConservation

LEMMA SendAccounts ==
  ASSUME ErrorInv, NEW w \in Workers, Send(w)
  PROVE  Accounted' /\ ErrorConservation'
<1> DEFINE to == IF w = "cache" THEN "waiting" ELSE "done"
<1>1. /\ \A v \in Workers : v # w => pc'[v] = pc[v]
      /\ pc'[w] = to /\ pc[w] = "sending"
  BY DEF ErrorInv, TypeOK, Send, Move
<1>2. to \in {"waiting", "done"} /\ (w \in Streams => to = "done")
  BY DEF Streams
<1> HIDE DEF to
<1>3. Accounted'
  BY <1>1, <1>2 DEF ErrorInv, Accounted, Send, Move, Workers, Streams, Alive
<1>4. /\ \A v \in Workers : v # w => IsSending(v)' = IsSending(v)
      /\ IsSending(w)' = 0 /\ IsSending(w) = 1
  BY <1>1, <1>2 DEF IsSending
<1>5. Pending' = Pending - 1
  <2>1. blocked \in Nat /\ \A v \in Workers : IsSending(v) \in Nat
    BY DEF ErrorInv, TypeOK, IsSending
  <2> QED
    BY <1>4, <2>1 DEF Pending, Send, Workers, Streams
<1>6. errChan' = errChan + 1 /\ Taken' = Taken /\ Raised' = Raised
  BY DEF Send, Taken, Raised
<1>7. errChan \in Nat /\ Pending \in Nat /\ Taken \in Nat /\ Raised \in Nat
  BY DEF ErrorInv, TypeOK, Pending, IsSending, Taken, Raised, Streams
<1> QED
  BY <1>3, <1>5, <1>6, <1>7 DEF ErrorInv, ErrorConservation

LEMMA ErrorStep == ErrorInv /\ [Next]_vars => ErrorInv'
<1> SUFFICES ASSUME ErrorInv, [Next]_vars
             PROVE  Accounted' /\ ErrorConservation'
  BY TypeStep DEF ErrorInv
<1> USE ExporterAssumption
<1>0. /\ TypeOK /\ Accounted /\ ErrorConservation
      /\ blocked \in Nat /\ failures \in Nat /\ errChan \in Nat
      /\ \A w \in Workers : IsSending(w) \in {0, 1}
      /\ \A w \in Streams : reported[w] \in {0, 1}
  BY DEF ErrorInv, TypeOK, IsSending
<1> USE DEF IsSending, Pending, Raised, Taken
<1>1. CASE Connect
  BY <1>0, <1>1 DEF Connect, Goto, TypeOK, Accounted, ErrorConservation,
                    Workers, Streams, Starting
<1>2. CASE StartFails
  BY <1>0, <1>2 DEF StartFails, FailStart, Goto, Accounted,
                    ErrorConservation, Starting
<1>3. CASE MainStep
  <2>1. CASE Register \/ StartHttp \/ StopHtlc \/ StopPayments \/ TakeSignal
             \/ JoinHtlc \/ JoinPayments \/ Close \/ Exit
    BY <1>0, <2>1 DEF Register, StartHttp, StopHtlc, StopPayments, JoinHtlc,
                      JoinPayments, Close, Exit, TakeSignal, Goto, Accounted,
                      ErrorConservation, Starting
  <2>2. CASE StartHtlc
    BY <1>0, <2>2 DEF StartHtlc, Goto, TypeOK, Accounted, ErrorConservation,
                      Workers, Streams, Starting
  <2>3. CASE StartPayments
    BY <1>0, <2>3 DEF StartPayments, Goto, TypeOK, Accounted,
                      ErrorConservation, Workers, Streams, Starting
  <2>4. CASE TakeError
    <3>1. Accounted'
      BY <1>0, <2>4 DEF TakeError, Goto, Accounted, Starting
    <3>2. Taken = 0 /\ Taken' = 1 /\ errChan' = errChan - 1
      BY <1>0, <2>4 DEF TakeError, Accounted, Starting
    <3>3. Pending' = Pending /\ Raised' = Raised
      BY <2>4 DEF TakeError
    <3> QED
      BY <1>0, <3>1, <3>2, <3>3 DEF ErrorConservation, Streams, Workers
  <2> QED
    BY <1>3, <2>1, <2>2, <2>3, <2>4 DEF MainStep
<1>4. CASE WorkerStep
  <2> USE DEF Workers, Streams, PCs, OpenPCs
  <2>1. CASE HtlcFail \/ HtlcQuit
    BY <2>1, RaiseAccounts DEF HtlcFail, HtlcQuit
  <2>2. CASE PaymentsFail
    BY <2>2, RaiseAccounts DEF PaymentsFail
  <2>3. CASE StateSubscribeFails \/ StateFail
    BY <2>3, RaiseAccounts DEF StateSubscribeFails, StateFail
  <2>4. CASE PaymentsQuit \/ PaymentsListen \/ PaymentsUpdate
    BY <2>4, StepAccounts DEF PaymentsQuit, PaymentsListen, PaymentsUpdate
  <2>5. CASE StateSubscribe \/ StateActive
    BY <2>5, StepAccounts DEF StateSubscribe, StateActive
  <2>6. CASE CacheRefreshed \/ CacheTick \/ CacheQuit
    BY <2>6, StepAccounts DEF CacheRefreshed, CacheTick, CacheQuit
  <2>7. CASE CacheFail
    BY <1>0, <2>7 DEF CacheFail, Move, Alive, TypeOK, Accounted,
                      ErrorConservation
  <2>8. ASSUME NEW w \in Workers, Send(w)
        PROVE  Accounted' /\ ErrorConservation'
    BY <2>8, SendAccounts
  <2> QED
    BY <1>4, <2>1, <2>2, <2>3, <2>4, <2>5, <2>6, <2>7, <2>8 DEF WorkerStep
<1>5. CASE ScrapeStep
  <2>1. CASE StartScrape \/ CollectReturns \/ HttpFails
    BY <1>0, <2>1 DEF StartScrape, CollectReturns, HttpFails, Accounted,
                      ErrorConservation
  <2>2. CASE CollectFail
    <3>1. Accounted'
      BY <1>0, <2>2 DEF CollectFail, Accounted
    <3> QED
      BY <1>0, <2>2, <3>1 DEF CollectFail, ErrorConservation, Workers, Streams
  <2>3. CASE CollectSend
    <3>1. Accounted'
      BY <1>0, <2>3 DEF CollectSend, Accounted
    <3> QED
      BY <1>0, <2>3, <3>1 DEF CollectSend, ErrorConservation, Workers, Streams
  <2> QED
    BY <1>5, <2>1, <2>2, <2>3 DEF ScrapeStep
<1>6. CASE Environment
  BY <1>0, <1>6 DEF Environment, Signal, LoseStream, Accounted,
                    ErrorConservation
<1>7. CASE UNCHANGED vars
  BY <1>0, <1>7 DEF vars, Accounted, ErrorConservation
<1> QED
  BY <1>1, <1>2, <1>3, <1>4, <1>5, <1>6, <1>7 DEF Next, Exited

LEMMA ErrorInit == Init => ErrorInv
<1> SUFFICES ASSUME Init PROVE ErrorInv
  OBVIOUS
<1>1. TypeOK
  BY TypeInit
<1>2. Accounted
  BY ExporterAssumption DEF Init, Accounted, Streams, Workers, Starting
<1>3. ErrorConservation
  BY DEF Init, ErrorConservation, Raised, Pending, Taken, IsSending, Workers,
         Streams
<1> QED
  BY <1>1, <1>2, <1>3 DEF ErrorInv

LEMMA ErrorInvariant == Spec => []ErrorInv
<1>1. Init => ErrorInv
  BY ErrorInit
<1>2. ErrorInv /\ [Next]_vars => ErrorInv'
  BY ErrorStep
<1> QED
  BY <1>1, <1>2, PTL DEF Spec

(* No error is lost or made up: every error raised by a goroutine is at    *)
(* its sender, in the buffer, or received by main.                         *)
THEOREM ErrorsConserved == Spec => []ErrorConservation
<1>1. ErrorInv => ErrorConservation
  BY DEF ErrorInv
<1> QED
  BY <1>1, ErrorInvariant, PTL

(* Whatever the capacity of the error channel: as long as the failed calls *)
(* leave room for one error of each reader, no goroutine ever waits for    *)
(* room in the buffer, although main receives only one error.              *)
THEOREM SendsDoNotBlock == Spec => []NoBlockedSend
<1>1. ErrorInv => NoBlockedSend
  <2> SUFFICES ASSUME ErrorInv,
                      MaxFailures + Readers <= ErrBuf + Taken,
                      Pending > 0, errChan = ErrBuf
               PROVE  FALSE
    BY DEF NoBlockedSend
  <2> USE ExporterAssumption
  <2>1. /\ failures \in Nat /\ failures <= MaxFailures
        /\ \A w \in Streams : reported[w] \in {0, 1}
    BY DEF ErrorInv, TypeOK, Accounted
  <2>2. /\ ~EnableHtlc => reported["htlc"] = 0
        /\ ~EnablePayments => reported["payments"] = 0
    BY DEF ErrorInv, Accounted, Streams
  <2>3. Raised <= MaxFailures + Readers /\ Raised \in Nat
    BY <2>1, <2>2 DEF Raised, Readers, Streams
  <2>4. Pending \in Nat /\ Taken \in Nat /\ Readers \in Nat
    BY DEF ErrorInv, TypeOK, Pending, IsSending, Taken, Readers
  <2>5. ErrBuf + Pending + Taken = Raised
    BY DEF ErrorInv, ErrorConservation
  <2> QED
    BY <2>3, <2>4, <2>5
<1> QED
  BY <1>1, ErrorInvariant, PTL

-----------------------------------------------------------------------------
(* How the process stops                                                   *)

(* main passes a join only when the goroutine has ended, a goroutine that  *)
(* has ended is not started again, and quit is closed for the signal only. *)
JoinInv ==
  /\ main \in {"stopPayments", "joinPayments"} => pc["htlc"] \in {"off", "done"}
  /\ main \in Closing \cup {"exited"} /\ result # "startErr" =>
       \A w \in {"htlc", "payments"} : pc[w] \in {"off", "done"}

QuitInv ==
  /\ "quit" \in closed => signal
  /\ "quit" \in closed <=> main \in Ending /\ result = "nil"

StopInv == ErrorInv /\ JoinInv /\ QuitInv

(* A goroutine that moves does not come out of "off" or "done".            *)
LEMMA EndedStaysEnded ==
  ASSUME ErrorInv, JoinInv, NEW w \in Workers, NEW from, NEW to,
         from \notin {"off", "done"}, Move(w, from, to),
         UNCHANGED <<main, result>>
  PROVE  JoinInv'
<1>1. \A v \in Workers : pc[v] \in {"off", "done"} => pc'[v] = pc[v]
  BY DEF ErrorInv, TypeOK, Move
<1> QED
  BY <1>1 DEF JoinInv, Workers, Streams

LEMMA JoinStep == StopInv /\ [Next]_vars => JoinInv'
<1> SUFFICES ASSUME StopInv, [Next]_vars
             PROVE  JoinInv'
  OBVIOUS
<1> USE ExporterAssumption
<1>0. TypeOK /\ Accounted /\ ErrorInv /\ JoinInv
  BY DEF StopInv, ErrorInv
<1> USE DEF JoinInv, Closing
<1>1. CASE Connect
  BY <1>1 DEF Connect, Goto
<1>2. CASE StartFails
  BY <1>2 DEF StartFails, FailStart, Goto
<1>3. CASE MainStep
  <2>1. CASE Register \/ StartHtlc \/ StartPayments \/ StartHttp
    BY <2>1 DEF Register, StartHtlc, StartPayments, StartHttp, Goto
  <2>2. CASE TakeSignal \/ TakeError
    BY <2>2 DEF TakeSignal, TakeError, Goto
  <2>3. CASE StopHtlc
    BY <1>0, <2>3 DEF StopHtlc, Goto, Accounted
  <2>4. CASE JoinHtlc
    BY <2>4 DEF JoinHtlc, Goto
  <2>5. CASE StopPayments
    BY <1>0, <2>5 DEF StopPayments, Goto, Accounted
  <2>6. CASE JoinPayments
    BY <1>0, <2>6 DEF JoinPayments, Goto
  <2>7. CASE Close \/ Exit
    BY <1>0, <2>7 DEF Close, Exit, Goto
  <2> QED
    BY <1>3, <2>1, <2>2, <2>3, <2>4, <2>5, <2>6, <2>7 DEF MainStep
<1>4. CASE WorkerStep
  <2> USE DEF Workers, Streams
  <2>1. ASSUME NEW w \in Workers, NEW from, from \notin {"off", "done"},
               Raise(w, from)
        PROVE  JoinInv'
    BY <1>0, <2>1, EndedStaysEnded DEF Raise
  <2>2. ASSUME NEW w \in Workers, NEW from, from \notin {"off", "done"},
               NEW to, Step(w, from, to)
        PROVE  JoinInv'
    BY <1>0, <2>2, EndedStaysEnded DEF Step
  <2>3. CASE CacheFail
    BY <1>0, <2>3, EndedStaysEnded DEF CacheFail
  <2>4. ASSUME NEW w \in Workers, Send(w)
        PROVE  JoinInv'
    BY <1>0, <2>4, EndedStaysEnded DEF Send
  <2>5. CASE HtlcFail \/ HtlcQuit \/ PaymentsFail \/ StateSubscribeFails
             \/ StateFail
    BY <2>1, <2>5 DEF HtlcFail, HtlcQuit, PaymentsFail, StateSubscribeFails,
                      StateFail
  <2>6. CASE PaymentsQuit \/ PaymentsListen \/ PaymentsUpdate
    BY <2>2, <2>6 DEF PaymentsQuit, PaymentsListen, PaymentsUpdate
  <2>7. CASE StateSubscribe \/ StateActive
    BY <2>2, <2>7 DEF StateSubscribe, StateActive
  <2>8. CASE CacheRefreshed \/ CacheTick \/ CacheQuit
    BY <2>2, <2>8 DEF CacheRefreshed, CacheTick, CacheQuit
  <2> QED
    BY <1>4, <2>3, <2>4, <2>5, <2>6, <2>7, <2>8 DEF WorkerStep
<1>5. CASE ScrapeStep
  BY <1>0, <1>5 DEF ScrapeStep, StartScrape, CollectReturns, CollectFail,
                    CollectSend, HttpFails
<1>6. CASE Environment
  BY <1>0, <1>6 DEF Environment, Signal, LoseStream
<1>7. CASE UNCHANGED vars
  BY <1>0, <1>7 DEF vars
<1> QED
  BY <1>1, <1>2, <1>3, <1>4, <1>5, <1>6, <1>7 DEF Next, Exited

LEMMA QuitStep == StopInv /\ [Next]_vars => QuitInv'
<1> SUFFICES ASSUME StopInv, [Next]_vars
             PROVE  QuitInv'
  OBVIOUS
<1> USE DEF QuitInv, Goto, Starting, Stopping, Closing, Ending
<1>0. /\ QuitInv /\ TypeOK
      /\ main \in Starting \cup {"waiting"} => result = "nil"
  BY DEF StopInv, ErrorInv, Accounted
<1>1. CASE Connect
  BY <1>0, <1>1 DEF Connect
<1>2. CASE StartFails
  BY <1>0, <1>2 DEF StartFails, FailStart
<1>3. CASE MainStep
  <2>1. CASE Register \/ StartHtlc \/ StartPayments \/ StartHttp
    BY <1>0, <2>1 DEF Register, StartHtlc, StartPayments, StartHttp
  <2>2. CASE TakeSignal
    BY <1>0, <2>2 DEF TakeSignal
  <2>3. CASE TakeError
    BY <1>0, <2>3 DEF TakeError
  <2>4. CASE StopHtlc \/ StopPayments
    BY <1>0, <2>4 DEF StopHtlc, StopPayments
  <2>5. CASE JoinHtlc \/ JoinPayments \/ Close \/ Exit
    BY <1>0, <2>5 DEF JoinHtlc, JoinPayments, Close, Exit
  <2> QED
    BY <1>3, <2>1, <2>2, <2>3, <2>4, <2>5 DEF MainStep
<1>4. CASE WorkerStep
  <2>1. UNCHANGED <<main, result, signal, closed>>
    BY <1>4
       DEF WorkerStep, Step, Raise, Send, CacheFail, HtlcFail, HtlcQuit,
           PaymentsQuit, PaymentsListen, PaymentsUpdate, PaymentsFail,
           StateSubscribe, StateSubscribeFails, StateActive, StateFail,
           CacheRefreshed, CacheTick, CacheQuit
  <2> QED
    BY <1>0, <2>1
<1>5. CASE ScrapeStep
  BY <1>0, <1>5 DEF ScrapeStep, StartScrape, CollectReturns, CollectFail,
                    CollectSend, HttpFails
<1>6. CASE Environment
  BY <1>0, <1>6 DEF Environment, Signal, LoseStream
<1>7. CASE UNCHANGED vars
  BY <1>0, <1>7 DEF vars
<1> QED
  BY <1>1, <1>2, <1>3, <1>4, <1>5, <1>6, <1>7 DEF Next, Exited

LEMMA StopInvariant == Spec => []StopInv
<1>1. Init => StopInv
  <2> SUFFICES ASSUME Init PROVE JoinInv /\ QuitInv /\ ErrorInv
    BY DEF StopInv
  <2> QED
    BY ErrorInit DEF Init, JoinInv, QuitInv, Stopping, Closing, Ending
<1>2. StopInv /\ [Next]_vars => StopInv'
  BY ErrorStep, JoinStep, QuitStep DEF StopInv
<1> QED
  BY <1>1, <1>2, PTL DEF Spec

(* The exit status tells a signal from an error, and an error that is      *)
(* returned was raised by a goroutine.                                     *)
THEOREM ExitStatusCorrect == Spec => []ExitStatus
<1>1. StopInv => ExitStatus
  <2> SUFFICES ASSUME StopInv
               PROVE  ExitStatus
    OBVIOUS
  <2>1. ErrorConservation /\ TypeOK /\ QuitInv
    BY DEF StopInv, ErrorInv
  <2>2. result = "stopErr" => Raised > 0
    BY <2>1, ExporterAssumption
       DEF TypeOK, ErrorConservation, Pending, IsSending, Taken
  <2> QED
    BY <2>1, <2>2 DEF ExitStatus, QuitInv, Ending
<1> QED
  BY <1>1, StopInvariant, PTL

-----------------------------------------------------------------------------
(* The exporter implements Lifecycle                                       *)

(* A goroutine that moves keeps the set of live monitors, or leaves it.    *)
LEMMA MoveLive ==
  ASSUME TypeOK, NEW w \in Workers, NEW from, NEW to,
         from \notin {"off", "done"}, to # "off",
         Move(w, from, to), UNCHANGED <<main, result, closed>>
  PROVE  [Abstract!Next]_(Abstract!vars)
<1>1. Phase' = Phase /\ Cause' = Cause
  BY DEF Phase, Cause
<1>2. /\ \A v \in Workers : v # w => pc'[v] = pc[v]
      /\ pc[w] = from /\ pc'[w] = to
  BY DEF TypeOK, Move
<1>3. CASE to = "done" /\ w \in {"htlc", "payments"}
  <2>1. w \in Live /\ Live' = Live \ {w}
    BY <1>2, <1>3 DEF Live, Workers, Streams
  <2>2. Abstract!EndMonitor(w)
    BY <1>1, <2>1 DEF Abstract!EndMonitor
  <2> QED
    BY <1>3, <2>2 DEF Abstract!Next
<1>4. CASE ~(to = "done" /\ w \in {"htlc", "payments"})
  <2>1. Live' = Live
    BY <1>2, <1>4 DEF Live, Workers, Streams
  <2> QED
    BY <1>1, <2>1 DEF Abstract!vars
<1> QED
  BY <1>3, <1>4

LEMMA LifecycleStep == StopInv /\ [Next]_vars => [Abstract!Next]_(Abstract!vars)
<1> SUFFICES ASSUME StopInv, [Next]_vars
             PROVE  [Abstract!Next]_(Abstract!vars)
  OBVIOUS
<1>0. TypeOK /\ Accounted /\ JoinInv /\ QuitInv
  BY DEF StopInv, ErrorInv
<1> USE DEF Goto, Starting, Stopping, Closing
<1>1. CASE Connect
  BY <1>0, <1>1
     DEF Connect, Phase, Cause, Live, TypeOK, Abstract!vars, Workers, Streams
<1>2. CASE StartFails
  <2>1. /\ Phase = "starting" /\ Phase' \in {"closing", "exited"}
        /\ Cause' = "startErr"
    BY <1>2 DEF StartFails, FailStart, Phase, Cause
  <2>2. Live' = Live
    BY <1>2 DEF StartFails, FailStart, Live
  <2> QED
    BY <2>1, <2>2 DEF Abstract!Next, Abstract!AbortStart
<1>3. CASE MainStep
  <2>1. CASE Register
    BY <2>1 DEF Register, Phase, Cause, Live, Abstract!vars
  <2>2. CASE StartHtlc
    <3>1. /\ Phase = "starting" /\ Phase' = Phase /\ Cause' = Cause
      BY <2>2 DEF StartHtlc, Phase, Cause
    <3>2. Live' = Live \/ Live' = Live \cup {"htlc"}
      BY <1>0, <2>2 DEF StartHtlc, Live, TypeOK, Workers, Streams
    <3> QED
      BY <3>1, <3>2 DEF Abstract!Next, Abstract!StartMonitor, Abstract!vars
  <2>3. CASE StartPayments
    <3>1. /\ Phase = "starting" /\ Phase' = Phase /\ Cause' = Cause
      BY <2>3 DEF StartPayments, Phase, Cause
    <3>2. Live' = Live \/ Live' = Live \cup {"payments"}
      BY <1>0, <2>3 DEF StartPayments, Live, TypeOK, Workers, Streams
    <3> QED
      BY <3>1, <3>2 DEF Abstract!Next, Abstract!StartMonitor, Abstract!vars
  <2>4. CASE StartHttp
    <3>1. /\ Phase = "starting" /\ Phase' = "running" /\ Cause' = Cause
          /\ Live' = Live
      BY <2>4 DEF StartHttp, Phase, Cause, Live
    <3> QED
      BY <3>1 DEF Abstract!Next, Abstract!Started
  <2>5. CASE TakeSignal
    <3>1. /\ Phase = "running" /\ Phase' = "stopping" /\ Cause' = "signal"
          /\ Live' = Live
      BY <1>0, <2>5 DEF TakeSignal, Phase, Cause, Live, Accounted
    <3> QED
      BY <3>1 DEF Abstract!Next, Abstract!BeginStop
  <2>6. CASE TakeError
    <3>1. /\ Phase = "running" /\ Phase' = "stopping" /\ Cause' = "stopErr"
          /\ Live' = Live
      BY <2>6 DEF TakeError, Phase, Cause, Live
    <3> QED
      BY <3>1 DEF Abstract!Next, Abstract!BeginStop
  <2>7. CASE StopHtlc
    BY <2>7 DEF StopHtlc, Phase, Cause, Live, Abstract!vars
  <2>8. CASE JoinHtlc
    BY <2>8 DEF JoinHtlc, Phase, Cause, Live, Abstract!vars
  <2>9. CASE StopPayments
    <3>1. Phase = "stopping" /\ Cause' = Cause /\ Live' = Live
      BY <2>9 DEF StopPayments, Phase, Cause, Live
    <3>2. CASE EnablePayments
      BY <2>9, <3>1, <3>2 DEF StopPayments, Phase, Abstract!vars
    <3>3. CASE ~EnablePayments
      <4>1. Phase' = "closing" /\ Live = {}
        BY <1>0, <2>9, <3>3
           DEF StopPayments, Phase, Live, Accounted, JoinInv
      <4> QED
        BY <3>1, <4>1 DEF Abstract!Next, Abstract!FinishStop
    <3> QED
      BY <3>2, <3>3
  <2>10. CASE JoinPayments
    <3>1. /\ Phase = "stopping" /\ Phase' = "closing" /\ Cause' = Cause
          /\ Live' = Live /\ Live = {}
      BY <1>0, <2>10 DEF JoinPayments, Phase, Cause, Live, JoinInv
    <3> QED
      BY <3>1 DEF Abstract!Next, Abstract!FinishStop
  <2>11. CASE Close
    BY <2>11 DEF Close, Phase, Cause, Live, Abstract!vars
  <2>12. CASE Exit
    <3>1. /\ Phase = "closing" /\ Phase' = "exited" /\ Cause' = Cause
          /\ Live' = Live
      BY <2>12 DEF Exit, Phase, Cause, Live
    <3> QED
      BY <3>1 DEF Abstract!Next, Abstract!Exit
  <2> QED
    BY <1>3, <2>1, <2>2, <2>3, <2>4, <2>5, <2>6, <2>7, <2>8, <2>9, <2>10,
       <2>11, <2>12 DEF MainStep
<1>4. CASE WorkerStep
  <2> USE DEF Workers, Streams
  <2>1. ASSUME NEW w \in Workers, NEW from, from \notin {"off", "done"},
               Raise(w, from)
        PROVE  [Abstract!Next]_(Abstract!vars)
    BY <1>0, <2>1, MoveLive DEF Raise
  <2>2. ASSUME NEW w \in Workers, NEW from, from \notin {"off", "done"},
               NEW to, to # "off", Step(w, from, to)
        PROVE  [Abstract!Next]_(Abstract!vars)
    BY <1>0, <2>2, MoveLive DEF Step
  <2>3. CASE CacheFail
    BY <1>0, <2>3, MoveLive DEF CacheFail
  <2>4. ASSUME NEW w \in Workers, Send(w)
        PROVE  [Abstract!Next]_(Abstract!vars)
    BY <1>0, <2>4, MoveLive DEF Send
  <2>5. CASE HtlcFail \/ HtlcQuit \/ PaymentsFail \/ StateSubscribeFails
             \/ StateFail
    BY <2>1, <2>5 DEF HtlcFail, HtlcQuit, PaymentsFail, StateSubscribeFails,
                      StateFail
  <2>6. CASE PaymentsQuit \/ PaymentsListen \/ PaymentsUpdate
    BY <2>2, <2>6 DEF PaymentsQuit, PaymentsListen, PaymentsUpdate
  <2>7. CASE StateSubscribe \/ StateActive
    BY <2>2, <2>7 DEF StateSubscribe, StateActive
  <2>8. CASE CacheRefreshed \/ CacheTick \/ CacheQuit
    BY <2>2, <2>8 DEF CacheRefreshed, CacheTick, CacheQuit
  <2> QED
    BY <1>4, <2>3, <2>4, <2>5, <2>6, <2>7, <2>8 DEF WorkerStep
<1>5. CASE ScrapeStep \/ Environment \/ UNCHANGED vars
  <2>1. UNCHANGED <<main, pc, result, closed>>
    BY <1>5 DEF ScrapeStep, StartScrape, CollectReturns, CollectFail,
                CollectSend, HttpFails, Environment, Signal, LoseStream, vars
  <2> QED
    BY <2>1 DEF Phase, Cause, Live, Abstract!vars
<1> QED
  BY <1>1, <1>2, <1>3, <1>4, <1>5 DEF Next, Exited

(* Every behaviour of the exporter is one of its life cycle.               *)
THEOREM LifecycleImplemented == Spec => ImplementsLifecycle
<1>1. Init => Abstract!Init
  <2> SUFFICES ASSUME Init PROVE Abstract!Init
    OBVIOUS
  <2>1. Phase = "starting" /\ Cause = "none"
    BY DEF Init, Phase, Cause, Starting, Stopping, Closing
  <2>2. \A w \in {"htlc", "payments"} : pc[w] = "off"
    BY DEF Init, Workers, Streams
  <2>3. Live = {}
    BY <2>2 DEF Live
  <2> QED
    BY <2>1, <2>3 DEF Abstract!Init
<1>2. StopInv /\ [Next]_vars => [Abstract!Next]_(Abstract!vars)
  BY LifecycleStep
<1> QED
  BY <1>1, <1>2, StopInvariant, PTL DEF Spec, ImplementsLifecycle, Abstract!Spec
=============================================================================
