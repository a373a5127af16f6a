------------------------ MODULE PaymentsMonitorProofs -----------------------
(***************************************************************************)
(* Proofs about the payments monitor, for any statuses, any numbers of     *)
(* attempts, and a log of any length. That the metrics are what the log    *)
(* adds up to is inductive with the types: each step takes one payment     *)
(* more into one of the metrics. For scrapes the idea is that the metrics  *)
(* only grow, so that what is read lies between what was there when the    *)
(* scrape began and what is there now, and that at any one time they       *)
(* differ by the payment in process.                                       *)
(***************************************************************************)
EXTENDS PaymentsMonitor, SumTheorems, SequenceTheorems

(* The metrics differ by the payment in process.                           *)
BalanceInv ==
  /\ Total(payments) =
       histogram.count + (IF pc \in {"counted", "added"} THEN 1 ELSE 0)
  /\ Total(attempts) =
       histogram.sum + (IF pc = "added" THEN log[n].attempts ELSE 0)

(* What a scrape that is at an end has read of a metric, or what one that  *)
(* goes on will have: it is not below the value b at the beginning and not *)
(* above the value c that there is now.                                    *)
Between(m, b, s, c) ==
  /\ b <= c
  /\ m \notin todo => b <= s /\ s <= c

PaymentsRead ==
  \A l \in Labels : Between(<<"payments", l>>, began.payments[l],
                            seen.payments[l], payments[l])
AttemptsRead ==
  \A l \in Labels : Between(<<"attempts", l>>, began.attempts[l],
                            seen.attempts[l], attempts[l])
HistogramRead ==
  /\ Between(<<"histogram", "all">>, began.histogram.count,
             seen.histogram.count, histogram.count)
  /\ Between(<<"histogram", "all">>, began.histogram.sum,
             seen.histogram.sum, histogram.sum)

(* When the scrape began the histogram was not ahead of the vectors.       *)
BeganInv ==
  /\ began.histogram.count <= Total(began.payments)
  /\ began.histogram.sum <= Total(began.attempts)

IInv ==
  /\ TypeOK
  /\ MetricsMatchLog
  /\ BalanceInv
  /\ PaymentsRead /\ AttemptsRead /\ HistogramRead
  /\ BeganInv

-----------------------------------------------------------------------------
LEMMA LabelIsLabel == \A s : Label(s) \in Labels
BY DEF Label, Labels

(* One more at a label is one more in all.                                 *)
LEMMA TotalAdds ==
  ASSUME NEW f \in [Labels -> Nat], NEW l \in Labels, NEW k \in Nat
  PROVE  /\ [f EXCEPT ![l] = @ + k] \in [Labels -> Nat]
         /\ Total([f EXCEPT ![l] = @ + k]) = Total(f) + k
         /\ Total(f) \in Nat
BY DEF Total, Labels

LEMMA WindowsAreFinite ==
  ASSUME TypeOK, NEW to \in Int
  PROVE  /\ IsFiniteSet(Window(to)) /\ Window(to) \subseteq Int
         /\ \A l : IsFiniteSet(Under(l, to)) /\ Under(l, to) \subseteq Window(to)
<1>1. IsFiniteSet(Window(to)) /\ Window(to) \subseteq Int
  <2>1. base + 1 \in Int
    BY DEF TypeOK
  <2>2. IsFiniteSet(base + 1 .. to) /\ IsFiniteSet({})
    BY <2>1, FS_Interval, FS_EmptySet
  <2> QED BY <2>2 DEF Window
<1> QED BY <1>1, FS_Subset DEF Under

(* The payments and what they say are in the log.                          *)
LEMMA AttemptsType ==
  ASSUME TypeOK, NEW i \in 1..Len(log)
  PROVE  log[i].attempts \in Nat
<1>1. log[i] \in [status : Statuses, attempts : Attempts]
  BY ElementOfSeq DEF TypeOK
<1> QED BY <1>1, PaymentsAssumption

LEMMA WindowInLog ==
  ASSUME TypeOK, NEW to \in Int, to <= Len(log)
  PROVE  Window(to) \subseteq 1..Len(log)
BY DEF Window, TypeOK

-----------------------------------------------------------------------------
(* A step that leaves the metrics and the window as they are               *)
LEMMA SameWindow ==
  ASSUME TypeOK, MetricsMatchLog,
         UNCHANGED <<base, n, metrics>>,
         pc = "off" <=> pc' = "off",
         Added' = Added, Observed' = Observed,
         Len(log) <= Len(log'), \A i \in 1..Len(log) : log'[i] = log[i]
  PROVE  MetricsMatchLog'
<1>1. /\ n \in Int /\ n <= Len(log)
      /\ Added \in Int /\ Added <= Len(log)
      /\ Observed \in Int /\ Observed <= Len(log)
  BY DEF TypeOK, Added, Observed
<1>2. ASSUME NEW to \in Int, to <= Len(log), NEW l
      PROVE  /\ Cardinality(Window(to))' = Cardinality(Window(to))
             /\ SumAttempts(Window(to))' = SumAttempts(Window(to))
             /\ Cardinality(Under(l, to))' = Cardinality(Under(l, to))
             /\ SumAttempts(Under(l, to))' = SumAttempts(Under(l, to))
  <2>1. /\ Window(to)' = Window(to)
        /\ \A i \in Window(to) : log'[i] = log[i] /\ log[i].attempts \in Int
    BY <1>2, WindowInLog, AttemptsType DEF Window
  <2>2. Under(l, to)' = Under(l, to) /\ Under(l, to) \subseteq Window(to)
    BY <2>1 DEF Under
  <2>3. IsFiniteSet(Window(to)) /\ IsFiniteSet(Under(l, to))
    BY WindowsAreFinite
  <2>4. ASSUME NEW S \in SUBSET Window(to), IsFiniteSet(S)
        PROVE  SumFunction([i \in S |-> log'[i].attempts])
                 = SumFunction([i \in S |-> log[i].attempts])
    <3> DEFINE f == [i \in S |-> log[i].attempts]
               h == [i \in S |-> log'[i].attempts]
    <3>1. /\ DOMAIN h = DOMAIN f /\ IsFiniteSet(DOMAIN f)
          /\ \A i \in DOMAIN f : f[i] \in Int /\ h[i] = f[i]
      BY <2>1, <2>4
    <3> HIDE DEF f, h
    <3>2. SumFunction(h) = SumFunction(f)
      BY <3>1, SumOfEqual
    <3> QED BY <3>2 DEF f, h
  <2>5. SumFunction([i \in Window(to) |-> log'[i].attempts])
          = SumFunction([i \in Window(to) |-> log[i].attempts])
    BY <2>3, <2>4
  <2>6. SumFunction([i \in Under(l, to) |-> log'[i].attempts])
          = SumFunction([i \in Under(l, to) |-> log[i].attempts])
    BY <2>2, <2>3, <2>4
  <2> QED BY <2>1, <2>2, <2>5, <2>6, Zenon DEF SumAttempts
<1> QED
  BY <1>1, <1>2 DEF MetricsMatchLog, metrics

(* One payment more in a window                                            *)
LEMMA OneMore ==
  ASSUME TypeOK, pc # "off", NEW to \in Nat, base <= to, to < Len(log)
  PROVE  /\ Cardinality(Window(to + 1)) = Cardinality(Window(to)) + 1
         /\ SumAttempts(Window(to + 1))
              = SumAttempts(Window(to)) + log[to + 1].attempts
         /\ \A l :
              IF Label(log[to + 1].status) = l
              THEN /\ Cardinality(Under(l, to + 1)) = Cardinality(Under(l, to)) + 1
                   /\ SumAttempts(Under(l, to + 1))
                        = SumAttempts(Under(l, to)) + log[to + 1].attempts
              ELSE Under(l, to + 1) = Under(l, to)
<1> DEFINE i == to + 1
<1>1. /\ i \notin Window(to) /\ i \in 1..Len(log)
      /\ IsFiniteSet(Window(to)) /\ Window(to) \subseteq 1..Len(log)
  BY WindowsAreFinite, WindowInLog DEF Window, TypeOK
<1>2. \A k \in 1..Len(log) : log[k].attempts \in Nat
  BY AttemptsType
<1>3. ASSUME NEW S \in SUBSET Window(to)
      PROVE  /\ Cardinality(S \cup {i}) = Cardinality(S) + 1
             /\ SumAttempts(S \cup {i}) = SumAttempts(S) + log[i].attempts
  <2>1. IsFiniteSet(S) /\ i \notin S
    BY <1>1, FS_Subset
  <2> DEFINE f == [k \in S |-> log[k].attempts]
             h == [k \in S \cup {i} |-> log[k].attempts]
  <2>2. /\ IsFiniteSet(DOMAIN f) /\ i \notin DOMAIN f
        /\ DOMAIN h = DOMAIN f \cup {i} /\ h[i] \in Int /\ h[i] = log[i].attempts
        /\ \A k \in DOMAIN f : f[k] \in Int /\ h[k] = f[k]
    BY <1>1, <1>2, <2>1
  <2>3. SumFunction(h) = SumFunction(f) + h[i]
    <3> HIDE DEF f, h
    <3> QED BY <2>2, SumOfMore
  <2>4. Cardinality(S \cup {i}) = Cardinality(S) + 1
    BY <2>1, FS_AddElement
  <2> QED BY <2>2, <2>3, <2>4 DEF SumAttempts
<1>4. Window(i) = Window(to) \cup {i}
  BY DEF Window, TypeOK
<1>5. ASSUME NEW l, Label(log[i].status) = l
      PROVE  Under(l, i) = Under(l, to) \cup {i}
  BY <1>4, <1>5 DEF Under
<1>6. ASSUME NEW l, Label(log[i].status) # l
      PROVE  Under(l, i) = Under(l, to)
  BY <1>4, <1>6 DEF Under
<1>7. \A l : Under(l, to) \in SUBSET Window(to)
  BY DEF Under
<1> HIDE DEF i
<1>8. /\ Cardinality(Window(i)) = Cardinality(Window(to)) + 1
      /\ SumAttempts(Window(i)) = SumAttempts(Window(to)) + log[i].attempts
  BY <1>3, <1>4, Zenon
<1>9. ASSUME NEW l, Label(log[i].status) = l
      PROVE  /\ Cardinality(Under(l, i)) = Cardinality(Under(l, to)) + 1
             /\ SumAttempts(Under(l, i))
                  = SumAttempts(Under(l, to)) + log[i].attempts
  BY <1>3, <1>5, <1>7, <1>9, Zenon
<1> QED BY <1>6, <1>8, <1>9 DEF i

(* What MetricsMatchLog says after a step of the goroutine                 *)
LEMMA MatchNext ==
  ASSUME UNCHANGED <<log, base>>, pc # "off", pc' # "off",
         NEW i, n' = i, NEW a, Added' = a, NEW o, Observed' = o,
         \A l \in Labels : /\ payments'[l] = Cardinality(Under(l, i))
                           /\ attempts'[l] = SumAttempts(Under(l, a)),
         histogram'.count = Cardinality(Window(o)),
         histogram'.sum = SumAttempts(Window(o))
  PROVE  MetricsMatchLog'
<1>1. \A to : Window(to)' = Window(to)
  BY DEF Window
<1>2. \A l, to : Under(l, to)' = Under(l, to)
  BY DEF Under, Window
<1> QED BY <1>1, <1>2 DEF MetricsMatchLog, SumAttempts

-----------------------------------------------------------------------------
(* The types                                                               *)

LEMMA ValuesParts ==
  ASSUME NEW p, NEW a, NEW h
  PROVE  [payments |-> p, attempts |-> a, histogram |-> h] \in Values <=>
           /\ p \in [Labels -> Nat] /\ a \in [Labels -> Nat]
           /\ h \in [count : Nat, sum : Nat]
BY DEF Values

LEMMA NoneType == None \in Values
BY DEF None, Values

(* Taking what is there of a metric into what has been read                *)
ReadOf(s, c, m) ==
  IF m[1] = "histogram" THEN [s EXCEPT !.histogram = c.histogram]
  ELSE [s EXCEPT ![m[1]][m[2]] = c[m[1]][m[2]]]

LEMMA ReadMetric ==
  ASSUME NEW s \in Values, NEW c \in Values, NEW m \in Metrics
  PROVE  /\ ReadOf(s, c, m) \in Values
         /\ \A l \in Labels :
              /\ ReadOf(s, c, m).payments[l] =
                   IF m = <<"payments", l>> THEN c.payments[l] ELSE s.payments[l]
              /\ ReadOf(s, c, m).attempts[l] =
                   IF m = <<"attempts", l>> THEN c.attempts[l] ELSE s.attempts[l]
         /\ ReadOf(s, c, m).histogram =
              IF m = <<"histogram", "all">> THEN c.histogram ELSE s.histogram
<1>1. CASE m = <<"histogram", "all">>
  BY <1>1 DEF Values, ReadOf
<1>2. CASE \E l \in Labels : m = <<"payments", l>>
  BY <1>2 DEF Values, ReadOf
<1>3. CASE \E l \in Labels : m = <<"attempts", l>>
  BY <1>3 DEF Values, ReadOf
<1> QED BY <1>1, <1>2, <1>3 DEF Metrics

LEMMA ScrapeReadsIsReadOf ==
  ASSUME NEW m \in Metrics, ScrapeReads(m)
  PROVE  seen' = ReadOf(seen, Current, m)
BY DEF ScrapeReads, ReadOf, Current

LEMMA TypeNext == TypeOK /\ [Next]_vars => TypeOK'
<1> SUFFICES ASSUME TypeOK, [Next]_vars PROVE TypeOK'
  OBVIOUS
<1> USE DEF TypeOK
<1>1. CASE LndFinishes
  <2>1. PICK s \in Statuses, a \in Attempts :
               log' = Append(log, [status |-> s, attempts |-> a])
    BY <1>1 DEF LndFinishes
  <2>2. /\ log' \in Seq([status : Statuses, attempts : Attempts])
        /\ Len(log') = Len(log) + 1 /\ Len(log) \in Nat
    BY <2>1, AppendProperties
  <2>3. UNCHANGED <<base, n, pc, metrics, scrape>>
    BY <1>1 DEF LndFinishes
  <2> QED BY <2>2, <2>3 DEF metrics, scrape, Current
<1>2. CASE Start \/ End
  BY <1>2 DEF Start, End, metrics, scrape, Current
<1>3. CASE Restart
  BY <1>3, NoneType DEF Restart, Current, None
<1>4. CASE CountPayment
  <2>1. payments' \in [Labels -> Nat]
    BY <1>4, LabelIsLabel, ValuesParts, TotalAdds DEF CountPayment, Current
  <2>2. Current' \in Values
    BY <1>4, <2>1, ValuesParts DEF CountPayment, Current
  <2>3. base \in Nat /\ n \in Nat /\ n' = n + 1 /\ n' <= Len(log) /\ n' > base
    BY <1>4 DEF CountPayment
  <2>4. pc' = "counted" /\ UNCHANGED <<log, base, seen, began, todo>>
    BY <1>4 DEF CountPayment, scrape
  <2> QED BY <2>2, <2>3, <2>4
<1>5. CASE AddAttempts
  <2>1. payment.attempts \in Nat
    BY <1>5, AttemptsType DEF AddAttempts, payment
  <2>2. attempts' \in [Labels -> Nat]
    BY <1>5, <2>1, LabelIsLabel, ValuesParts, TotalAdds DEF AddAttempts, Current
  <2> QED BY <1>5, <2>2, ValuesParts DEF AddAttempts, scrape, Current
<1>6. CASE Observe
  <2>1. payment.attempts \in Nat
    BY <1>6, AttemptsType DEF Observe, payment
  <2>2. histogram' \in [count : Nat, sum : Nat]
    BY <1>6, <2>1, ValuesParts DEF Observe, Current
  <2> QED BY <1>6, <2>2, ValuesParts DEF Observe, scrape, Current
<1>7. CASE ScrapeBegins
  BY <1>7, NoneType DEF ScrapeBegins, metrics, Current
<1>8. ASSUME NEW m \in Metrics, ScrapeReads(m) PROVE TypeOK'
  <2>1. seen' \in Values
    BY <1>8, ScrapeReadsIsReadOf, ReadMetric
  <2> QED BY <1>8, <2>1 DEF ScrapeReads, metrics, Current
<1>9. CASE UNCHANGED vars
  BY <1>9 DEF vars, metrics, scrape, Current
<1> QED
  BY <1>1, <1>2, <1>3, <1>4, <1>5, <1>6, <1>7, <1>8, <1>9 DEF Next

-----------------------------------------------------------------------------
(* The metrics against the log                                             *)

LEMMA MatchInv == TypeOK /\ MetricsMatchLog /\ [Next]_vars => MetricsMatchLog'
<1> SUFFICES ASSUME TypeOK, MetricsMatchLog, [Next]_vars PROVE MetricsMatchLog'
  OBVIOUS
<1>1. CASE LndFinishes
  <2>1. PICK s \in Statuses, a \in Attempts :
               log' = Append(log, [status |-> s, attempts |-> a])
    BY <1>1 DEF LndFinishes
  <2>2. /\ Len(log) <= Len(log')
        /\ \A i \in 1..Len(log) : log'[i] = log[i]
    BY <2>1, AppendProperties DEF TypeOK
  <2> QED
    BY <1>1, <2>2, SameWindow DEF LndFinishes, Added, Observed, metrics
<1>2. CASE End
  BY <1>2, SameWindow DEF End, Added, Observed, TypeOK, metrics
<1>3. CASE ScrapeBegins \/ (\E m \in Metrics : ScrapeReads(m)) \/ UNCHANGED vars
  <2>1. UNCHANGED <<log, base, n, pc, payments, attempts, histogram>>
    BY <1>3 DEF ScrapeBegins, ScrapeReads, metrics, vars
  <2> QED
    BY <2>1, SameWindow DEF Added, Observed, TypeOK, metrics
<1>4. CASE Start \/ Restart
  <2>1. Cardinality({}) = 0 /\ SumAttempts({}) = 0 /\ SumAttempts({})' = 0
    BY FS_EmptySet, SumOfNone DEF SumAttempts
  <2>2. /\ Window(n)' = {} /\ Window(Added)' = {} /\ Window(Observed)' = {}
    <3>1. CASE Start
      <4>1. n' \in Nat /\ base' = n' /\ Added' = n' /\ Observed' = n'
        BY <3>1 DEF Start, Added, Observed, TypeOK
      <4> QED BY <4>1 DEF Window
    <3>2. CASE Restart
      BY <3>2 DEF Restart, Window
    <3> QED BY <1>4, <3>1, <3>2
  <2>3. \A l \in Labels : Under(l, n)' = {} /\ Under(l, Added)' = {}
    BY <2>2 DEF Under
  <2>4. /\ \A l \in Labels : payments'[l] = 0 /\ attempts'[l] = 0
        /\ histogram'.count = 0 /\ histogram'.sum = 0
    <3>1. CASE Start
      <4>1. /\ \A to : Window(to) = {}
            /\ UNCHANGED <<payments, attempts, histogram>>
        BY <3>1 DEF Start, Window, metrics
      <4>2. \A l, to : Under(l, to) = {}
        BY <4>1 DEF Under
      <4> QED BY <2>1, <4>1, <4>2 DEF MetricsMatchLog
    <3>2. CASE Restart
      BY <3>2 DEF Restart, None
    <3> QED BY <1>4, <3>1, <3>2
  <2> QED BY <2>1, <2>2, <2>3, <2>4 DEF MetricsMatchLog
<1>5. CASE CountPayment
  <2>1. /\ pc = "receiving" /\ pc' = "counted" /\ n < Len(log) /\ n' = n + 1
        /\ payments' = [payments EXCEPT ![Label(log[n + 1].status)] = @ + 1]
        /\ UNCHANGED <<log, base, attempts, histogram>>
    BY <1>5 DEF CountPayment
  <2>2. /\ n \in Nat /\ base <= n
        /\ Added = n /\ Observed = n /\ Added' = n /\ Observed' = n
    BY <2>1 DEF Added, Observed, TypeOK
  <2>3. \A l \in Labels : payments'[l] = Cardinality(Under(l, n + 1))
    <3>1. payments \in [Labels -> Nat]
      BY ValuesParts DEF TypeOK, Current
    <3> QED BY <2>1, <2>2, <3>1, OneMore DEF MetricsMatchLog
  <2>4. /\ \A l \in Labels : attempts'[l] = SumAttempts(Under(l, n))
        /\ histogram'.count = Cardinality(Window(n))
        /\ histogram'.sum = SumAttempts(Window(n))
    BY <2>1, <2>2 DEF MetricsMatchLog
  <2> QED BY <2>1, <2>2, <2>3, <2>4, MatchNext
<1>6. CASE AddAttempts
  <2>1. /\ pc = "counted" /\ pc' = "added"
        /\ attempts' =
             [attempts EXCEPT ![Label(log[n].status)] = @ + log[n].attempts]
        /\ UNCHANGED <<log, base, n, payments, histogram>>
    BY <1>6 DEF AddAttempts, payment
  <2>2. /\ n \in Nat /\ n - 1 \in Nat /\ base <= n - 1 /\ n - 1 < Len(log)
        /\ (n - 1) + 1 = n
        /\ Added = n - 1 /\ Observed = n - 1 /\ Added' = n /\ Observed' = n - 1
    BY <2>1 DEF Added, Observed, TypeOK
  <2>3. \A l \in Labels : attempts'[l] = SumAttempts(Under(l, n))
    <3>1. attempts \in [Labels -> Nat]
      BY ValuesParts DEF TypeOK, Current
    <3> QED BY <2>1, <2>2, <3>1, OneMore DEF MetricsMatchLog
  <2>4. /\ \A l \in Labels : payments'[l] = Cardinality(Under(l, n))
        /\ histogram'.count = Cardinality(Window(n - 1))
        /\ histogram'.sum = SumAttempts(Window(n - 1))
    BY <2>1, <2>2 DEF MetricsMatchLog
  <2> QED BY <2>1, <2>2, <2>3, <2>4, MatchNext
<1>7. CASE Observe
  <2>1. /\ pc = "added" /\ pc' = "receiving"
        /\ histogram' = [count |-> histogram.count + 1,
                         sum   |-> histogram.sum + log[n].attempts]
        /\ UNCHANGED <<log, base, n, payments, attempts>>
    BY <1>7 DEF Observe, payment
  <2>2. /\ n \in Nat /\ n - 1 \in Nat /\ base <= n - 1 /\ n - 1 < Len(log)
        /\ (n - 1) + 1 = n
        /\ Added = n /\ Observed = n - 1 /\ Added' = n /\ Observed' = n
    BY <2>1 DEF Added, Observed, TypeOK
  <2>3. /\ histogram'.count = Cardinality(Window(n))
        /\ histogram'.sum = SumAttempts(Window(n))
    BY <2>1, <2>2, OneMore DEF MetricsMatchLog
  <2>4. \A l \in Labels : /\ payments'[l] = Cardinality(Under(l, n))
                          /\ attempts'[l] = SumAttempts(Under(l, n))
    BY <2>1, <2>2 DEF MetricsMatchLog
  <2> QED BY <2>1, <2>2, <2>3, <2>4, MatchNext
<1> QED
  BY <1>1, <1>2, <1>3, <1>4, <1>5, <1>6, <1>7 DEF Next

-----------------------------------------------------------------------------
(* The metrics against each other                                          *)

LEMMA BalanceNext == TypeOK /\ BalanceInv /\ [Next]_vars => BalanceInv'
<1> SUFFICES ASSUME TypeOK, BalanceInv, [Next]_vars PROVE BalanceInv'
  OBVIOUS
<1>0. /\ payments \in [Labels -> Nat] /\ attempts \in [Labels -> Nat]
      /\ histogram \in [count : Nat, sum : Nat]
  BY ValuesParts DEF TypeOK, Current
<1>1. CASE LndFinishes
  <2>1. PICK s \in Statuses, a \in Attempts :
               log' = Append(log, [status |-> s, attempts |-> a])
    BY <1>1 DEF LndFinishes
  <2>2. pc = "added" => log'[n] = log[n]
    BY <2>1, AppendProperties DEF TypeOK
  <2>3. UNCHANGED <<n, pc, payments, attempts, histogram>>
    BY <1>1 DEF LndFinishes, metrics
  <2> QED BY <2>2, <2>3 DEF BalanceInv, Total
<1>2. CASE Start \/ End
  <2>1. /\ pc \in {"off", "receiving"} /\ pc' \in {"receiving", "failed"}
        /\ UNCHANGED <<payments, attempts, histogram>>
    BY <1>2 DEF Start, End, metrics
  <2> QED BY <2>1 DEF BalanceInv, Total
<1>3. CASE Restart
  BY <1>3 DEF Restart, BalanceInv, Total, None, Labels
<1>4. CASE CountPayment
  <2>1. /\ pc = "receiving" /\ pc' = "counted"
        /\ payments' = [payments EXCEPT ![Label(log[n + 1].status)] = @ + 1]
        /\ UNCHANGED <<attempts, histogram>>
    BY <1>4 DEF CountPayment
  <2>2. Total(payments') = Total(payments) + 1
    BY <1>0, <2>1, LabelIsLabel, TotalAdds
  <2> QED BY <1>0, <2>1, <2>2 DEF BalanceInv, Total
<1>5. CASE AddAttempts
  <2>1. /\ pc = "counted" /\ pc' = "added"
        /\ attempts' =
             [attempts EXCEPT ![Label(log[n].status)] = @ + log[n].attempts]
        /\ UNCHANGED <<log, n, payments, histogram>>
    BY <1>5 DEF AddAttempts, payment
  <2>2. log[n].attempts \in Nat
    BY <2>1, AttemptsType DEF TypeOK
  <2>3. Total(attempts') = Total(attempts) + log[n].attempts
    BY <1>0, <2>1, <2>2, LabelIsLabel, TotalAdds
  <2> QED BY <1>0, <2>1, <2>2, <2>3 DEF BalanceInv, Total
<1>6. CASE Observe
  <2>1. /\ pc = "added" /\ pc' = "receiving"
        /\ histogram' = [count |-> histogram.count + 1,
                         sum   |-> histogram.sum + log[n].attempts]
        /\ UNCHANGED <<payments, attempts>>
    BY <1>6 DEF Observe, payment
  <2>2. log[n].attempts \in Nat
    BY <2>1, AttemptsType DEF TypeOK
  <2> QED BY <1>0, <2>1, <2>2 DEF BalanceInv, Total
<1>7. CASE ScrapeBegins \/ (\E m \in Metrics : ScrapeReads(m)) \/ UNCHANGED vars
  <2>1. UNCHANGED <<log, n, pc, payments, attempts, histogram>>
    BY <1>7 DEF ScrapeBegins, ScrapeReads, metrics, vars
  <2> QED BY <2>1 DEF BalanceInv, Total
<1> QED
  BY <1>1, <1>2, <1>3, <1>4, <1>5, <1>6, <1>7 DEF Next

-----------------------------------------------------------------------------
(* What scrapes read                                                       *)

ReadInv == PaymentsRead /\ AttemptsRead /\ HistogramRead /\ BeganInv

(* A label by its three names, for what is said of all of them             *)
LEMMA TotalsInOrder ==
  ASSUME NEW f \in [Labels -> Nat], NEW h \in [Labels -> Nat],
         \A l \in Labels : f[l] <= h[l]
  PROVE  Total(f) <= Total(h)
BY DEF Total, Labels

(* While the metrics grow, a scrape's reading stays between its bounds.    *)
LEMMA ReadGrows ==
  ASSUME TypeOK, ReadInv, TypeOK', UNCHANGED scrape,
         \A l \in Labels : payments[l] <= payments'[l] /\ attempts[l] <= attempts'[l],
         histogram.count <= histogram'.count, histogram.sum <= histogram'.sum
  PROVE  ReadInv'
<1>1. /\ payments \in [Labels -> Nat] /\ attempts \in [Labels -> Nat]
      /\ histogram.count \in Nat /\ histogram.sum \in Nat
      /\ payments' \in [Labels -> Nat] /\ attempts' \in [Labels -> Nat]
      /\ histogram'.count \in Nat /\ histogram'.sum \in Nat
  BY ValuesParts DEF TypeOK, Current
<1>2. /\ seen.payments \in [Labels -> Nat] /\ seen.attempts \in [Labels -> Nat]
      /\ seen.histogram.count \in Nat /\ seen.histogram.sum \in Nat
      /\ began.payments \in [Labels -> Nat] /\ began.attempts \in [Labels -> Nat]
      /\ began.histogram.count \in Nat /\ began.histogram.sum \in Nat
  BY DEF TypeOK, Values
<1>3. UNCHANGED <<todo, seen, began>>
  BY DEF scrape
<1>4. PaymentsRead'
  <2> SUFFICES ASSUME NEW l \in Labels
               PROVE  Between(<<"payments", l>>, began.payments[l],
                              seen.payments[l], payments[l])'
    BY DEF PaymentsRead
  <2>1. Between(<<"payments", l>>, began.payments[l], seen.payments[l], payments[l])
    BY DEF ReadInv, PaymentsRead
  <2>2. /\ began.payments[l] \in Nat /\ seen.payments[l] \in Nat
        /\ payments[l] \in Nat /\ payments'[l] \in Nat
    BY <1>1, <1>2
  <2> QED BY <1>3, <2>1, <2>2 DEF Between
<1>5. AttemptsRead'
  <2> SUFFICES ASSUME NEW l \in Labels
               PROVE  Between(<<"attempts", l>>, began.attempts[l],
                              seen.attempts[l], attempts[l])'
    BY DEF AttemptsRead
  <2>1. Between(<<"attempts", l>>, began.attempts[l], seen.attempts[l], attempts[l])
    BY DEF ReadInv, AttemptsRead
  <2>2. /\ began.attempts[l] \in Nat /\ seen.attempts[l] \in Nat
        /\ attempts[l] \in Nat /\ attempts'[l] \in Nat
    BY <1>1, <1>2
  <2> QED BY <1>3, <2>1, <2>2 DEF Between
<1>6. HistogramRead'
  BY <1>1, <1>2, <1>3 DEF ReadInv, HistogramRead, Between
<1>7. BeganInv'
  BY <1>3 DEF ReadInv, BeganInv, Total
<1> QED BY <1>4, <1>5, <1>6, <1>7 DEF ReadInv

LEMMA ReadNext ==
  TypeOK /\ BalanceInv /\ ReadInv /\ [Next]_vars => ReadInv'
<1> SUFFICES ASSUME TypeOK, BalanceInv, ReadInv, [Next]_vars PROVE ReadInv'
  OBVIOUS
<1>1. TypeOK'
  BY TypeNext
<1>2. /\ payments \in [Labels -> Nat] /\ attempts \in [Labels -> Nat]
      /\ histogram \in [count : Nat, sum : Nat]
      /\ began \in Values /\ seen \in Values /\ Current \in Values
  BY ValuesParts DEF TypeOK, Current
<1>3. CASE LndFinishes \/ Start \/ End \/ UNCHANGED vars
  <2>1. UNCHANGED <<payments, attempts, histogram>> /\ UNCHANGED scrape
    BY <1>3 DEF LndFinishes, Start, End, vars, metrics, scrape
  <2> QED BY <1>1, <1>2, <2>1, ReadGrows
<1>4. CASE Restart
  BY <1>4 DEF Restart, ReadInv, PaymentsRead, AttemptsRead, HistogramRead,
              BeganInv, Between, None, Total, Labels
<1>5. CASE CountPayment
  <2>1. /\ payments' = [payments EXCEPT ![Label(log[n + 1].status)] = @ + 1]
        /\ UNCHANGED <<attempts, histogram>> /\ UNCHANGED scrape
    BY <1>5 DEF CountPayment
  <2> QED BY <1>1, <1>2, <2>1, ReadGrows
<1>6. CASE AddAttempts
  <2>1. /\ pc = "counted"
        /\ attempts' =
             [attempts EXCEPT ![Label(log[n].status)] = @ + log[n].attempts]
        /\ UNCHANGED <<payments, histogram>> /\ UNCHANGED scrape
    BY <1>6 DEF AddAttempts, payment
  <2>2. log[n].attempts \in Nat
    BY <2>1, AttemptsType DEF TypeOK
  <2> QED BY <1>1, <1>2, <2>1, <2>2, ReadGrows
<1>7. CASE Observe
  <2>1. /\ pc = "added"
        /\ histogram' = [count |-> histogram.count + 1,
                         sum   |-> histogram.sum + log[n].attempts]
        /\ UNCHANGED <<payments, attempts>> /\ UNCHANGED scrape
    BY <1>7 DEF Observe, payment
  <2>2. log[n].attempts \in Nat
    BY <2>1, AttemptsType DEF TypeOK
  <2> QED BY <1>1, <1>2, <2>1, <2>2, ReadGrows
<1>8. CASE ScrapeBegins
  <2>1. /\ todo' = Metrics /\ UNCHANGED <<payments, attempts, histogram>>
        /\ began'.payments = payments /\ began'.attempts = attempts
        /\ began'.histogram = histogram
    BY <1>8 DEF ScrapeBegins, Current, metrics
  <2>2. /\ \A l \in Labels : <<"payments", l>> \in Metrics
                             /\ <<"attempts", l>> \in Metrics
        /\ <<"histogram", "all">> \in Metrics
    BY DEF Metrics
  <2>3. PaymentsRead' /\ AttemptsRead'
    <3>1. \A l \in Labels : payments[l] \in Nat /\ attempts[l] \in Nat
      BY <1>2
    <3>2. ASSUME NEW l \in Labels
          PROVE  Between(<<"payments", l>>, began.payments[l],
                         seen.payments[l], payments[l])'
      <4>1. <<"payments", l>> \in todo'
        BY <2>1, <2>2
      <4>2. began'.payments[l] = payments[l] /\ payments'[l] = payments[l]
        BY <2>1
      <4>3. payments[l] \in Nat
        BY <3>1
      <4> QED BY <4>1, <4>2, <4>3 DEF Between
    <3>3. ASSUME NEW l \in Labels
          PROVE  Between(<<"attempts", l>>, began.attempts[l],
                         seen.attempts[l], attempts[l])'
      <4>1. <<"attempts", l>> \in todo'
        BY <2>1, <2>2
      <4>2. began'.attempts[l] = attempts[l] /\ attempts'[l] = attempts[l]
        BY <2>1
      <4>3. attempts[l] \in Nat
        BY <3>1
      <4> QED BY <4>1, <4>2, <4>3 DEF Between
    <3> QED BY <3>2, <3>3 DEF PaymentsRead, AttemptsRead
  <2>4. HistogramRead'
    BY <1>2, <2>1, <2>2 DEF HistogramRead, Between
  <2>5. BeganInv'
    <3>1. pc = "added" => log[n].attempts \in Nat
      BY AttemptsType DEF TypeOK
    <3> QED BY <1>2, <2>1, <3>1 DEF BalanceInv, BeganInv, Total
  <2> QED BY <2>3, <2>4, <2>5 DEF ReadInv
<1>9. ASSUME NEW m \in Metrics, ScrapeReads(m) PROVE ReadInv'
  <2>1. /\ todo' = todo \ {m} /\ began' = began
        /\ UNCHANGED <<payments, attempts, histogram>>
    BY <1>9 DEF ScrapeReads, metrics
  <2>2. /\ \A l \in Labels :
             /\ seen'.payments[l] = IF m = <<"payments", l>>
                                    THEN payments[l] ELSE seen.payments[l]
             /\ seen'.attempts[l] = IF m = <<"attempts", l>>
                                    THEN attempts[l] ELSE seen.attempts[l]
        /\ seen'.histogram = IF m = <<"histogram", "all">>
                             THEN histogram ELSE seen.histogram
    <3>1. seen' = ReadOf(seen, Current, m)
      BY <1>9, ScrapeReadsIsReadOf
    <3>2. /\ Current.payments = payments /\ Current.attempts = attempts
          /\ Current.histogram = histogram
      BY DEF Current
    <3>3. /\ \A l \in Labels :
              /\ ReadOf(seen, Current, m).payments[l] =
                   IF m = <<"payments", l>>
                   THEN Current.payments[l] ELSE seen.payments[l]
              /\ ReadOf(seen, Current, m).attempts[l] =
                   IF m = <<"attempts", l>>
                   THEN Current.attempts[l] ELSE seen.attempts[l]
         /\ ReadOf(seen, Current, m).histogram =
              IF m = <<"histogram", "all">>
              THEN Current.histogram ELSE seen.histogram
      BY <1>2, ReadMetric
    <3> QED BY <3>1, <3>2, <3>3, Zenon
  <2>3. PaymentsRead'
    <3> SUFFICES ASSUME NEW l \in Labels
                 PROVE  Between(<<"payments", l>>, began.payments[l],
                                seen.payments[l], payments[l])'
      BY DEF PaymentsRead
    <3>1. Between(<<"payments", l>>, began.payments[l], seen.payments[l], payments[l])
      BY DEF ReadInv, PaymentsRead
    <3>2. payments[l] \in Nat
      BY <1>2
    <3> QED BY <2>1, <2>2, <3>1, <3>2 DEF Between
  <2>4. AttemptsRead'
    <3> SUFFICES ASSUME NEW l \in Labels
                 PROVE  Between(<<"attempts", l>>, began.attempts[l],
                                seen.attempts[l], attempts[l])'
      BY DEF AttemptsRead
    <3>1. Between(<<"attempts", l>>, began.attempts[l], seen.attempts[l], attempts[l])
      BY DEF ReadInv, AttemptsRead
    <3>2. attempts[l] \in Nat
      BY <1>2
    <3> QED BY <2>1, <2>2, <3>1, <3>2 DEF Between
  <2>5. HistogramRead'
    BY <1>2, <2>1, <2>2 DEF ReadInv, HistogramRead, Between
  <2>6. BeganInv'
    BY <2>1 DEF ReadInv, BeganInv, Total
  <2> QED BY <2>3, <2>4, <2>5, <2>6 DEF ReadInv
<1> QED
  BY <1>3, <1>4, <1>5, <1>6, <1>7, <1>8, <1>9 DEF Next

-----------------------------------------------------------------------------
(* The theorems                                                            *)

LEMMA InitInv == Init => IInv
<1> SUFFICES ASSUME Init PROVE IInv
  OBVIOUS
<1> USE DEF Init
<1>1. TypeOK
  BY NoneType DEF TypeOK, Current, None
<1>2. MetricsMatchLog
  <2>1. Cardinality({}) = 0 /\ SumAttempts({}) = 0
    BY FS_EmptySet, SumOfNone DEF SumAttempts
  <2>2. \A to : Window(to) = {}
    BY DEF Window
  <2>3. \A l, to : Under(l, to) = {}
    BY <2>2 DEF Under
  <2> QED BY <2>1, <2>2, <2>3 DEF MetricsMatchLog, None
<1>3. BalanceInv
  BY DEF BalanceInv, Total, None, Labels
<1>4. PaymentsRead /\ AttemptsRead /\ HistogramRead /\ BeganInv
  BY DEF PaymentsRead, AttemptsRead, HistogramRead, BeganInv, Between, None,
         Total, Labels
<1> QED BY <1>1, <1>2, <1>3, <1>4 DEF IInv

LEMMA Invariance == Spec => []IInv
<1>1. IInv /\ [Next]_vars => IInv'
  BY TypeNext, MatchInv, BalanceNext, ReadNext DEF IInv, ReadInv
<1> QED BY InitInv, <1>1, PTL DEF Spec

(* The types of the monitor, and where the goroutine can be.               *)
THEOREM TypeCorrect == Spec => []TypeOK
<1>1. IInv => TypeOK
  BY DEF IInv
<1> QED BY Invariance, <1>1, PTL

(* The metrics are at every moment what the payments of the log since the  *)
(* subscription add up to (processPaymentUpdate): none is left out, counted*)
(* twice or counted under another label, and what a restart loses is what  *)
(* was before it.                                                          *)
THEOREM MetricsAreRight == Spec => []MetricsMatchLog
<1>1. IInv => MetricsMatchLog
  BY DEF IInv
<1> QED BY Invariance, <1>1, PTL

(* Whatever order a scrape reads the metrics in and whatever is processed  *)
(* meanwhile, what it has read differs by no more than that and the payment*)
(* in process when it began.                                               *)
THEOREM ScrapesAreClose == Spec => []ScrapeIsClose
<1>1. IInv => ScrapeIsClose
  <2> SUFFICES ASSUME IInv, todo = {} PROVE ScrapeIsClose
    BY DEF ScrapeIsClose
  <2>1. /\ payments \in [Labels -> Nat] /\ attempts \in [Labels -> Nat]
        /\ histogram \in [count : Nat, sum : Nat]
        /\ began \in Values /\ seen \in Values
    BY ValuesParts DEF IInv, TypeOK, Current
  <2>2. /\ seen.payments \in [Labels -> Nat] /\ seen.attempts \in [Labels -> Nat]
        /\ began.payments \in [Labels -> Nat] /\ began.attempts \in [Labels -> Nat]
        /\ seen.histogram.count \in Nat /\ seen.histogram.sum \in Nat
        /\ began.histogram.count \in Nat /\ began.histogram.sum \in Nat
    BY <2>1 DEF Values
  <2>3. /\ Total(began.payments) <= Total(seen.payments)
        /\ Total(seen.payments) <= Total(payments)
    BY <2>1, <2>2, TotalsInOrder DEF IInv, PaymentsRead, Between
  <2>4. /\ Total(began.attempts) <= Total(seen.attempts)
        /\ Total(seen.attempts) <= Total(attempts)
    BY <2>1, <2>2, TotalsInOrder DEF IInv, AttemptsRead, Between
  <2>5. /\ began.histogram.count <= seen.histogram.count
        /\ seen.histogram.count <= histogram.count
    BY DEF IInv, HistogramRead, Between
  <2>6. histogram.count <= Total(payments)
    BY <2>1 DEF IInv, BalanceInv
  <2>7. /\ began.histogram.count <= Total(began.payments)
        /\ began.histogram.sum <= Total(began.attempts)
    BY DEF IInv, BeganInv
  <2>8. /\ Total(payments) \in Nat /\ Total(seen.payments) \in Nat
        /\ Total(began.payments) \in Nat /\ Total(attempts) \in Nat
        /\ Total(seen.attempts) \in Nat /\ Total(began.attempts) \in Nat
    BY <2>1, <2>2 DEF Total, Labels
  <2>9. histogram.count \in Nat
    BY <2>1
  <2> HIDE DEF IInv
  <2> QED
    BY <2>2, <2>3, <2>4, <2>5, <2>6, <2>7, <2>8, <2>9 DEF ScrapeIsClose
<1> QED BY Invariance, <1>1, PTL
=============================================================================
