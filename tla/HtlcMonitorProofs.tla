--------------------------- MODULE HtlcMonitorProofs --------------------------
(***************************************************************************)
(* Proofs about the htlc monitor, for any keys, channels and reasons, and  *)
(* a log of any length. What the monitor holds is compared with the part   *)
(* of the log it has read; a step reads one event, so the argument is what *)
(* one event more does to the first forwards, to the pairs of a forward    *)
(* and its resolution, and to the resolutions that a label counts. These   *)
(* are stated for a log L and the places b + 1 .. m of it.                 *)
(***************************************************************************)
EXTENDS HtlcMonitor, SumTheorems, SequenceTheorems

Lets(L, i, k) ==
  /\ L[i].kind \in Resolutions
  /\ L[i].type \in {"forward", "send"}
  /\ L[i].key = k

Held(L, p, k, j) ==
  /\ L[p].kind = "forward" /\ L[p].key = k
  /\ ~\E q \in p + 1 .. j - 1 : Lets(L, q, k)

First(L, W, i, k, j) ==
  /\ i \in W /\ i < j
  /\ Held(L, i, k, j)
  /\ \A p \in W : p < i => ~Held(L, p, k, j)

Active(L, W, a, d) ==
  \A k \in Keys :
    IF a[k] = NotTracked THEN \A i \in W : ~First(L, W, i, k, d + 1)
    ELSE First(L, W, a[k], k, d + 1)

Counted(L, R, l) ==
  {i \in R : /\ L[i].kind \in Resolutions
             /\ Describes(l, L[i])
             /\ HasReason(l, L[i])}

Pairs(L, W, l) ==
  {o \in W \X W :
     /\ Lets(L, o[2], L[o[2]].key)
     /\ First(L, W, o[1], L[o[2]].key, o[2])
     /\ Describes(l, L[o[2]])}
Times(P) == SumFunction([o \in P |-> o[2] - o[1]])

-----------------------------------------------------------------------------
(* The invariant. What lnd says: a reason comes with every link failure, a *)
(* key has one type, and is not forwarded or resolved after a resolution.  *)
LogInv ==
  /\ \A i \in 1..Len(log) :
       /\ log[i].kind = "linkFail" => log[i].failure \in Reasons
       /\ log[i].kind \in Resolutions =>
            log[i].type \in {KeyType[log[i].key], "unknown"}
       /\ log[i].kind = "forward" => KeyType[log[i].key] # "receive"
  /\ \A i, j \in 1..Len(log) :
       i < j /\ log[i].key = log[j].key /\ log[i].kind \in Resolutions
         => log[j].kind \notin Resolutions \cup {"forward"}

(* A goroutine that has read a resolution of no known type has failed.     *)
KnownInv ==
  pc \in {"select", "observing"} =>
    \A i \in base + 1 .. n :
      log[i].kind \in Resolutions => log[i].type # "unknown"

(* What is observed is the release of a key that is still tracked.         *)
ObservingInv ==
  pc = "observing" =>
    /\ base < n /\ Lets(log, n, log[n].key)
    /\ activeHtlcs[log[n].key] # NotTracked

IInv ==
  /\ TypeOK
  /\ LogInv /\ KnownInv /\ ObservingInv
  /\ ActiveMatchesLog
  /\ ResolvedMatchesLog
  /\ HistogramMatchesLog

(* The properties in terms of the definitions above                        *)
LEMMA ActiveIs == ActiveMatchesLog <=> Active(log, Window, activeHtlcs, Done)
BY DEF ActiveMatchesLog, Active, FirstForward, First, Held, Releases, Lets

LEMMA CountedIs == \A l : CountedUnder(l) = Counted(log, Read, l)
BY DEF CountedUnder, Counted

LEMMA PairsIs == \A l : Observations(l) = Pairs(log, Window, l)
BY DEF Observations, Pairs, FirstForward, First, Held, Releases, Lets

LEMMA HistogramIs ==
  HistogramMatchesLog <=>
    \A l \in HtlcLabels :
      /\ histogram[l].count = Cardinality(Pairs(log, Window, l))
      /\ histogram[l].sum = Times(Pairs(log, Window, l))
<1>1. ASSUME NEW l
      PROVE  /\ Cardinality(Observations(l)) = Cardinality(Pairs(log, Window, l))
             /\ SumFunction([o \in Observations(l) |-> o[2] - o[1]])
                  = Times(Pairs(log, Window, l))
  <2>1. PICK P : P = Pairs(log, Window, l)
    OBVIOUS
  <2>2. Observations(l) = P
    BY <2>1, PairsIs, Zenon
  <2> QED BY <2>1, <2>2, Zenon DEF Times
<1> QED BY <1>1 DEF HistogramMatchesLog

-----------------------------------------------------------------------------
(* One event more                                                          *)

(* The first forward that is held, if one is                               *)
LEMMA LeastHeld ==
  ASSUME NEW L, NEW W \in SUBSET Nat, NEW k, NEW j \in Int, NEW p \in W, p < j,
         Held(L, p, k, j)
  PROVE  \E i \in W : First(L, W, i, k, j)
<1> DEFINE T == {i \in W : i < j /\ Held(L, i, k, j)}
<1>1. T \in SUBSET Nat /\ T # {}
  OBVIOUS
<1>2. PICK i \in T : \A m \in T : i <= m
  BY <1>1, SmallestNat
<1>3. \A m \in W : m < i => ~Held(L, m, k, j)
  <2> SUFFICES ASSUME NEW m \in W, m < i, Held(L, m, k, j) PROVE FALSE
    OBVIOUS
  <2>1. i \in Nat /\ m \in Nat /\ i < j
    BY <1>1
  <2>2. m \in T
    BY <2>1
  <2> QED BY <1>2, <2>1, <2>2
<1> QED BY <1>3 DEF First

LEMMA OneFirst ==
  ASSUME NEW L, NEW W \in SUBSET Nat, NEW k, NEW j, NEW i, NEW h,
         First(L, W, i, k, j), First(L, W, h, k, j)
  PROVE  i = h
<1>1. i \in Nat /\ h \in Nat
  BY DEF First
<1>2. ~(i < h) /\ ~(h < i)
  BY DEF First
<1> QED BY <1>1, <1>2

(* Whether a forward is held is not changed by an event that is not a      *)
(* release, and nothing is held after one that is.                         *)
LEMMA HeldNext ==
  ASSUME NEW L, NEW m \in Nat, NEW k, NEW p \in 1..m
  PROVE  Held(L, p, k, m + 2) <=> Held(L, p, k, m + 1) /\ ~Lets(L, m + 1, k)
<1>1. /\ p + 1 .. (m + 2) - 1 = (p + 1 .. (m + 1) - 1) \cup {m + 1}
  OBVIOUS
<1> QED BY <1>1 DEF Held

LEMMA FirstNext ==
  ASSUME NEW L, NEW b \in Nat, NEW m \in Nat, b <= m, NEW k
  PROVE  LET W == b + 1 .. m
             V == b + 1 .. m + 1
             e == L[m + 1]
         IN  /\ Lets(L, m + 1, k) => \A i : ~First(L, V, i, k, m + 2)
             /\ ~Lets(L, m + 1, k) /\ ~(e.kind = "forward" /\ e.key = k)
                  => \A i : First(L, V, i, k, m + 2) <=> First(L, W, i, k, m + 1)
             /\ e.kind = "forward" /\ e.key = k =>
                  /\ \A i \in W : First(L, W, i, k, m + 1)
                                    => First(L, V, i, k, m + 2)
                  /\ (\A i \in W : ~First(L, W, i, k, m + 1))
                       => First(L, V, m + 1, k, m + 2)
<1> DEFINE W == b + 1 .. m
           V == b + 1 .. m + 1
           e == L[m + 1]
<1>1. V = W \cup {m + 1} /\ m + 1 \notin W /\ W \in SUBSET (1..m)
  OBVIOUS
<1>2. Held(L, m + 1, k, m + 2) <=> e.kind = "forward" /\ e.key = k
  <2>1. (m + 1) + 1 .. (m + 2) - 1 = {}
    OBVIOUS
  <2> QED BY <2>1 DEF Held
<1>3. \A p \in W : Held(L, p, k, m + 2)
                     <=> Held(L, p, k, m + 1) /\ ~Lets(L, m + 1, k)
  BY <1>1, HeldNext
<1>4. Lets(L, m + 1, k) => e.kind # "forward"
  BY DEF Lets, Resolutions
<1>5. ASSUME Lets(L, m + 1, k), NEW i PROVE ~First(L, V, i, k, m + 2)
  BY <1>1, <1>2, <1>3, <1>4, <1>5 DEF First
<1>6. ASSUME ~Lets(L, m + 1, k), ~(e.kind = "forward" /\ e.key = k), NEW i
      PROVE  First(L, V, i, k, m + 2) <=> First(L, W, i, k, m + 1)
  <2>1. i \in W => i < m + 1 /\ i < m + 2
    BY <1>1
  <2>2. \A p \in V : Held(L, p, k, m + 2) => p \in W
    BY <1>1, <1>2, <1>6
  <2>3. \A p \in W : Held(L, p, k, m + 2) <=> Held(L, p, k, m + 1)
    BY <1>3, <1>6
  <2>4. First(L, V, i, k, m + 2) => First(L, W, i, k, m + 1)
    BY <1>1, <2>1, <2>2, <2>3 DEF First
  <2>5. First(L, W, i, k, m + 1) => First(L, V, i, k, m + 2)
    BY <1>1, <2>1, <2>2, <2>3 DEF First
  <2> QED BY <2>4, <2>5
<1>7. ASSUME e.kind = "forward", e.key = k
      PROVE  /\ \A i \in W : First(L, W, i, k, m + 1) => First(L, V, i, k, m + 2)
             /\ (\A i \in W : ~First(L, W, i, k, m + 1))
                  => First(L, V, m + 1, k, m + 2)
  <2>1. \A p \in W : Held(L, p, k, m + 2) <=> Held(L, p, k, m + 1)
    BY <1>3, <1>4, <1>7
  <2>2. \A i \in W : i < m + 1 /\ i < m + 2 /\ i \in Nat
    OBVIOUS
  <2>3. ASSUME NEW i \in W, First(L, W, i, k, m + 1)
        PROVE  First(L, V, i, k, m + 2)
    <3>1. \A p \in V : p < i => p \in W
      BY <1>1, <2>2
    <3> QED BY <1>1, <2>1, <2>2, <2>3, <3>1 DEF First
  <2>4. ASSUME \A i \in W : ~First(L, W, i, k, m + 1)
        PROVE  First(L, V, m + 1, k, m + 2)
    <3>1. \A p \in W : ~Held(L, p, k, m + 1)
      <4>1. W \in SUBSET Nat /\ m + 1 \in Int
        BY <2>2
      <4> QED BY <2>2, <2>4, <4>1, LeastHeld
    <3>2. \A p \in V : p < m + 1 => p \in W
      BY <1>1
    <3> QED BY <1>1, <1>2, <1>7, <2>1, <3>1, <3>2 DEF First
  <2> QED BY <2>3, <2>4
<1> QED BY <1>5, <1>6, <1>7

(* The pairs that the event makes with an earlier forward                  *)
LEMMA PairsNext ==
  ASSUME NEW L, NEW b \in Nat, NEW m \in Nat, b <= m, NEW l
  PROVE  LET W == b + 1 .. m
             V == b + 1 .. m + 1
         IN  Pairs(L, V, l) = Pairs(L, W, l) \cup
               {<<i, m + 1>> : i \in
                  {i \in W : /\ Lets(L, m + 1, L[m + 1].key)
                             /\ First(L, W, i, L[m + 1].key, m + 1)
                             /\ Describes(l, L[m + 1])}}
<1> DEFINE W == b + 1 .. m
           V == b + 1 .. m + 1
           New == {<<i, m + 1>> : i \in
                     {i \in W : /\ Lets(L, m + 1, L[m + 1].key)
                                /\ First(L, W, i, L[m + 1].key, m + 1)
                                /\ Describes(l, L[m + 1])}}
<1>1. V = W \cup {m + 1} /\ m + 1 \notin W /\ \A i \in W : i \in Nat /\ i < m + 1
  OBVIOUS
<1>2. ASSUME NEW i, NEW j \in V, NEW k
      PROVE  First(L, V, i, k, j) <=> First(L, W, i, k, j)
  <2>1. i \in V /\ i < j => i \in W
    BY <1>1
  <2>2. i \in W => \A p \in V : p < i => p \in W
    BY <1>1
  <2> QED BY <1>1, <2>1, <2>2 DEF First
<1>3. ASSUME NEW i, NEW j
      PROVE  <<i, j>> \in Pairs(L, V, l)
               <=> <<i, j>> \in Pairs(L, W, l) \/ <<i, j>> \in New
  <2>1. <<i, j>> \in Pairs(L, V, l) <=>
          /\ i \in W /\ j \in V
          /\ Lets(L, j, L[j].key) /\ First(L, W, i, L[j].key, j)
          /\ Describes(l, L[j])
    <3>1. First(L, W, i, L[j].key, j) => i \in W
      BY DEF First
    <3> QED BY <1>1, <1>2, <3>1 DEF Pairs
  <2>2. <<i, j>> \in Pairs(L, W, l) <=>
          /\ i \in W /\ j \in W
          /\ Lets(L, j, L[j].key) /\ First(L, W, i, L[j].key, j)
          /\ Describes(l, L[j])
    BY DEF Pairs
  <2>3. <<i, j>> \in New <=>
          /\ i \in W /\ j = m + 1
          /\ Lets(L, j, L[j].key) /\ First(L, W, i, L[j].key, j)
          /\ Describes(l, L[j])
    OBVIOUS
  <2> QED BY <1>1, <2>1, <2>2, <2>3
<1>4. /\ \A o \in Pairs(L, V, l) : \E i, j : o = <<i, j>>
      /\ \A o \in Pairs(L, W, l) : \E i, j : o = <<i, j>>
      /\ \A o \in New : \E i, j : o = <<i, j>>
  BY DEF Pairs
<1> HIDE DEF New, W, V
<1>5. Pairs(L, V, l) = Pairs(L, W, l) \cup New
  BY <1>3, <1>4
<1> QED BY <1>5 DEF New, W, V

LEMMA CountedNext ==
  ASSUME NEW L, NEW b \in Nat, NEW m \in Nat, b <= m, NEW l
  PROVE  Cardinality(Counted(L, b + 1 .. m + 1, l)) =
           Cardinality(Counted(L, b + 1 .. m, l)) +
             IF /\ L[m + 1].kind \in Resolutions
                /\ Describes(l, L[m + 1]) /\ HasReason(l, L[m + 1])
             THEN 1 ELSE 0
<1> DEFINE C == Counted(L, b + 1 .. m, l)
           new == /\ L[m + 1].kind \in Resolutions
                  /\ Describes(l, L[m + 1]) /\ HasReason(l, L[m + 1])
<1>1. b + 1 .. m + 1 = (b + 1 .. m) \cup {m + 1} /\ m + 1 \notin b + 1 .. m
  OBVIOUS
<1>2. IsFiniteSet(C) /\ m + 1 \notin C
  <2>1. IsFiniteSet(b + 1 .. m)
    BY FS_Interval
  <2> QED BY <1>1, <2>1, FS_Subset DEF Counted
<1>3. Cardinality(C) \in Nat
  BY <1>2, FS_CardinalityType
<1>4. CASE new
  <2>1. Counted(L, b + 1 .. m + 1, l) = C \cup {m + 1}
    BY <1>1, <1>4 DEF Counted
  <2>2. Cardinality(C \cup {m + 1}) = Cardinality(C) + 1
    BY <1>2, FS_AddElement
  <2> QED BY <1>4, <2>1, <2>2
<1>5. CASE ~new
  <2>1. Counted(L, b + 1 .. m + 1, l) = C
    BY <1>1, <1>5 DEF Counted
  <2> QED BY <1>3, <1>5, <2>1
<1> QED BY <1>4, <1>5

LEMMA PairsFinite ==
  ASSUME NEW L, NEW b \in Nat, NEW m \in Int, NEW l
  PROVE  /\ IsFiniteSet(Pairs(L, b + 1 .. m, l))
         /\ \A o \in Pairs(L, b + 1 .. m, l) :
              o[1] \in b + 1 .. m /\ o[2] \in b + 1 .. m /\ o[1] < o[2]
<1>1. IsFiniteSet(b + 1 .. m)
  BY FS_Interval
<1>2. IsFiniteSet((b + 1 .. m) \X (b + 1 .. m))
  BY <1>1, FS_Product
<1>3. Pairs(L, b + 1 .. m, l) \subseteq (b + 1 .. m) \X (b + 1 .. m)
  BY DEF Pairs
<1>4. \A o \in Pairs(L, b + 1 .. m, l) : o[1] < o[2]
  BY DEF Pairs, First
<1> QED BY <1>2, <1>3, <1>4, FS_Subset

(* A pair more is an observation more, of the time between the two.        *)
LEMMA TimesNext ==
  ASSUME NEW P, IsFiniteSet(P), NEW i \in Int, NEW j \in Int,
         \A o \in P : o[1] \in Int /\ o[2] \in Int /\ o[2] # j
  PROVE  /\ Cardinality(P \cup {<<i, j>>}) = Cardinality(P) + 1
         /\ Times(P \cup {<<i, j>>}) = Times(P) + (j - i)
<1> DEFINE new == <<i, j>>
           f == [o \in P |-> o[2] - o[1]]
           h == [o \in P \cup {new} |-> o[2] - o[1]]
<1>1. new \notin P /\ new[2] - new[1] = j - i /\ j - i \in Int
  OBVIOUS
<1> HIDE DEF new
<1>2. /\ IsFiniteSet(DOMAIN f) /\ new \notin DOMAIN f
      /\ DOMAIN h = DOMAIN f \cup {new} /\ h[new] \in Int /\ h[new] = j - i
      /\ \A o \in DOMAIN f : f[o] \in Int /\ h[o] = f[o]
  BY <1>1
<1>3. SumFunction(h) = SumFunction(f) + h[new]
  <2> HIDE DEF f, h
  <2> QED BY <1>2, SumOfMore
<1>4. Cardinality(P \cup {new}) = Cardinality(P) + 1
  BY <1>1, FS_AddElement
<1>5. Times(P \cup {new}) = Times(P) + (j - i)
  BY <1>2, <1>3, Zenon DEF Times
<1> QED BY <1>4, <1>5 DEF new

(* The labels of a resolution are the ones that describe it.               *)
LEMMA LabelsDescribe ==
  ASSUME NEW e \in Events, e.kind \in Resolutions,
         e.kind = "linkFail" => e.failure \in Reasons
  PROVE  /\ e.type # "unknown" =>
              /\ LabelsOf(e) \in Labels
              /\ HtlcLabelsOf(LabelsOf(e)) \in HtlcLabels
         /\ \A l \in Labels :
              Describes(l, e) /\ HasReason(l, e)
                <=> e.type # "unknown" /\ l = LabelsOf(e)
         /\ \A l \in HtlcLabels :
              Describes(l, e)
                <=> e.type # "unknown" /\ l = HtlcLabelsOf(LabelsOf(e))
<1>1. /\ e.kind \in {"settle", "forwardFail", "linkFail"}
      /\ e.key \in Keys /\ e.type \in Types \cup {"unknown"}
      /\ e.failure \in AllReasons /\ "unknown" \notin Types
  BY DEF Events, Resolutions, Types
<1>2. /\ FailureReason(e) = NoReason <=> e.kind = "settle"
      /\ FailureReason(e) \in AllReasons
      /\ HasReason(LabelsOf(e), e)
  <2>1. NoReason # FailedBack /\ NoReason \notin Reasons
    BY HtlcAssumption
  <2>5. ReasonLabel[NoReason] = NoReason
    BY HtlcAssumption DEF AllReasons
  <2>2. CASE e.kind = "settle"
    BY <2>1, <2>2, <2>5 DEF FailureReason, AllReasons, HasReason, LabelsOf
  <2>3. CASE e.kind = "forwardFail"
    BY <2>1, <2>3 DEF FailureReason, AllReasons, HasReason, LabelsOf
  <2>4. CASE e.kind = "linkFail"
    BY <2>1, <2>4 DEF FailureReason, AllReasons, HasReason, LabelsOf
  <2> QED BY <1>1, <2>2, <2>3, <2>4
<1>3. /\ LabelsOf(e).outcome = IF e.kind = "settle" THEN "settled" ELSE "failed"
      /\ LabelsOf(e).chans = Chans[e.key] /\ LabelsOf(e).type = e.type
      /\ LabelsOf(e).reason = ReasonLabel[FailureReason(e)]
  BY <1>2 DEF LabelsOf
<1>4. e.type # "unknown" =>
        LabelsOf(e) \in Labels /\ HtlcLabelsOf(LabelsOf(e)) \in HtlcLabels
  BY <1>1, <1>2 DEF LabelsOf, Labels, HtlcLabels, HtlcLabelsOf
<1>5. ASSUME NEW l \in Labels
      PROVE  Describes(l, e) /\ HasReason(l, e)
               <=> e.type # "unknown" /\ l = LabelsOf(e)
  <2>1. /\ l.type \in Types /\ l.outcome \in {"settled", "failed"}
        /\ l = [outcome |-> l.outcome, chans |-> l.chans, type |-> l.type,
                reason |-> l.reason]
    BY DEF Labels
  <2>2. HasReason(l, e) <=> l.reason = ReasonLabel[FailureReason(e)]
    <3>1. CASE e.kind = "settle"
      <4>1. ReasonLabel[NoReason] = NoReason
        BY HtlcAssumption DEF AllReasons
      <4> QED BY <3>1, <4>1, <1>2 DEF HasReason
    <3>2. CASE e.kind = "forwardFail"
      BY <3>2 DEF HasReason, FailureReason
    <3>3. CASE e.kind = "linkFail"
      BY <3>3 DEF HasReason, FailureReason
    <3> QED BY <1>1, <3>1, <3>2, <3>3
  <2>3. Describes(l, e) <=>
          /\ l.outcome = IF e.kind = "settle" THEN "settled" ELSE "failed"
          /\ l.chans = Chans[e.key] /\ l.type = e.type
    BY <2>1 DEF Describes
  <2>4. l = LabelsOf(e) <=>
          /\ l.outcome = IF e.kind = "settle" THEN "settled" ELSE "failed"
          /\ l.chans = Chans[e.key] /\ l.type = e.type
          /\ l.reason = ReasonLabel[FailureReason(e)]
    BY <1>2, <2>1 DEF LabelsOf
  <2> QED BY <1>1, <2>1, <2>2, <2>3, <2>4
<1>6. ASSUME NEW l \in HtlcLabels
      PROVE  Describes(l, e)
               <=> e.type # "unknown" /\ l = HtlcLabelsOf(LabelsOf(e))
  <2>1. /\ l.type \in Types /\ l.outcome \in {"settled", "failed"}
        /\ l = [outcome |-> l.outcome, chans |-> l.chans, type |-> l.type]
    BY DEF HtlcLabels
  <2>2. Describes(l, e) <=>
          /\ l.outcome = IF e.kind = "settle" THEN "settled" ELSE "failed"
          /\ l.chans = Chans[e.key] /\ l.type = e.type
    BY <2>1 DEF Describes
  <2>3. l = HtlcLabelsOf(LabelsOf(e)) <=>
          /\ l.outcome = IF e.kind = "settle" THEN "settled" ELSE "failed"
          /\ l.chans = Chans[e.key] /\ l.type = e.type
    BY <1>3, <2>1 DEF HtlcLabelsOf
  <2> QED BY <1>1, <2>1, <2>2, <2>3
<1> QED BY <1>4, <1>5, <1>6

(* The tracked keys after an event, from those before it                   *)
LEMMA ActiveNext ==
  ASSUME NEW L, NEW b \in Nat, NEW m \in Nat, b <= m, NEW a, NEW c,
         Active(L, b + 1 .. m, a, m),
         \A k \in Keys :
           c[k] = IF Lets(L, m + 1, k) THEN NotTracked
                  ELSE IF L[m + 1].kind = "forward" /\ L[m + 1].key = k
                          /\ a[k] = NotTracked
                       THEN m + 1 ELSE a[k]
  PROVE  Active(L, b + 1 .. m + 1, c, m + 1)
<1> DEFINE W == b + 1 .. m
           V == b + 1 .. m + 1
           e == L[m + 1]
<1> SUFFICES ASSUME NEW k \in Keys
             PROVE  IF c[k] = NotTracked
                    THEN \A i \in V : ~First(L, V, i, k, m + 2)
                    ELSE First(L, V, c[k], k, m + 2)
  <2>1. (m + 1) + 1 = m + 2
    OBVIOUS
  <2> QED BY <2>1 DEF Active
<1>1. IF a[k] = NotTracked THEN \A i \in W : ~First(L, W, i, k, m + 1)
      ELSE First(L, W, a[k], k, m + 1)
  BY DEF Active
<1>2. /\ Lets(L, m + 1, k) => \A i : ~First(L, V, i, k, m + 2)
      /\ ~Lets(L, m + 1, k) /\ ~(e.kind = "forward" /\ e.key = k)
           => \A i : First(L, V, i, k, m + 2) <=> First(L, W, i, k, m + 1)
      /\ e.kind = "forward" /\ e.key = k =>
           /\ \A i \in W : First(L, W, i, k, m + 1) => First(L, V, i, k, m + 2)
           /\ (\A i \in W : ~First(L, W, i, k, m + 1))
                => First(L, V, m + 1, k, m + 2)
  BY FirstNext
<1>3. /\ \A i : First(L, W, i, k, m + 1) => i \in W
      /\ Lets(L, m + 1, k) => e.kind # "forward"
      /\ m + 1 # NotTracked
  BY DEF First, Lets, Resolutions, NotTracked
<1>4. c[k] = IF Lets(L, m + 1, k) THEN NotTracked
             ELSE IF e.kind = "forward" /\ e.key = k /\ a[k] = NotTracked
                  THEN m + 1 ELSE a[k]
  OBVIOUS
<1> HIDE DEF W, V, e
<1>5. CASE Lets(L, m + 1, k)
  BY <1>2, <1>4, <1>5
<1>6. CASE ~Lets(L, m + 1, k) /\ ~(e.kind = "forward" /\ e.key = k)
  <2>1. c[k] = a[k]
    BY <1>4, <1>6
  <2>2. \A i : First(L, V, i, k, m + 2) <=> First(L, W, i, k, m + 1)
    BY <1>2, <1>6
  <2> QED BY <1>1, <1>3, <2>1, <2>2
<1>7. CASE e.kind = "forward" /\ e.key = k /\ a[k] = NotTracked
  BY <1>1, <1>2, <1>3, <1>4, <1>7
<1>8. CASE e.kind = "forward" /\ e.key = k /\ a[k] # NotTracked
  BY <1>1, <1>2, <1>3, <1>4, <1>8
<1> QED BY <1>5, <1>6, <1>7, <1>8

(* What an event adds to the number of pairs and to their times, from the  *)
(* tracked keys before it                                                  *)
AddsPair(L, b, m, a, l) ==
  LET P == Pairs(L, b + 1 .. m, l)
      Q == Pairs(L, b + 1 .. m + 1, l)
      k == L[m + 1].key
  IN  IF Lets(L, m + 1, k) /\ a[k] # NotTracked /\ Describes(l, L[m + 1])
      THEN /\ Cardinality(Q) = Cardinality(P) + 1
           /\ Times(Q) = Times(P) + ((m + 1) - a[k])
      ELSE Cardinality(Q) = Cardinality(P) /\ Times(Q) = Times(P)

LEMMA PairsFromActive ==
  ASSUME NEW L, NEW b \in Nat, NEW m \in Nat, b <= m, NEW a,
         Active(L, b + 1 .. m, a, m), L[m + 1].key \in Keys, NEW l
  PROVE  AddsPair(L, b, m, a, l)
<1> DEFINE W == b + 1 .. m
           P == Pairs(L, W, l)
           Q == Pairs(L, b + 1 .. m + 1, l)
           k == L[m + 1].key
           j == m + 1
           I == {i \in W : /\ Lets(L, m + 1, k) /\ First(L, W, i, k, m + 1)
                           /\ Describes(l, L[m + 1])}
           new == Lets(L, m + 1, k) /\ a[k] # NotTracked /\ Describes(l, L[m + 1])
<1>1. Q = P \cup {<<i, m + 1>> : i \in I}
  BY PairsNext
<1>2. IF a[k] = NotTracked THEN \A i \in W : ~First(L, W, i, k, m + 1)
      ELSE First(L, W, a[k], k, m + 1)
  BY DEF Active
<1>3. W \in SUBSET Nat
  OBVIOUS
<1>4. a[k] # NotTracked =>
        a[k] \in W /\ \A i \in W : First(L, W, i, k, m + 1) => i = a[k]
  BY <1>2, <1>3, OneFirst DEF First
<1>5. I = IF new THEN {a[k]} ELSE {}
  <2> HIDE DEF W, k
  <2> QED BY <1>2, <1>4
<1>6. /\ IsFiniteSet(P) /\ j \in Int
      /\ \A o \in P : o[1] \in Int /\ o[2] \in Int /\ o[2] # j
  <2>1. m \in Int
    OBVIOUS
  <2>2. /\ IsFiniteSet(P)
        /\ \A o \in P : o[1] \in b + 1 .. m /\ o[2] \in b + 1 .. m /\ o[1] < o[2]
    BY <2>1, PairsFinite, Zenon
  <2> HIDE DEF P
  <2> QED BY <2>2
<1>9. AddsPair(L, b, m, a, l) <=>
        IF new THEN Cardinality(Q) = Cardinality(P) + 1 /\ Times(Q) = Times(P) + (j - a[k])
        ELSE Cardinality(Q) = Cardinality(P) /\ Times(Q) = Times(P)
  BY DEF AddsPair
<1>7. CASE new
  <2>1. a[k] \in Int
    BY <1>3, <1>4, <1>7
  <2>2. Q = P \cup {<<a[k], j>>}
    <3> HIDE DEF P, Q, k, I, W
    <3> QED BY <1>1, <1>5, <1>7
  <2>3. /\ Cardinality(P \cup {<<a[k], j>>}) = Cardinality(P) + 1
        /\ Times(P \cup {<<a[k], j>>}) = Times(P) + (j - a[k])
    <3> HIDE DEF P, j
    <3> QED BY <1>6, <2>1, TimesNext
  <2>4. /\ Cardinality(Q) = Cardinality(P) + 1
        /\ Times(Q) = Times(P) + (j - a[k])
    <3> HIDE DEF P, Q, k, j
    <3> QED BY <2>2, <2>3, Zenon
  <2> HIDE DEF P, Q, k, j, new
  <2> QED BY <1>7, <1>9, <2>4
<1>8. CASE ~new
  <2>1. Q = P
    <3> HIDE DEF P, Q, I
    <3> QED BY <1>1, <1>5, <1>8
  <2>2. Cardinality(Q) = Cardinality(P) /\ Times(Q) = Times(P)
    <3> HIDE DEF P, Q
    <3> QED BY <2>1, Zenon
  <2> QED BY <1>8, <2>2 DEF AddsPair
<1> QED BY <1>7, <1>8

(* What comes later in the log changes nothing of what has been read.      *)
LEMMA SamePast ==
  ASSUME NEW L, NEW M, NEW h \in Nat, NEW W \in SUBSET (1..h),
         \A i \in 1..h : M[i] = L[i]
  PROVE  /\ \A a, d : d \in Int /\ d <= h /\ Active(L, W, a, d) => Active(M, W, a, d)
         /\ \A l : Counted(M, W, l) = Counted(L, W, l)
         /\ \A l : Pairs(M, W, l) = Pairs(L, W, l)
<1>1. ASSUME NEW p \in W, NEW k, NEW j \in Int, j <= h + 1
      PROVE  Held(M, p, k, j) <=> Held(L, p, k, j)
  <2>1. p + 1 .. j - 1 \subseteq 1..h
    BY <1>1
  <2>2. \A q \in p + 1 .. j - 1 : M[q] = L[q]
    BY <2>1
  <2>3. M[p] = L[p]
    OBVIOUS
  <2> QED BY <2>2, <2>3 DEF Held, Lets
<1>2. ASSUME NEW i, NEW k, NEW j \in Int, j <= h + 1
      PROVE  First(M, W, i, k, j) <=> First(L, W, i, k, j)
  BY <1>1, <1>2 DEF First
<1>3. ASSUME NEW a, NEW d \in Int, d <= h, Active(L, W, a, d)
      PROVE  Active(M, W, a, d)
  <2>1. d + 1 \in Int /\ d + 1 <= h + 1
    BY <1>3
  <2>2. \A i, k : First(M, W, i, k, d + 1) <=> First(L, W, i, k, d + 1)
    BY <1>2, <2>1
  <2> QED BY <1>3, <2>2 DEF Active
<1>4. \A l : Counted(M, W, l) = Counted(L, W, l)
  BY DEF Counted
<1>5. ASSUME NEW l PROVE Pairs(M, W, l) = Pairs(L, W, l)
  <2>1. ASSUME NEW o \in W \X W
        PROVE  /\ M[o[2]] = L[o[2]]
               /\ \A k : Lets(M, o[2], k) <=> Lets(L, o[2], k)
               /\ \A k : First(M, W, o[1], k, o[2]) <=> First(L, W, o[1], k, o[2])
    <3>1. o[2] \in Int /\ o[2] <= h + 1 /\ M[o[2]] = L[o[2]]
      <4>1. o[2] \in 1..h
        OBVIOUS
      <4> QED BY <4>1
    <3> QED BY <1>2, <3>1 DEF Lets
  <2> QED BY <2>1 DEF Pairs
<1> QED BY <1>3, <1>4, <1>5

-----------------------------------------------------------------------------
(* The types, and what the log and the place of the goroutine say          *)

LEMMA EventType ==
  ASSUME TypeOK, NEW i \in 1..Len(log)
  PROVE  /\ log[i] \in Events
         /\ log[i].key \in Keys /\ log[i].failure \in AllReasons
         /\ log[i].type \in Types \cup {"unknown"}
<1>1. log[i] \in Events
  BY ElementOfSeq DEF TypeOK
<1> QED BY <1>1 DEF Events

(* A tracked key has the time of an event that has been read.              *)
LEMMA TrackedIsRead ==
  ASSUME TypeOK, ActiveMatchesLog, NEW k \in Keys, activeHtlcs[k] # NotTracked
  PROVE  First(log, Window, activeHtlcs[k], k, Done + 1) /\ activeHtlcs[k] \in Window
BY ActiveIs DEF Active, First

LEMMA TypeNext ==
  TypeOK /\ ObservingInv /\ ActiveMatchesLog /\ [Next]_vars => TypeOK'
<1> SUFFICES ASSUME TypeOK, ObservingInv, ActiveMatchesLog, [Next]_vars
             PROVE  TypeOK'
  OBVIOUS
<1> USE DEF TypeOK
<1>1. ASSUME NEW kind \in Resolutions \cup {"forward", "ignored", "unknown"},
             NEW k \in Keys, NEW type \in Types \cup {"unknown"},
             NEW r \in AllReasons, Emit(kind, k, type, r)
      PROVE  TypeOK'
  <2> DEFINE e == [kind |-> kind, key |-> k, type |-> type, failure |-> r]
  <2>1. e \in Events
    BY DEF Events
  <2>2. log' = Append(log, e)
    BY <1>1 DEF Emit
  <2>3. log' \in Seq(Events) /\ Len(log') = Len(log) + 1 /\ Len(log) \in Nat
    <3> HIDE DEF e
    <3> QED BY <2>1, <2>2, AppendProperties
  <2>4. UNCHANGED <<base, n, pc, activeHtlcs, resolved, histogram>>
    BY <1>1 DEF Emit, memory
  <2> QED BY <2>3, <2>4
<1>2. CASE Lnd
  <2>1. /\ \A k \in Keys : KeyType[k] \in Types
        /\ NoReason \in AllReasons /\ Reasons \subseteq AllReasons
    BY HtlcAssumption DEF AllReasons
  <2>2. CASE \E k \in Keys : LndForward(k)
    BY <1>1, <2>1, <2>2 DEF LndForward
  <2>3. CASE \E k \in Keys, kind \in Resolutions :
               \E type \in {KeyType[k], "unknown"} : LndResolve(k, kind, type)
    <3>0. PICK k \in Keys, kind \in Resolutions :
                 \E type \in {KeyType[k], "unknown"} : LndResolve(k, kind, type)
      BY <2>3
    <3>1. PICK type \in {KeyType[k], "unknown"} : LndResolve(k, kind, type)
      BY <3>0
    <3>2. PICK r \in AllReasons : Emit(kind, k, type, r)
      BY <2>1, <3>1 DEF LndResolve
    <3> QED BY <1>1, <2>1, <3>1, <3>2
  <2>4. CASE \E k \in Keys, kind \in {"ignored", "unknown"} : LndOther(k, kind)
    BY <1>1, <2>1, <2>4 DEF LndOther
  <2> QED BY <1>2, <2>2, <2>3, <2>4 DEF Lnd
<1>3. CASE Start \/ End
  BY <1>3 DEF Start, End, memory
<1>4. CASE ProcessForward
  <2> DEFINE k == event.key
  <2>1. activeHtlcs' = IF activeHtlcs[k] # NotTracked THEN activeHtlcs
                       ELSE [activeHtlcs EXCEPT ![k] = n + 1]
    BY <1>4 DEF ProcessForward
  <2>2. n + 1 \in Nat
    OBVIOUS
  <2>3. activeHtlcs' \in [Keys -> Nat]
    <3> HIDE DEF k
    <3> QED BY <2>1, <2>2
  <2> QED BY <1>4, <2>3 DEF ProcessForward, Receive
<1>5. CASE ProcessIgnored \/ ProcessUnknown \/ RecordUnknownType
  BY <1>5 DEF ProcessIgnored, ProcessUnknown, RecordUnknownType, Receive, memory
<1>6. CASE RecordResolution
  <2> DEFINE l == LabelsOf(event)
  <2>1. resolved' = [resolved EXCEPT ![l] = @ + 1]
    BY <1>6 DEF RecordResolution
  <2>2. resolved' \in [Labels -> Nat]
    <3> HIDE DEF l
    <3> DEFINE g == resolved[l] + 1
    <3>1. resolved' = [resolved EXCEPT ![l] = g]
      BY <2>1
    <3>2. l \in Labels => g \in Nat
      OBVIOUS
    <3>3. resolved \in [Labels -> Nat]
      OBVIOUS
    <3> HIDE DEF g, TypeOK
    <3> QED BY <3>1, <3>2, <3>3
  <2> QED BY <1>6, <2>2 DEF RecordResolution, Receive
<1>7. CASE ObserveResolution
  <2> DEFINE a == activeHtlcs[log[n].key]
             l == HtlcLabelsOf(LabelsOf(log[n]))
  <2>1. pc = "observing" /\ base < n /\ a # NotTracked /\ log[n].key \in Keys
    BY <1>7, EventType DEF ObserveResolution, ObservingInv
  <2>2. a \in Window
    BY <2>1, TrackedIsRead
  <2>3. n - a \in Nat
    BY <2>1, <2>2 DEF Window, Done
  <2>4. histogram' = [histogram EXCEPT ![l] =
                        [count |-> @.count + 1, sum |-> @.sum + (n - a)]]
    BY <1>7 DEF ObserveResolution
  <2>5. histogram' \in [HtlcLabels -> [count : Nat, sum : Nat]]
    <3> HIDE DEF a, l
    <3> DEFINE g == [count |-> histogram[l].count + 1,
                     sum |-> histogram[l].sum + (n - a)]
    <3>1. histogram' = [histogram EXCEPT ![l] = g]
      BY <2>4
    <3>2. l \in HtlcLabels => g \in [count : Nat, sum : Nat]
      BY <2>3
    <3> HIDE DEF g
    <3> QED BY <3>1, <3>2
  <2>6. activeHtlcs' \in [Keys -> Nat]
    BY <1>7 DEF ObserveResolution, NotTracked
  <2> QED BY <1>7, <2>5, <2>6 DEF ObserveResolution
<1>8. CASE Restart
  BY <1>8 DEF Restart, NoHtlcs, NoneResolved, NoneObserved, NotTracked
<1>9. CASE UNCHANGED vars
  BY <1>9 DEF vars
<1> QED
  BY <1>2, <1>3, <1>4, <1>5, <1>6, <1>7, <1>8, <1>9 DEF Next

LEMMA LogNext == TypeOK /\ LogInv /\ [Next]_vars => LogInv'
<1> SUFFICES ASSUME TypeOK, LogInv, [Next]_vars PROVE LogInv'
  OBVIOUS
<1>1. ASSUME NEW kind, NEW k \in Keys, NEW type, NEW r, Emit(kind, k, type, r),
             kind = "linkFail" => r \in Reasons,
             kind \in Resolutions => type \in {KeyType[k], "unknown"},
             kind = "forward" => KeyType[k] # "receive",
             kind \in Resolutions \cup {"forward"} => ~Resolved(k)
      PROVE  LogInv'
  <2> DEFINE e == [kind |-> kind, key |-> k, type |-> type, failure |-> r]
             h == Len(log)
  <2>1. log' = Append(log, e)
    BY <1>1 DEF Emit
  <2>2. /\ h \in Nat /\ Len(log') = h + 1 /\ log'[h + 1] = e
        /\ \A i \in 1..h : log'[i] = log[i]
    <3> HIDE DEF e
    <3> QED BY <2>1, AppendProperties DEF TypeOK
  <2>3. /\ e.kind = kind /\ e.key = k /\ e.type = type /\ e.failure = r
    OBVIOUS
  <2>4. kind \in Resolutions \cup {"forward"} =>
          \A i \in 1..h : ~(log[i].kind \in Resolutions /\ log[i].key = k)
    <3>1. DOMAIN log = 1..h
      BY DEF TypeOK
    <3> QED BY <1>1, <3>1 DEF Resolved
  <2> HIDE DEF e, h
  <2>5. ASSUME NEW i \in 1..h + 1
        PROVE  /\ log'[i].kind = "linkFail" => log'[i].failure \in Reasons
               /\ log'[i].kind \in Resolutions =>
                    log'[i].type \in {KeyType[log'[i].key], "unknown"}
               /\ log'[i].kind = "forward" => KeyType[log'[i].key] # "receive"
    <3>1. CASE i = h + 1
      BY <1>1, <2>2, <2>3, <3>1
    <3>2. CASE i \in 1..h
      BY <2>2, <3>2 DEF LogInv, h
    <3> QED BY <2>2, <3>1, <3>2
  <2>6. ASSUME NEW i \in 1..h + 1, NEW j \in 1..h + 1, i < j,
               log'[i].key = log'[j].key, log'[i].kind \in Resolutions
        PROVE  log'[j].kind \notin Resolutions \cup {"forward"}
    <3>1. i \in 1..h /\ log'[i] = log[i]
      BY <2>2, <2>6
    <3>2. CASE j = h + 1
      BY <2>2, <2>3, <2>4, <2>6, <3>1, <3>2
    <3>3. CASE j \in 1..h
      BY <2>2, <2>6, <3>1, <3>3 DEF LogInv, h
    <3> QED BY <2>2, <3>2, <3>3
  <2> QED BY <2>2, <2>5, <2>6 DEF LogInv
<1>2. CASE Lnd
  <2>1. CASE \E k \in Keys : LndForward(k)
    <3>1. PICK k \in Keys : LndForward(k)
      BY <2>1
    <3>2. "forward" \notin Resolutions
      BY DEF Resolutions
    <3> QED BY <1>1, <3>1, <3>2 DEF LndForward
  <2>2. CASE \E k \in Keys, kind \in Resolutions :
               \E type \in {KeyType[k], "unknown"} : LndResolve(k, kind, type)
    <3>0. PICK k \in Keys, kind \in Resolutions :
                 \E type \in {KeyType[k], "unknown"} : LndResolve(k, kind, type)
      BY <2>2
    <3>1. PICK type \in {KeyType[k], "unknown"} : LndResolve(k, kind, type)
      BY <3>0
    <3>2. PICK r : Emit(kind, k, type, r) /\ (kind = "linkFail" => r \in Reasons)
      BY <3>1 DEF LndResolve
    <3>3. kind # "forward" /\ ~Resolved(k)
      BY <3>1 DEF LndResolve, Resolutions
    <3> QED BY <1>1, <3>1, <3>2, <3>3
  <2>3. CASE \E k \in Keys, kind \in {"ignored", "unknown"} : LndOther(k, kind)
    <3>1. PICK k \in Keys, kind \in {"ignored", "unknown"} : LndOther(k, kind)
      BY <2>3
    <3>2. kind \notin Resolutions \cup {"forward", "linkFail"}
      BY <3>1 DEF Resolutions
    <3> QED BY <1>1, <3>1, <3>2 DEF LndOther
  <2> QED BY <1>2, <2>1, <2>2, <2>3 DEF Lnd
<1>3. CASE ~Lnd
  <2>1. UNCHANGED log
    BY <1>3 DEF Next, Start, End, ProcessForward, ProcessIgnored, ProcessUnknown,
                RecordResolution, ObserveResolution, RecordUnknownType, Restart, vars
  <2> QED BY <2>1 DEF LogInv
<1> QED BY <1>2, <1>3

LEMMA LndAppends ==
  ASSUME TypeOK, Lnd
  PROVE  /\ \A i \in 1..Len(log) : log'[i] = log[i]
         /\ UNCHANGED <<base, n, pc, activeHtlcs, resolved, histogram>>
<1>1. PICK kind, k, type, r : Emit(kind, k, type, r)
  BY DEF Lnd, LndForward, LndResolve, LndOther
<1> DEFINE e == [kind |-> kind, key |-> k, type |-> type, failure |-> r]
<1>2. log' = Append(log, e) /\ log \in Seq(Events)
  BY <1>1 DEF Emit, TypeOK
<1>3. e \in Events => \A i \in 1..Len(log) : log'[i] = log[i]
  <2> HIDE DEF e
  <2> QED BY <1>2, AppendProperties
<1>4. \A i \in 1..Len(log) : log'[i] = log[i]
  <2> HIDE DEF e
  <2> QED BY <1>2
<1> QED BY <1>1, <1>4 DEF Emit, memory

(* The event that is received, if it is the next one                       *)
LEMMA Received ==
  ASSUME TypeOK, NEW kinds, Receive(kinds)
  PROVE  /\ pc = "select" /\ n \in Nat /\ base \in Nat /\ base <= n
         /\ n + 1 \in 1..Len(log) /\ n' = n + 1
         /\ event = log[n + 1] /\ event \in Events /\ event.kind \in kinds
         /\ event.key \in Keys /\ event.type \in Types \cup {"unknown"}
         /\ Done = n
<1>1. n + 1 \in 1..Len(log) /\ n \in Nat /\ base \in Nat /\ base <= n
  BY DEF Receive, TypeOK
<1> QED BY <1>1, EventType DEF Receive, event, Done

LEMMA PlaceNext ==
  TypeOK /\ KnownInv /\ ObservingInv /\ [Next]_vars => KnownInv' /\ ObservingInv'
<1> SUFFICES ASSUME TypeOK, KnownInv, ObservingInv, [Next]_vars
             PROVE  KnownInv' /\ ObservingInv'
  OBVIOUS
<1>1. CASE Lnd
  <2>1. /\ \A i \in base + 1 .. n : log'[i] = log[i]
        /\ base < n => log'[n] = log[n]
    <3>1. \A i \in 1..Len(log) : log'[i] = log[i]
      BY <1>1, LndAppends
    <3>2. /\ base \in Nat /\ n \in Nat /\ base <= n /\ n <= Len(log)
          /\ Len(log) \in Nat
      BY DEF TypeOK
    <3> QED BY <3>1, <3>2
  <2>2. UNCHANGED <<base, n, pc, activeHtlcs>>
    BY <1>1, LndAppends
  <2> QED BY <2>1, <2>2 DEF KnownInv, ObservingInv, Lets
<1>2. CASE Start
  <2>1. pc' = "select" /\ base' = n' /\ n' \in Nat
    BY <1>2 DEF Start, TypeOK
  <2> QED BY <2>1 DEF KnownInv, ObservingInv
<1>3. CASE End \/ ProcessUnknown \/ RecordUnknownType \/ Restart
  <2>1. pc' \in {"failed", "off"}
    BY <1>3 DEF End, ProcessUnknown, RecordUnknownType, Restart
  <2> QED BY <2>1 DEF KnownInv, ObservingInv
<1>4. CASE ProcessForward \/ ProcessIgnored
  <2>1. /\ Receive({"forward", "ignored"})
        /\ UNCHANGED <<log, base, pc>>
    BY <1>4 DEF ProcessForward, ProcessIgnored, Receive
  <2>2. /\ pc = "select" /\ n' = n + 1 /\ n \in Nat /\ base \in Nat
        /\ log[n + 1].kind \in {"forward", "ignored"}
    BY <2>1, Received
  <2>3. log[n + 1].kind \notin Resolutions
    BY <2>2 DEF Resolutions
  <2> QED BY <2>1, <2>2, <2>3 DEF KnownInv, ObservingInv
<1>5. CASE RecordResolution
  <2>1. /\ Receive(Resolutions) /\ event.type # "unknown"
        /\ pc' = IF event.type # "receive" /\ activeHtlcs[event.key] # NotTracked
                 THEN "observing" ELSE pc
        /\ UNCHANGED <<log, base, activeHtlcs>>
    BY <1>5 DEF RecordResolution
  <2>2. /\ pc = "select" /\ n' = n + 1 /\ n \in Nat /\ base \in Nat /\ base <= n
        /\ event = log[n + 1] /\ event.kind \in Resolutions
        /\ event.type \in Types \cup {"unknown"}
    BY <2>1, Received
  <2>3. KnownInv'
    BY <2>1, <2>2 DEF KnownInv
  <2>4. ObservingInv'
    BY <2>1, <2>2 DEF ObservingInv, Lets, Types
  <2> QED BY <2>3, <2>4
<1>6. CASE ObserveResolution
  BY <1>6 DEF ObserveResolution, KnownInv, ObservingInv
<1>7. CASE UNCHANGED vars
  BY <1>7 DEF vars, KnownInv, ObservingInv, Lets
<1> QED
  BY <1>1, <1>2, <1>3, <1>4, <1>5, <1>6, <1>7 DEF Next

-----------------------------------------------------------------------------
(* The counters                                                            *)

LEMMA ReadIs ==
  /\ ResolvedMatchesLog <=>
       \A l \in Labels : resolved[l] = Cardinality(Counted(log, Read, l))
  /\ ResolvedMatchesLog' <=>
       \A l \in Labels : resolved'[l] = Cardinality(Counted(log', Read', l))
BY DEF ResolvedMatchesLog, CountedUnder, Counted

LEMMA ResolvedNext ==
  TypeOK /\ LogInv /\ ResolvedMatchesLog /\ [Next]_vars => ResolvedMatchesLog'
<1> SUFFICES ASSUME TypeOK, LogInv, ResolvedMatchesLog, [Next]_vars
             PROVE  ResolvedMatchesLog'
  OBVIOUS
<1>1. CASE Lnd \/ End \/ ObserveResolution \/ UNCHANGED vars
  <2>1. /\ \A i \in 1..Len(log) : log'[i] = log[i]
        /\ Read' = Read /\ resolved' = resolved
    <3>1. CASE Lnd
      BY <3>1, LndAppends DEF Read
    <3>2. CASE End
      BY <3>2 DEF End, memory, Read
    <3>3. CASE ObserveResolution
      BY <3>3 DEF ObserveResolution, Read
    <3>4. CASE UNCHANGED vars
      BY <3>4 DEF vars, Read
    <3> QED BY <1>1, <3>1, <3>2, <3>3, <3>4
  <2>2. Read \in SUBSET (1..Len(log)) /\ Len(log) \in Nat
    BY DEF Read, TypeOK
  <2>3. \A l : Counted(log', Read, l) = Counted(log, Read, l)
    BY <2>1, <2>2, SamePast
  <2>4. \A l : Cardinality(Counted(log', Read', l)) = Cardinality(Counted(log, Read, l))
    BY <2>1, <2>3, Zenon
  <2> QED BY <2>1, <2>4, ReadIs
<1>2. CASE Start \/ Restart
  <2>1. Read' = {}
    BY <1>2 DEF Start, Restart, Read, TypeOK
  <2>2. \A l \in Labels : resolved'[l] = 0
    <3>1. CASE Start
      <4>1. Read = {} /\ resolved' = resolved
        BY <3>1 DEF Start, Read, memory
      <4>2. \A l : Counted(log, Read, l) = {}
        BY <4>1 DEF Counted
      <4> QED BY <4>1, <4>2, ReadIs, FS_EmptySet
    <3>2. CASE Restart
      BY <3>2 DEF Restart, NoneResolved
    <3> QED BY <1>2, <3>1, <3>2
  <2>3. \A l : Counted(log', Read', l) = {}
    BY <2>1 DEF Counted
  <2> QED BY <2>2, <2>3, ReadIs, FS_EmptySet
<1>3. ASSUME NEW kinds, Receive(kinds), UNCHANGED <<log, base>>, pc' # "off",
             \A l \in Labels : resolved'[l] = resolved[l] +
               IF /\ event.kind \in Resolutions
                  /\ Describes(l, event) /\ HasReason(l, event)
               THEN 1 ELSE 0
      PROVE  ResolvedMatchesLog'
  <2>1. /\ pc = "select" /\ n \in Nat /\ base \in Nat /\ base <= n /\ n' = n + 1
        /\ event = log[n + 1]
    BY <1>3, Received
  <2>2. Read = base + 1 .. n /\ Read' = base + 1 .. n + 1
    BY <1>3, <2>1 DEF Read
  <2>3. ASSUME NEW l \in Labels
        PROVE  resolved'[l] = Cardinality(Counted(log', Read', l))
    <3>1. Cardinality(Counted(log, base + 1 .. n + 1, l)) =
            Cardinality(Counted(log, base + 1 .. n, l)) +
              IF /\ log[n + 1].kind \in Resolutions
                 /\ Describes(l, log[n + 1]) /\ HasReason(l, log[n + 1])
              THEN 1 ELSE 0
      BY <2>1, CountedNext
    <3>2. resolved[l] = Cardinality(Counted(log, base + 1 .. n, l))
      BY <2>2, ReadIs
    <3>3. resolved'[l] = Cardinality(Counted(log, base + 1 .. n + 1, l))
      BY <1>3, <2>1, <3>1, <3>2
    <3> QED BY <1>3, <2>2, <3>3
  <2> QED BY <2>3, ReadIs
<1>4. resolved \in [Labels -> Nat]
  BY DEF TypeOK
<1>5. CASE ProcessForward \/ ProcessIgnored \/ ProcessUnknown
  <2>1. /\ Receive({"forward", "ignored", "unknown"})
        /\ UNCHANGED <<log, base, resolved>> /\ pc' # "off"
    BY <1>5 DEF ProcessForward, ProcessIgnored, ProcessUnknown, Receive, memory
  <2>2. event.kind \notin Resolutions
    BY <2>1, Received DEF Resolutions
  <2> QED BY <1>3, <1>4, <2>1, <2>2
<1>6. CASE RecordResolution \/ RecordUnknownType
  <2>1. Receive(Resolutions) /\ UNCHANGED <<log, base>> /\ pc' # "off"
    BY <1>6 DEF RecordResolution, RecordUnknownType, Receive
  <2>2. /\ event \in Events /\ event.kind \in Resolutions
        /\ event = log[n + 1] /\ n + 1 \in 1..Len(log)
    BY <2>1, Received
  <2>3. event.kind = "linkFail" => event.failure \in Reasons
    BY <2>2 DEF LogInv
  <2>4. /\ event.type # "unknown" => LabelsOf(event) \in Labels
        /\ \A l \in Labels :
             Describes(l, event) /\ HasReason(l, event)
               <=> event.type # "unknown" /\ l = LabelsOf(event)
    BY <2>2, <2>3, LabelsDescribe
  <2>5. \A l \in Labels :
          resolved'[l] = resolved[l] +
            IF event.type # "unknown" /\ l = LabelsOf(event) THEN 1 ELSE 0
    <3>1. CASE RecordResolution
      <4> DEFINE x == LabelsOf(event)
      <4>1. event.type # "unknown" /\ resolved' = [resolved EXCEPT ![x] = @ + 1]
        BY <3>1 DEF RecordResolution
      <4>2. \A l \in Labels : resolved'[l] = resolved[l] + IF l = x THEN 1 ELSE 0
        <5> HIDE DEF x
        <5> QED BY <1>4, <4>1
      <4> QED BY <4>1, <4>2
    <3>2. CASE RecordUnknownType
      BY <1>4, <3>2 DEF RecordUnknownType, memory
    <3> QED BY <1>6, <3>1, <3>2
  <2>6. \A l \in Labels :
          resolved'[l] = resolved[l] +
            IF /\ event.kind \in Resolutions
               /\ Describes(l, event) /\ HasReason(l, event)
            THEN 1 ELSE 0
    BY <2>2, <2>4, <2>5
  <2> QED BY <1>3, <2>1, <2>6
<1> QED
  BY <1>1, <1>2, <1>5, <1>6 DEF Next

-----------------------------------------------------------------------------
(* The tracked keys and the histogram                                      *)

LEMMA MatchIsNext ==
  /\ ActiveMatchesLog' <=> Active(log', Window', activeHtlcs', Done')
  /\ HistogramMatchesLog' <=>
       \A l \in HtlcLabels :
         /\ histogram'[l].count = Cardinality(Pairs(log', Window', l))
         /\ histogram'[l].sum = Times(Pairs(log', Window', l))
<1>1. ActiveMatchesLog' <=> Active(log', Window', activeHtlcs', Done')
  BY DEF ActiveMatchesLog, Active, FirstForward, First, Held, Releases, Lets
<1>2. ASSUME NEW l
      PROVE  /\ Cardinality(Observations(l))' = Cardinality(Pairs(log', Window', l))
             /\ SumFunction([o \in Observations(l) |-> o[2] - o[1]])'
                  = Times(Pairs(log', Window', l))
  <2>1. PICK P : P = Pairs(log', Window', l)
    OBVIOUS
  <2>2. Observations(l)' = P
    BY <2>1 DEF Observations, Pairs, FirstForward, First, Held, Releases, Lets
  <2> QED BY <2>1, <2>2, Zenon DEF Times
<1>3. HistogramMatchesLog' <=>
        \A l \in HtlcLabels :
          /\ histogram'[l].count = Cardinality(Pairs(log', Window', l))
          /\ histogram'[l].sum = Times(Pairs(log', Window', l))
  BY <1>2 DEF HistogramMatchesLog
<1> QED BY <1>1, <1>3

(* A step that reads nothing or that only begins to                        *)
LEMMA SameMatch ==
  ASSUME TypeOK, ActiveMatchesLog, HistogramMatchesLog,
         Window' = Window, Done' = Done,
         UNCHANGED <<activeHtlcs, histogram>>,
         \A i \in 1..Len(log) : log'[i] = log[i]
  PROVE  ActiveMatchesLog' /\ HistogramMatchesLog'
<1>1. /\ Window \in SUBSET (1..Len(log)) /\ Len(log) \in Nat
      /\ Done \in Int /\ Done <= Len(log)
  BY DEF Window, Done, TypeOK
<1>2. ActiveMatchesLog'
  <2>1. Active(log, Window, activeHtlcs, Done)
    BY ActiveIs
  <2>2. Active(log', Window, activeHtlcs, Done)
    BY <1>1, <2>1, SamePast
  <2>3. Active(log', Window', activeHtlcs', Done')
    BY <2>2, Zenon
  <2> QED BY <2>3, MatchIsNext
<1>3. HistogramMatchesLog'
  <2>1. \A l : Pairs(log', Window, l) = Pairs(log, Window, l)
    BY <1>1, SamePast
  <2>2. \A l : /\ Cardinality(Pairs(log', Window', l))
                    = Cardinality(Pairs(log, Window, l))
               /\ Times(Pairs(log', Window', l)) = Times(Pairs(log, Window, l))
    BY <2>1, Zenon
  <2> QED BY <2>2, HistogramIs, MatchIsNext
<1> QED BY <1>2, <1>3

(* A step after which the goroutine is done with one event more            *)
LEMMA OneMore ==
  ASSUME TypeOK, ActiveMatchesLog, HistogramMatchesLog,
         pc # "off", pc' # "off", UNCHANGED <<log, base>>,
         base <= Done, NEW j, j = Done + 1, j \in 1..Len(log), Done' = j,
         LET e == log[j]
             tracked == activeHtlcs[e.key] # NotTracked
         IN  /\ \A k \in Keys : activeHtlcs'[k] =
                  IF Lets(log, j, k) THEN NotTracked
                  ELSE IF e.kind = "forward" /\ e.key = k
                          /\ activeHtlcs[k] = NotTracked
                       THEN j ELSE activeHtlcs[k]
             /\ \A l \in HtlcLabels :
                  IF Lets(log, j, e.key) /\ tracked /\ Describes(l, e)
                  THEN /\ histogram'[l].count = histogram[l].count + 1
                       /\ histogram'[l].sum =
                            histogram[l].sum + (j - activeHtlcs[e.key])
                  ELSE histogram'[l] = histogram[l]
  PROVE  ActiveMatchesLog' /\ HistogramMatchesLog'
<1>1. base \in Nat /\ Done \in Nat
  BY DEF TypeOK, Done
<1> DEFINE m == Done
           e == log[m + 1]
           a == activeHtlcs[e.key]
<1>2. Window = base + 1 .. m /\ Window' = base + 1 .. m + 1
  BY DEF Window
<1>3. Active(log, base + 1 .. m, activeHtlcs, m)
  BY <1>2, ActiveIs
<1>4. ActiveMatchesLog'
  <2>1. Active(log, base + 1 .. m + 1, activeHtlcs', m + 1)
    BY <1>1, <1>3, ActiveNext
  <2>2. Active(log', Window', activeHtlcs', Done')
    BY <1>2, <2>1
  <2> QED BY <2>2, MatchIsNext
<1>5. ASSUME NEW l \in HtlcLabels
      PROVE  /\ histogram'[l].count = Cardinality(Pairs(log', Window', l))
             /\ histogram'[l].sum = Times(Pairs(log', Window', l))
  <2> DEFINE P == Pairs(log, base + 1 .. m, l)
             Q == Pairs(log, base + 1 .. m + 1, l)
             new == Lets(log, m + 1, e.key) /\ a # NotTracked /\ Describes(l, e)
  <2>1. histogram[l].count = Cardinality(P) /\ histogram[l].sum = Times(P)
    BY <1>2, HistogramIs
  <2>2. IF new
        THEN /\ Cardinality(Q) = Cardinality(P) + 1
             /\ Times(Q) = Times(P) + ((m + 1) - a)
        ELSE Cardinality(Q) = Cardinality(P) /\ Times(Q) = Times(P)
    <3>1. e.key \in Keys
      BY EventType
    <3>2. AddsPair(log, base, m, activeHtlcs, l)
      BY <1>1, <1>3, <3>1, PairsFromActive
    <3> QED BY <3>2 DEF AddsPair
  <2>3. histogram'[l].count = Cardinality(Q) /\ histogram'[l].sum = Times(Q)
    <3>1. CASE new
      <4>1. /\ histogram'[l].count = histogram[l].count + 1
            /\ histogram'[l].sum = histogram[l].sum + ((m + 1) - a)
        BY <3>1
      <4> HIDE DEF P, Q, a, m, new
      <4> QED BY <2>1, <2>2, <3>1, <4>1
    <3>2. CASE ~new
      <4>1. histogram'[l] = histogram[l]
        BY <3>2
      <4> HIDE DEF P, Q, a, m, new
      <4> QED BY <2>1, <2>2, <3>2, <4>1
    <3> QED BY <3>1, <3>2
  <2>4. Pairs(log', Window', l) = Q
    BY <1>2
  <2> HIDE DEF Q
  <2>5. /\ Cardinality(Pairs(log', Window', l)) = Cardinality(Q)
        /\ Times(Pairs(log', Window', l)) = Times(Q)
    BY <2>4, Zenon
  <2> QED BY <2>3, <2>5
<1> QED BY <1>4, <1>5, MatchIsNext

LEMMA MatchNext ==
  /\ TypeOK /\ LogInv /\ ObservingInv /\ ActiveMatchesLog /\ HistogramMatchesLog
  /\ [Next]_vars
  => ActiveMatchesLog' /\ HistogramMatchesLog'
<1> SUFFICES ASSUME TypeOK, LogInv, ObservingInv, ActiveMatchesLog,
                    HistogramMatchesLog, [Next]_vars
             PROVE  ActiveMatchesLog' /\ HistogramMatchesLog'
  OBVIOUS
<1>1. CASE Lnd
  BY <1>1, LndAppends, SameMatch DEF Window, Done
<1>2. CASE End \/ UNCHANGED vars
  BY <1>2, SameMatch DEF End, vars, memory, Window, Done
<1>3. CASE Start \/ Restart
  <2>1. Window' = {}
    BY <1>3 DEF Start, Restart, Window, Done, TypeOK
  <2>2. /\ \A k \in Keys : activeHtlcs'[k] = NotTracked
        /\ \A l \in HtlcLabels : histogram'[l].count = 0 /\ histogram'[l].sum = 0
    <3>1. CASE Start
      <4>1. Window = {} /\ UNCHANGED <<activeHtlcs, histogram>>
        BY <3>1 DEF Start, Window, memory
      <4>2. \A k \in Keys : activeHtlcs[k] = NotTracked
        BY <4>1, TrackedIsRead
      <4>3. \A l : Pairs(log, Window, l) = {}
        BY <4>1 DEF Pairs
      <4>4. Cardinality({}) = 0 /\ Times({}) = 0
        BY FS_EmptySet, SumOfNone DEF Times
      <4>5. \A l \in HtlcLabels : histogram[l].count = 0 /\ histogram[l].sum = 0
        BY <4>3, <4>4, HistogramIs
      <4> QED BY <4>1, <4>2, <4>5
    <3>2. CASE Restart
      BY <3>2 DEF Restart, NoHtlcs, NoneObserved
    <3> QED BY <1>3, <3>1, <3>2
  <2>3. ActiveMatchesLog'
    BY <2>1, <2>2, MatchIsNext DEF Active
  <2>4. HistogramMatchesLog'
    <3>1. \A l : Pairs(log', Window', l) = {}
      BY <2>1 DEF Pairs
    <3>2. Cardinality({}) = 0 /\ Times({}) = 0
      BY FS_EmptySet, SumOfNone DEF Times
    <3> QED BY <2>2, <3>1, <3>2, MatchIsNext
  <2> QED BY <2>3, <2>4
<1>4. CASE ProcessForward
  <2>1. /\ Receive({"forward"}) /\ UNCHANGED <<log, base, pc, histogram>>
        /\ activeHtlcs' = IF activeHtlcs[event.key] # NotTracked THEN activeHtlcs
                          ELSE [activeHtlcs EXCEPT ![event.key] = n + 1]
    BY <1>4 DEF ProcessForward
  <2>2. /\ pc = "select" /\ n \in Nat /\ base <= n /\ n + 1 \in 1..Len(log)
        /\ n' = n + 1 /\ event = log[n + 1] /\ event.kind = "forward" /\ Done = n
        /\ event.key \in Keys
    BY <2>1, Received
  <2>3. Done' = n + 1
    BY <2>1, <2>2 DEF Done
  <2>4. \A k : ~Lets(log, n + 1, k)
    BY <2>2 DEF Lets, Resolutions
  <2>5. \A k \in Keys :
          activeHtlcs'[k] = IF event.key = k /\ activeHtlcs[k] = NotTracked
                            THEN n + 1 ELSE activeHtlcs[k]
    <3>1. activeHtlcs \in [Keys -> Nat]
      BY DEF TypeOK
    <3> QED BY <2>1, <2>2, <3>1
  <2> QED BY <2>1, <2>2, <2>3, <2>4, <2>5, OneMore
<1>5. CASE ProcessIgnored \/ ProcessUnknown \/ RecordUnknownType
  <2>1. /\ \/ Receive({"ignored", "unknown"})
           \/ Receive(Resolutions) /\ event.type = "unknown"
        /\ UNCHANGED <<log, base, activeHtlcs, histogram>>
        /\ pc' \in {"select", "failed"} /\ n' = n + 1
    BY <1>5 DEF ProcessIgnored, ProcessUnknown, RecordUnknownType, Receive, memory
  <2>2. /\ pc = "select" /\ n \in Nat /\ base <= n /\ n + 1 \in 1..Len(log)
        /\ event = log[n + 1] /\ Done = n
        /\ \/ event.kind \in {"ignored", "unknown"}
           \/ event.kind \in Resolutions /\ event.type = "unknown"
    <3>1. CASE Receive({"ignored", "unknown"})
      BY <3>1, Received
    <3>2. CASE Receive(Resolutions) /\ event.type = "unknown"
      BY <3>2, Received
    <3> QED BY <2>1, <3>1, <3>2
  <2>3. Done' = n + 1
    BY <2>1 DEF Done
  <2>4. log[n + 1].kind # "forward" /\ \A k : ~Lets(log, n + 1, k)
    BY <2>2 DEF Lets, Resolutions
  <2> QED BY <2>1, <2>2, <2>3, <2>4, OneMore
<1>6. CASE RecordResolution
  <2>1. /\ Receive(Resolutions) /\ UNCHANGED <<log, base, activeHtlcs, histogram>>
        /\ pc' = IF event.type # "receive" /\ activeHtlcs[event.key] # NotTracked
                 THEN "observing" ELSE pc
    BY <1>6 DEF RecordResolution
  <2>2. /\ pc = "select" /\ n \in Nat /\ base <= n /\ n + 1 \in 1..Len(log)
        /\ n' = n + 1 /\ event = log[n + 1] /\ event.kind \in Resolutions
        /\ Done = n
    BY <2>1, Received
  <2>3. CASE pc' = "observing"
    <3>1. Done' = Done /\ Window' = Window
      BY <2>1, <2>2, <2>3 DEF Done, Window
    <3> QED BY <2>1, <3>1, SameMatch
  <2>4. CASE pc' = "select"
    <3>1. Done' = n + 1
      BY <2>2, <2>4 DEF Done
    <3>2. log[n + 1].type = "receive" \/ activeHtlcs[log[n + 1].key] = NotTracked
      BY <2>1, <2>2, <2>4
    <3>3. /\ log[n + 1].kind # "forward"
          /\ \A k : Lets(log, n + 1, k) =>
               k = log[n + 1].key /\ activeHtlcs[k] = NotTracked
      BY <2>2, <3>2 DEF Lets, Resolutions
    <3> QED BY <2>1, <2>2, <2>4, <3>1, <3>3, OneMore
  <2> QED BY <2>1, <2>2, <2>3, <2>4
<1>7. CASE ObserveResolution
  <2> DEFINE e == log[n]
             x == HtlcLabelsOf(LabelsOf(e))
  <2>1. /\ pc = "observing" /\ pc' = "select" /\ UNCHANGED <<log, base, n>>
        /\ activeHtlcs' = [activeHtlcs EXCEPT ![e.key] = NotTracked]
        /\ histogram' = [histogram EXCEPT ![x] =
             [count |-> @.count + 1, sum |-> @.sum + (n - activeHtlcs[e.key])]]
    BY <1>7 DEF ObserveResolution
  <2>2. /\ base < n /\ Lets(log, n, e.key) /\ activeHtlcs[e.key] # NotTracked
        /\ n \in 1..Len(log) /\ n \in Nat /\ base \in Nat
    BY <2>1 DEF ObservingInv, TypeOK
  <2>3. Done = n - 1 /\ Done' = n /\ Done + 1 = n /\ base <= Done
    BY <2>1, <2>2 DEF Done
  <2>4. \A k : Lets(log, n, k) <=> k = e.key
    BY <2>2 DEF Lets
  <2>5. \A k \in Keys :
          activeHtlcs'[k] = IF k = e.key THEN NotTracked ELSE activeHtlcs[k]
    <3>1. activeHtlcs \in [Keys -> Nat]
      BY DEF TypeOK
    <3> HIDE DEF e
    <3> QED BY <2>1, <3>1
  <2>6. \A l \in HtlcLabels :
          IF Describes(l, e)
          THEN /\ histogram'[l].count = histogram[l].count + 1
               /\ histogram'[l].sum = histogram[l].sum + (n - activeHtlcs[e.key])
          ELSE histogram'[l] = histogram[l]
    <3>1. /\ e \in Events /\ e.kind \in Resolutions /\ e.type # "unknown"
          /\ e.kind = "linkFail" => e.failure \in Reasons
      BY <2>2, EventType DEF Lets, LogInv
    <3>2. \A l \in HtlcLabels : Describes(l, e) <=> l = x
      BY <3>1, LabelsDescribe
    <3>3. histogram \in [HtlcLabels -> [count : Nat, sum : Nat]]
      BY DEF TypeOK
    <3> HIDE DEF e, x
    <3>4. \A l \in HtlcLabels :
            histogram'[l] =
              IF l = x
              THEN [count |-> histogram[l].count + 1,
                    sum |-> histogram[l].sum + (n - activeHtlcs[e.key])]
              ELSE histogram[l]
      BY <2>1, <3>3
    <3>5. ASSUME NEW l \in HtlcLabels, Describes(l, e)
          PROVE  /\ histogram'[l].count = histogram[l].count + 1
                 /\ histogram'[l].sum = histogram[l].sum + (n - activeHtlcs[e.key])
      <4>1. histogram'[l] = [count |-> histogram[l].count + 1,
                             sum |-> histogram[l].sum + (n - activeHtlcs[e.key])]
        BY <3>2, <3>4, <3>5
      <4> QED BY <4>1
    <3>6. \A l \in HtlcLabels : ~Describes(l, e) => histogram'[l] = histogram[l]
      BY <3>2, <3>4
    <3> QED BY <3>5, <3>6
  <2>7. e.kind # "forward"
    BY <2>2 DEF Lets, Resolutions
  <2> HIDE DEF x
  <2> QED BY <2>1, <2>2, <2>3, <2>4, <2>5, <2>6, <2>7, OneMore
<1> QED
  BY <1>1, <1>2, <1>3, <1>4, <1>5, <1>6, <1>7 DEF Next

-----------------------------------------------------------------------------
(* The theorems                                                            *)

LEMMA InitInv == Init => IInv
<1> SUFFICES ASSUME Init PROVE IInv
  OBVIOUS
<1> USE DEF Init
<1>1. TypeOK
  BY HtlcAssumption DEF TypeOK, NoHtlcs, NoneResolved, NoneObserved, NotTracked
<1>2. LogInv /\ KnownInv /\ ObservingInv
  BY DEF LogInv, KnownInv, ObservingInv
<1>3. Window = {} /\ Read = {} /\ Cardinality({}) = 0 /\ Times({}) = 0
  BY FS_EmptySet, SumOfNone DEF Window, Read, Times
<1>4. ActiveMatchesLog
  BY <1>3, ActiveIs DEF Active, NoHtlcs
<1>5. ResolvedMatchesLog
  <2>1. \A l : Counted(log, Read, l) = {}
    BY <1>3 DEF Counted
  <2> QED BY <1>3, <2>1, ReadIs DEF NoneResolved
<1>6. HistogramMatchesLog
  <2>1. \A l : Pairs(log, Window, l) = {}
    BY <1>3 DEF Pairs
  <2> QED BY <1>3, <2>1, HistogramIs DEF NoneObserved
<1> QED BY <1>1, <1>2, <1>4, <1>5, <1>6 DEF IInv

LEMMA Invariance == Spec => []IInv
<1>1. IInv /\ [Next]_vars => IInv'
  BY TypeNext, LogNext, PlaceNext, ResolvedNext, MatchNext DEF IInv
<1> QED BY InitInv, <1>1, PTL DEF Spec

(* The types of the monitor, and where the goroutine can be.               *)
THEOREM TypeCorrect == Spec => []TypeOK
<1>1. IInv => TypeOK
  BY DEF IInv
<1> QED BY Invariance, <1>1, PTL

(* activeHtlcs holds the keys whose forward has been read and that have not*)
(* been let go of since, each with the time of its first forward, however  *)
(* often lnd replays it (processHtlcEvent).                                *)
THEOREM ActiveIsRight == Spec => []ActiveMatchesLog
<1>1. IInv => ActiveMatchesLog
  BY DEF IInv
<1> QED BY Invariance, <1>1, PTL

(* Each of the resolved counters is the number of the resolutions read that*)
(* its labels describe (recordResolution).                                 *)
THEOREM CountersAreRight == Spec => []ResolvedMatchesLog
<1>1. IInv => ResolvedMatchesLog
  BY DEF IInv
<1> QED BY Invariance, <1>1, PTL

(* The histogram holds the time from the first forward to the resolution,  *)
(* once for each resolution of a forward that was read.                    *)
THEOREM HistogramIsRight == Spec => []HistogramMatchesLog
<1>1. IInv => HistogramMatchesLog
  BY DEF IInv
<1> QED BY Invariance, <1>1, PTL

(* A tracked key is in flight, or its resolution is still to be read: the  *)
(* first forward that is held is the witness of the one, and a resolution  *)
(* that had been read would have let it go.                                *)
THEOREM NoKeyLeaks == Spec => []NoLeak
<1>1. IInv => NoLeak
  <2> SUFFICES ASSUME IInv, NEW k \in Keys, pc # "failed",
                      activeHtlcs[k] # NotTracked, Resolved(k)
               PROVE  \E i \in Done + 1 .. Len(log) :
                        log[i].kind \in Resolutions /\ log[i].key = k
    <3>1. ASSUME IInv, NEW k \in Keys, activeHtlcs[k] # NotTracked
          PROVE  Forwarded(k)
      <4>1. /\ First(log, Window, activeHtlcs[k], k, Done + 1)
            /\ activeHtlcs[k] \in Window
        BY <3>1, TrackedIsRead DEF IInv
      <4>2. Window \subseteq DOMAIN log
        BY <3>1 DEF IInv, TypeOK, Window, Done
      <4> QED BY <4>1, <4>2 DEF First, Held, Forwarded
    <3> QED BY <3>1 DEF NoLeak, InFlight
  <2> DEFINE a == activeHtlcs[k]
  <2>1. TypeOK /\ LogInv /\ KnownInv /\ ActiveMatchesLog
    BY DEF IInv
  <2>2. First(log, Window, a, k, Done + 1) /\ a \in Window
    BY <2>1, TrackedIsRead
  <2>3. /\ pc \in {"select", "observing"} /\ base \in Nat /\ n \in Nat
        /\ a \in base + 1 .. Done /\ Done \in Nat /\ Done <= n /\ n <= Len(log)
        /\ Len(log) \in Nat
    BY <2>1, <2>2 DEF TypeOK, Window, Done
  <2>4. PICK i \in 1..Len(log) : log[i].kind \in Resolutions /\ log[i].key = k
    <3>1. DOMAIN log = 1..Len(log)
      BY <2>1 DEF TypeOK
    <3> QED BY <3>1 DEF Resolved
  <2>5. SUFFICES ASSUME i <= Done PROVE FALSE
    BY <2>3, <2>4
  <2>6. /\ log[a].kind = "forward" /\ log[a].key = k
        /\ ~\E q \in a + 1 .. (Done + 1) - 1 : Lets(log, q, k)
    BY <2>2 DEF First, Held
  <2>7. a < i
    <3>1. a \in 1..Len(log)
      BY <2>3
    <3>2. ~(i < a)
      BY <2>1, <2>4, <2>6, <3>1 DEF LogInv
    <3>3. i # a
      BY <2>4, <2>6 DEF Resolutions
    <3> QED BY <2>3, <2>4, <3>2, <3>3
  <2>8. i \in base + 1 .. n /\ i \in a + 1 .. (Done + 1) - 1
    BY <2>3, <2>4, <2>5, <2>7
  <2>9. log[i].type = KeyType[k] /\ KeyType[k] \in {"forward", "send"}
    <3>1. log[i].type # "unknown" /\ log[i].type \in {KeyType[k], "unknown"}
      BY <2>1, <2>3, <2>4, <2>8 DEF KnownInv, LogInv
    <3>2. KeyType[k] # "receive"
      <4>1. a \in 1..Len(log)
        BY <2>3
      <4> QED BY <2>1, <2>6, <4>1 DEF LogInv
    <3>3. KeyType[k] \in {"forward", "send", "receive"}
      BY HtlcAssumption DEF Types
    <3> QED BY <3>1, <3>2, <3>3
  <2>10. Lets(log, i, k)
    BY <2>4, <2>9 DEF Lets
  <2> QED BY <2>6, <2>8, <2>10
<1> QED BY Invariance, <1>1, PTL
=============================================================================
