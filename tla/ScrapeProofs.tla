---------------------------- MODULE ScrapeProofs ----------------------------
(***************************************************************************)
(* Proofs about the scrapes, for any set of collectors that work side by   *)
(* side. The idea is that what a Collect has exported is at any time what  *)
(* the calls before the one it is at give, all of them, so that a gap      *)
(* tells which call has failed; and what that call is, and why it failed,  *)
(* decides on the error.                                                   *)
(*                                                                         *)
(* Then proofs about the three collectors of module Reports: what each has *)
(* computed at any point of its loop is right for the part of the answer   *)
(* that it has seen, and each is one of those of Scrape, where the loop is *)
(* part of the step in which the call is answered.                         *)
(***************************************************************************)
EXTENDS Scrape, Reports, SumTheorems, SequenceTheorems, TLAPS

(* What the calls before the k-th give                                     *)
Before(c, k) == UNION {Calls[c][j].emits : j \in {i \in DOMAIN Calls[c] : i < k}}

(* c has ended at its k-th call.                                           *)
EndedAt(c, k) ==
  /\ cause[c] \in Causes
  /\ emitted[c] = Before(c, k)
  /\ raised[c] = (cause[c] \notin Calls[c][k].quiet)

(* A Collect that runs has exported what its calls so far give; one that   *)
(* has ended has exported everything, or has failed at one of its calls.   *)
Exported(c) ==
  /\ step[c] # 0 => emitted[c] = Before(c, step[c]) /\ ran[c]
  /\ Finished(c) =>
       \/ emitted[c] = All(Calls[c]) /\ cause[c] = "none" /\ ~raised[c]
       \/ \E k \in DOMAIN Calls[c] : EndedAt(c, k)
  /\ raised[c] => Finished(c)

ExportedInv == \A c \in Collectors : Exported(c)

IInv == TypeOK /\ ExportedInv

-----------------------------------------------------------------------------
(* Every collector has a list of one to five calls.                        *)
LEMMA CallsShape ==
  ASSUME NEW c \in Collectors
  PROVE  /\ Len(Calls[c]) \in 1..5
         /\ DOMAIN Calls[c] = 1..Len(Calls[c])
BY CollectorsAssumption
   DEF Calls, ChainCalls, ChannelsCalls, WalletCalls, PeersCalls, InfoCalls,
       WtClientCalls, GraphCalls

(* The calls that may fail without an error                                *)
LEMMA QuietCalls ==
  ASSUME NEW c \in Collectors, NEW k \in DOMAIN Calls[c],
         Calls[c][k].quiet # {}
  PROVE  \/ c = "chain" /\ k = 1
         \/ c = "channels" /\ k = 2
         \/ c = "wtclient" /\ k = 1
<1> USE DEF Call, Never
<1>1. CASE c = "chain"
  BY <1>1 DEF Calls, ChainCalls
<1>2. CASE c = "channels"
  <2>1. k \in 1..5
    BY <1>2 DEF Calls, ChannelsCalls
  <2> QED BY <1>2, <2>1 DEF Calls, ChannelsCalls
<1>3. CASE c = "wallet"
  <2>1. k \in 1..3
    BY <1>3 DEF Calls, WalletCalls
  <2> QED BY <1>3, <2>1 DEF Calls, WalletCalls
<1>4. CASE c = "peers"
  BY <1>4 DEF Calls, PeersCalls
<1>5. CASE c = "info"
  BY <1>5 DEF Calls, InfoCalls
<1>6. CASE c = "wtclient"
  BY <1>6 DEF Calls, WtClientCalls
<1>7. CASE c = "graph"
  <2>1. k \in 1..2
    BY <1>7 DEF Calls, GraphCalls
  <2> QED BY <1>7, <2>1 DEF Calls, GraphCalls
<1> QED
  BY <1>1, <1>2, <1>3, <1>4, <1>5, <1>6, <1>7, CollectorsAssumption

(* What is recognized in an error is in its parts.                         *)
LEMMA OneText ==
  ASSUME NEW context, NEW code, NEW t
  PROVE  /\ IsDeadlineExceeded(Error(context, code, <<t>>)) <=>
              \/ context = "DeadlineExceeded"
              \/ code = "DeadlineExceeded" /\ t = DeadlineText
         /\ IsInactive(Error(context, code, <<t>>)) <=> t = InactiveText
<1> DEFINE err == Error(context, code, <<t>>)
<1>1. /\ err.context = context /\ err.code = code
      /\ DOMAIN err.desc = {1} /\ err.desc[1] = t
  BY DEF Error
<1> QED BY <1>1 DEF IsDeadlineExceeded, IsInactive

LEMMA TwoTexts ==
  ASSUME NEW context, NEW code, NEW t, NEW u
  PROVE  /\ IsDeadlineExceeded(Error(context, code, <<t, u>>)) <=>
              \/ context = "DeadlineExceeded"
              \/ code = "DeadlineExceeded" /\ t = DeadlineText
         /\ IsInactive(Error(context, code, <<t, u>>)) <=>
              t = InactiveText \/ u = InactiveText
<1> DEFINE err == Error(context, code, <<t, u>>)
<1>1. /\ err.context = context /\ err.code = code
      /\ DOMAIN err.desc = {1, 2} /\ err.desc[1] = t /\ err.desc[2] = u
  BY DEF Error
<1> QED BY <1>1 DEF IsDeadlineExceeded, IsInactive

(* Of the deadlines the client's and the plain one of lnd are recognized,  *)
(* and no other error is taken for one.                                    *)
LEMMA Recognized ==
  /\ OnTimeout = {"clientDeadline", "serverDeadline"}
  /\ OnInactive = {"inactive"}
<1> DEFINE late(c) == IsDeadlineExceeded(Arriving[c])
           off(c) == IsInactive(Arriving[c])
<1>0. /\ DeadlineText # InactiveText
      /\ LndText # DeadlineText /\ LndText # InactiveText
      /\ ConnectionText # DeadlineText /\ ConnectionText # InactiveText
  BY DEF DeadlineText, InactiveText, LndText, ConnectionText
<1>1. late("clientDeadline") /\ ~off("clientDeadline")
  <2>1. Arriving["clientDeadline"] =
          Error("DeadlineExceeded", "none", <<DeadlineText>>)
    BY DEF Arriving
  <2>2. late("clientDeadline") <=>
          \/ "DeadlineExceeded" = "DeadlineExceeded"
          \/ "none" = "DeadlineExceeded" /\ DeadlineText = DeadlineText
    BY <2>1, OneText
  <2>3. off("clientDeadline") <=> DeadlineText = InactiveText
    BY <2>1, OneText
  <2> HIDE DEF late, off
  <2> QED
    BY <1>0, <2>2, <2>3
<1>2. late("serverDeadline") /\ ~off("serverDeadline")
  <2>1. Arriving["serverDeadline"] =
          Error("none", "DeadlineExceeded", <<DeadlineText>>)
    BY DEF Arriving
  <2>2. late("serverDeadline") <=>
          \/ "none" = "DeadlineExceeded"
          \/ "DeadlineExceeded" = "DeadlineExceeded" /\ DeadlineText = DeadlineText
    BY <2>1, OneText
  <2>3. off("serverDeadline") <=> DeadlineText = InactiveText
    BY <2>1, OneText
  <2> HIDE DEF late, off
  <2> QED
    BY <1>0, <2>2, <2>3
<1>3. ~late("innerDeadline") /\ ~off("innerDeadline")
  <2>1. Arriving["innerDeadline"] =
          Error("none", "DeadlineExceeded", <<LndText, DeadlineText>>)
    BY DEF Arriving
  <2>2. late("innerDeadline") <=>
          \/ "none" = "DeadlineExceeded"
          \/ "DeadlineExceeded" = "DeadlineExceeded" /\ LndText = DeadlineText
    BY <2>1, TwoTexts
  <2>3. off("innerDeadline") <=> LndText = InactiveText \/ DeadlineText = InactiveText
    BY <2>1, TwoTexts
  <2> HIDE DEF late, off
  <2> QED
    BY <1>0, <2>2, <2>3
<1>4. ~late("unreachable") /\ ~off("unreachable")
  <2>1. Arriving["unreachable"] =
          Error("none", "Unavailable", <<ConnectionText, DeadlineText>>)
    BY DEF Arriving
  <2>2. late("unreachable") <=>
          \/ "none" = "DeadlineExceeded"
          \/ "Unavailable" = "DeadlineExceeded" /\ ConnectionText = DeadlineText
    BY <2>1, TwoTexts
  <2>3. off("unreachable") <=> ConnectionText = InactiveText \/ DeadlineText = InactiveText
    BY <2>1, TwoTexts
  <2> HIDE DEF late, off
  <2> QED
    BY <1>0, <2>2, <2>3
<1>5. ~late("inactive") /\ off("inactive")
  <2>1. Arriving["inactive"] = Error("none", "Unknown", <<InactiveText>>)
    BY DEF Arriving
  <2>2. late("inactive") <=>
          \/ "none" = "DeadlineExceeded"
          \/ "Unknown" = "DeadlineExceeded" /\ InactiveText = DeadlineText
    BY <2>1, OneText
  <2>3. off("inactive") <=> InactiveText = InactiveText
    BY <2>1, OneText
  <2> HIDE DEF late, off
  <2> QED
    BY <1>0, <2>2, <2>3
<1>6. ~late("other") /\ ~off("other")
  <2>1. Arriving["other"] = Error("none", "Unknown", <<LndText>>)
    BY DEF Arriving
  <2>2. late("other") <=>
          \/ "none" = "DeadlineExceeded"
          \/ "Unknown" = "DeadlineExceeded" /\ LndText = DeadlineText
    BY <2>1, OneText
  <2>3. off("other") <=> LndText = InactiveText
    BY <2>1, OneText
  <2> HIDE DEF late, off
  <2> QED
    BY <1>0, <2>2, <2>3
<1> HIDE DEF late, off
<1>7. /\ OnTimeout = {c \in Causes : late(c)}
      /\ OnInactive = {c \in Causes : off(c)}
  BY DEF OnTimeout, OnInactive, late, off
<1> QED
  BY <1>1, <1>2, <1>3, <1>4, <1>5, <1>6, <1>7 DEF Causes

(* One call gives one step more, and the last one everything.              *)
LEMMA BeforeNext ==
  ASSUME NEW c \in Collectors, NEW k \in DOMAIN Calls[c]
  PROVE  /\ Before(c, k) \cup Calls[c][k].emits = Before(c, k + 1)
         /\ k = Len(Calls[c]) => Before(c, k + 1) = All(Calls[c])
         /\ Before(c, k) \subseteq All(Calls[c])
         /\ Before(c, 1) = {}
<1>1. DOMAIN Calls[c] = 1..Len(Calls[c]) /\ Len(Calls[c]) \in Nat
  BY CallsShape
<1>2. k \in Nat /\ \A i \in DOMAIN Calls[c] : i < k + 1 <=> i < k \/ i = k
  BY <1>1
<1>3. Before(c, k) \cup Calls[c][k].emits = Before(c, k + 1)
  BY <1>2 DEF Before
<1>4. k = Len(Calls[c]) => Before(c, k + 1) = All(Calls[c])
  <2> HAVE k = Len(Calls[c])
  <2>1. {i \in DOMAIN Calls[c] : i < k + 1} = DOMAIN Calls[c]
    BY <1>1
  <2> QED BY <2>1 DEF Before, All
<1>5. Before(c, k) \subseteq All(Calls[c])
  BY DEF Before, All
<1>6. Before(c, 1) = {}
  <2>1. {i \in DOMAIN Calls[c] : i < 1} = {}
    BY <1>1
  <2> QED BY <2>1 DEF Before
<1> QED BY <1>3, <1>4, <1>5, <1>6

(* A collector that a step leaves alone                                    *)
LEMMA Unmoved ==
  ASSUME NEW d \in Collectors, Exported(d),
         step'[d] = step[d], emitted'[d] = emitted[d], cause'[d] = cause[d],
         raised'[d] = raised[d], ran'[d] = ran[d]
  PROVE  Exported(d)'
<1>1. Finished(d)' <=> Finished(d)
  BY DEF Finished
<1>2. \A k \in DOMAIN Calls[d] : EndedAt(d, k)' <=> EndedAt(d, k)
  BY DEF EndedAt
<1> QED BY <1>1, <1>2 DEF Exported

LEMMA InitInv == Init => IInv
<1> SUFFICES ASSUME Init PROVE IInv
  OBVIOUS
<1>1. TypeOK
  <2> SUFFICES ASSUME NEW c \in Collectors PROVE 0 \in 0..Len(Calls[c])
    BY DEF Init, TypeOK
  <2> QED BY CallsShape
<1>2. ExportedInv
  BY DEF Init, ExportedInv, Exported, Finished
<1> QED BY <1>1, <1>2 DEF IInv

(* The steps of one collector leave the others alone.                      *)
LEMMA NextInv == IInv /\ [Next]_vars => IInv'
<1> SUFFICES ASSUME IInv, [Next]_vars PROVE IInv'
  OBVIOUS
<1> USE DEF IInv
<1>1. CASE LndChanges
  <2>1. UNCHANGED <<beside, step, emitted, cause, raised, ran>>
    BY <1>1 DEF LndChanges
  <2>2. lnd' \in {"up", "down"} /\ wtOn' \in BOOLEAN
    BY <1>1 DEF LndChanges, TypeOK
  <2> QED
    BY <2>1, <2>2 DEF TypeOK, ExportedInv, Exported, EndedAt, Finished
<1>2. ASSUME NEW c \in Collectors, Begin(c) PROVE IInv'
  <2>1. 1 \in DOMAIN Calls[c] /\ 1 \in 0..Len(Calls[c])
    BY CallsShape
  <2>2. TypeOK'
    BY <1>2, <2>1 DEF Begin, TypeOK
  <2>3. Before(c, 1) = {}
    BY <2>1, BeforeNext
  <2>4. Exported(c)'
    BY <1>2, <2>3 DEF Begin, TypeOK, Exported, Finished
  <2>5. ASSUME NEW d \in Collectors, d # c PROVE Exported(d)'
    BY <1>2, <2>5 DEF Begin, TypeOK, ExportedInv, Exported, EndedAt, Finished
  <2> QED BY <2>2, <2>4, <2>5 DEF ExportedInv
<1>3. ASSUME NEW c \in Collectors, Answered(c) PROVE IInv'
  <2> DEFINE k == step[c]
  <2>1. /\ k \in DOMAIN Calls[c] /\ k \in 1..Len(Calls[c])
        /\ Len(Calls[c]) \in 1..5
    BY <1>3, CallsShape DEF Answered, TypeOK
  <2>2. /\ emitted' = [emitted EXCEPT ![c] = @ \cup Calls[c][k].emits]
        /\ step' = [step EXCEPT ![c] = IF @ = Len(Calls[c]) THEN 0 ELSE @ + 1]
        /\ UNCHANGED <<lnd, wtOn, beside, cause, raised, ran>>
    BY <1>3 DEF Answered, Now
  <2>3. emitted'[c] = Before(c, k + 1)
    <3>1. emitted[c] = Before(c, k)
      BY <2>1 DEF ExportedInv, Exported
    <3>2. emitted'[c] = emitted[c] \cup Calls[c][k].emits
      BY <2>2 DEF TypeOK
    <3> QED BY <2>1, <3>1, <3>2, BeforeNext
  <2>4. emitted'[c] \subseteq All(Calls[c])
    <3>1. CASE k = Len(Calls[c])
      BY <2>1, <2>3, <3>1, BeforeNext
    <3>2. CASE k # Len(Calls[c])
      <4>1. k + 1 \in DOMAIN Calls[c]
        BY <2>1, <3>2, CallsShape
      <4> QED BY <2>3, <4>1, BeforeNext
    <3> QED BY <3>1, <3>2
  <2>5. TypeOK'
    <3> SUFFICES ASSUME NEW d \in Collectors
                 PROVE  /\ step'[d] \in 0..Len(Calls[d])
                        /\ emitted'[d] \subseteq All(Calls[d])
                        /\ step'[d] # 0 => cause[d] = "none" /\ ~raised[d]
      BY <2>2 DEF TypeOK
    <3>1. CASE d = c
      BY <1>3, <2>1, <2>2, <2>4, <3>1 DEF Answered, TypeOK
    <3>2. CASE d # c
      BY <2>2, <3>2 DEF TypeOK
    <3> QED BY <3>1, <3>2
  <2>6. Exported(c)'
    <3>1. ~raised'[c] /\ cause'[c] = "none"
      BY <2>1, <2>2 DEF TypeOK
    <3>0. ran'[c]
      BY <2>1, <2>2 DEF ExportedInv, Exported
    <3>2. CASE k = Len(Calls[c])
      BY <2>1, <2>2, <2>3, <3>0, <3>1, <3>2, BeforeNext DEF TypeOK, Exported, Finished
    <3>3. CASE k # Len(Calls[c])
      BY <2>1, <2>2, <2>3, <3>0, <3>1, <3>3 DEF TypeOK, Exported, Finished
    <3> QED BY <3>2, <3>3
  <2>7. ASSUME NEW d \in Collectors, d # c PROVE Exported(d)'
    BY <2>2, <2>7 DEF TypeOK, ExportedInv, Exported, EndedAt, Finished
  <2> QED BY <2>5, <2>6, <2>7 DEF ExportedInv
<1>4. ASSUME NEW c \in Collectors, NEW err \in Causes, Failed(c, err) PROVE IInv'
  <2>1. PICK k \in DOMAIN Calls[c] : k # 0 /\ k = step[c]
    BY <1>4, CallsShape DEF Failed, MayFail, TypeOK
  <2>2. /\ step' = [step EXCEPT ![c] = 0]
        /\ cause' = [cause EXCEPT ![c] = err]
        /\ raised' = [raised EXCEPT ![c] = err \notin Calls[c][k].quiet]
        /\ UNCHANGED <<lnd, wtOn, beside, emitted, ran>>
    BY <1>4, <2>1 DEF Failed, Now
  <2>3. TypeOK'
    <3>1. 0 \in 0..Len(Calls[c])
      BY CallsShape
    <3> QED BY <2>2, <3>1 DEF TypeOK
  <2>4. ran[c]
    BY <2>1 DEF ExportedInv, Exported
  <2>5. Exported(c)'
    <3>1. EndedAt(c, k)'
      <4>1. emitted'[c] = Before(c, k)
        BY <2>1, <2>2 DEF ExportedInv, Exported
      <4>2. cause'[c] = err /\ raised'[c] = (err \notin Calls[c][k].quiet)
        BY <2>2 DEF TypeOK
      <4>3. cause'[c] \in Causes
        BY <4>2
      <4> QED BY <4>1, <4>2, <4>3 DEF EndedAt, Before
    <3>2. step'[c] = 0 /\ ran'[c]
      BY <2>2, <2>4 DEF TypeOK
    <3> QED BY <2>1, <3>1, <3>2 DEF Exported, Finished
  <2>6. ASSUME NEW d \in Collectors, d # c PROVE Exported(d)'
    BY <2>2, <2>6 DEF TypeOK, ExportedInv, Exported, EndedAt, Finished
  <2> QED BY <2>3, <2>5, <2>6 DEF ExportedInv
<1>5. CASE UNCHANGED vars
  BY <1>5 DEF vars, TypeOK, ExportedInv, Exported, EndedAt, Finished
<1> QED BY <1>1, <1>2, <1>3, <1>4, <1>5 DEF Next

LEMMA Invariance == Spec => []IInv
BY InitInv, NextInv, PTL DEF Spec

-----------------------------------------------------------------------------
(* The variables keep their types, and a Collect that runs has sent no     *)
(* error.                                                                  *)
THEOREM TypeCorrect == Spec => []TypeOK
BY Invariance, PTL DEF IInv

(* No metric is missing without a reason somebody can see.                 *)
THEOREM GapsHaveReasons == Spec => []GapsAreExplained
<1>1. ASSUME IInv, NEW c \in Collectors, Finished(c), emitted[c] # All(Calls[c]),
             ~raised[c]
      PROVE  Tolerable(c)
  <2>1. PICK k \in DOMAIN Calls[c] : EndedAt(c, k)
    BY <1>1 DEF IInv, ExportedInv, Exported
  <2>2. cause[c] \in Calls[c][k].quiet /\ emitted[c] = Before(c, k)
    BY <1>1, <2>1 DEF EndedAt
  <2>3. \/ c = "chain" /\ k = 1
        \/ c = "channels" /\ k = 2
        \/ c = "wtclient" /\ k = 1
    BY <2>2, QuietCalls
  <2>4. k = 1 => emitted[c] = {}
    BY <2>2, BeforeNext
  <2>5. CASE c = "chain" /\ k = 1
    BY <2>2, <2>4, <2>5, Recognized
       DEF Calls, ChainCalls, Call, TimedOut, Tolerable
  <2>6. CASE c = "channels" /\ k = 2
    <3>1. {i \in DOMAIN Calls[c] : i < 2} = {1}
      BY <2>6, CallsShape
    <3>2. emitted[c] = ChannelsCalls[1].emits
      BY <2>2, <2>6, <3>1 DEF Before, Calls
    <3>3. TimedOut(c)
      BY <2>2, <2>6, Recognized DEF Calls, ChannelsCalls, Call, TimedOut
    <3> QED BY <2>6, <3>2, <3>3 DEF Tolerable
  <2>7. CASE c = "wtclient" /\ k = 1
    BY <2>2, <2>4, <2>7, Recognized DEF Calls, WtClientCalls, Call, Tolerable
  <2> QED BY <2>3, <2>5, <2>6, <2>7
<1>2. IInv => GapsAreExplained
  BY <1>1 DEF GapsAreExplained
<1> QED BY <1>2, Invariance, PTL

(* What may be missing without an error does not end the process. What has *)
(* been exported tells the call that failed, and the text of its error the *)
(* cause.                                                                  *)
THEOREM ToleratedSendsNoError == Spec => []ToleratedIsNotRaised
<1>1. ASSUME IInv, NEW c \in Collectors, Finished(c), Tolerable(c)
      PROVE  ~raised[c]
  <2>1. cause[c] # "none"
    BY <1>1 DEF Tolerable, TimedOut
  <2>2. PICK k \in DOMAIN Calls[c] : EndedAt(c, k)
    BY <1>1, <2>1 DEF IInv, ExportedInv, Exported
  <2>3. CASE c = "chain"
    <3>1. k = 1 /\ Calls[c][k].quiet = OnTimeout
      BY <2>3 DEF Calls, ChainCalls, Call
    <3> QED
      BY <1>1, <2>2, <2>3, <3>1, Recognized DEF EndedAt, Tolerable, TimedOut
  <2>4. CASE c = "channels"
    <3>1. k \in 1..5 /\ DOMAIN Calls[c] = 1..5
      BY <2>4 DEF Calls, ChannelsCalls
    <3>2. /\ Calls[c] = ChannelsCalls
          /\ emitted[c] = ChannelsCalls[1].emits /\ emitted[c] = Before(c, k)
      BY <1>1, <2>2, <2>4 DEF Tolerable, EndedAt, Calls
    <3>3. k # 1
      <4>1. "channelBalanceDesc" \in ChannelsCalls[1].emits
        BY DEF ChannelsCalls, Call
      <4> QED BY <3>2, <4>1, BeforeNext
    <3>4. ~(k > 2)
      <4>1. "numActiveChansDesc" \in ChannelsCalls[2].emits
        BY DEF ChannelsCalls, Call
      <4>2. "numActiveChansDesc" \notin ChannelsCalls[1].emits
        BY DEF ChannelsCalls, Call
      <4>3. k > 2 => ChannelsCalls[2].emits \subseteq Before(c, k)
        BY <3>1, <3>2 DEF Before
      <4> QED BY <3>2, <4>1, <4>2, <4>3
    <3>5. k = 2 /\ Calls[c][k].quiet = OnTimeout
      BY <3>1, <3>2, <3>3, <3>4 DEF ChannelsCalls, Call
    <3> QED
      BY <1>1, <2>2, <2>4, <3>5, Recognized DEF EndedAt, Tolerable, TimedOut
  <2>5. CASE c = "wtclient"
    <3>1. k = 1 /\ Calls[c][k].quiet = OnInactive
      BY <2>5 DEF Calls, WtClientCalls, Call
    <3> QED
      BY <1>1, <2>2, <2>5, <3>1, Recognized DEF EndedAt, Tolerable
  <2> QED BY <1>1, <2>3, <2>4, <2>5 DEF Tolerable
<1>2. IInv => ToleratedIsNotRaised
  BY <1>1 DEF ToleratedIsNotRaised
<1> QED BY <1>2, Invariance, PTL

-----------------------------------------------------------------------------
(* Lists                                                                   *)

(* A list of m elements is a sequence.                                     *)
LEMMA ListIsSeq ==
  ASSUME NEW S, NEW m \in Nat, NEW f \in [1..m -> S]
  PROVE  f \in Seq(S) /\ Len(f) = m
OBVIOUS

(* Places in a list                                                        *)
LEMMA FirstPlaces ==
  ASSUME NEW n \in Nat
  PROVE  IsFiniteSet(1..n) /\ Cardinality(1..n) = n
<1>1. /\ IsFiniteSet(1..n)
      /\ Cardinality(1..n) = IF 1 > n THEN 0 ELSE n - 1 + 1
  BY FS_Interval
<1> QED BY <1>1

-----------------------------------------------------------------------------
(* The wallet: what the loop has made of the outputs before the one it is  *)
(* at, which is all that WalletSeen stands for.                            *)
WalletSeen == 1 .. wNext - 1
Amounts == [i \in WalletSeen |-> wUtxos[i].value]
Confirmed == {i \in WalletSeen : wUtxos[i].confs > 0}

WalletExtremes ==
  /\ IF wNext = 1 THEN wMinAmt = 0 /\ wMaxAmt = 0
     ELSE \E i, j \in WalletSeen :
            wMinAmt = wUtxos[i].value /\ wMaxAmt = wUtxos[j].value
  /\ \A i \in WalletSeen :
       wMinAmt <= wUtxos[i].value /\ wUtxos[i].value <= wMaxAmt

WalletCounts ==
  /\ wNumConf + wNumUnconf = wNext - 1
  /\ wNumConf = Cardinality(Confirmed)
  /\ wSum = SumFunction(Amounts)

(* The loop starts afresh, and exports when it has seen all outputs.       *)
WalletPlace ==
  /\ wAt = "ListUnspent" => wNext = 1
  /\ wAt \in {"ListUnspent", "loop"} => wEmitted = {}
  /\ "minUtxoSizeDesc" \in wEmitted => wNext = Len(wUtxos) + 1

WalletInv ==
  Wallet!TypeOK /\ WalletExtremes /\ WalletCounts /\ WalletPlace

LEMMA WalletUtxo ==
  ASSUME Wallet!TypeOK
  PROVE  /\ wUtxos \in Seq([value : Values, confs : Confirmations])
         /\ \A i \in 1..Len(wUtxos) : /\ wUtxos[i].value \in Nat \ {0}
                                      /\ wUtxos[i].confs \in Nat
         /\ wNext \in 1..Len(wUtxos) + 1 /\ DOMAIN wUtxos = 1..Len(wUtxos)
         /\ Len(wUtxos) \in Nat
<1>1. wUtxos \in Seq([value : Values, confs : Confirmations])
  BY DEF Wallet!TypeOK
<1>2. /\ DOMAIN wUtxos = 1..Len(wUtxos) /\ Len(wUtxos) \in Nat
      /\ \A i \in 1..Len(wUtxos) : wUtxos[i] \in [value : Values, confs : Confirmations]
  BY <1>1, ElementOfSeq, LenProperties
<1>3. Values \subseteq Nat \ {0} /\ Confirmations \subseteq Nat
  BY WalletAssumption DEF Wallet!ValuesAssumption
<1>4. \A i \in 1..Len(wUtxos) : /\ wUtxos[i].value \in Nat \ {0}
                                /\ wUtxos[i].confs \in Nat
  BY <1>2, <1>3
<1> QED BY <1>1, <1>2, <1>4 DEF Wallet!TypeOK

LEMMA WalletEmits ==
  /\ \A i \in 1..3 : Wallet!Collect!WalletCalls[i].emits
                       \subseteq Wallet!Collect!All(Wallet!Collect!WalletCalls)
  /\ "minUtxoSizeDesc" \notin Wallet!Collect!WalletCalls[2].emits
  /\ "minUtxoSizeDesc" \notin Wallet!Collect!WalletCalls[3].emits
<1>1. DOMAIN Wallet!Collect!WalletCalls = 1..3
  BY DEF Wallet!Collect!WalletCalls
<1>2. /\ "minUtxoSizeDesc" \notin Wallet!Collect!WalletCalls[2].emits
      /\ "minUtxoSizeDesc" \notin Wallet!Collect!WalletCalls[3].emits
  BY DEF Wallet!Collect!WalletCalls, Wallet!Collect!Call
<1> QED BY <1>1, <1>2 DEF Wallet!Collect!All

LEMMA WalletInit == Wallet!Init => WalletInv
<1> SUFFICES ASSUME Wallet!Init PROVE WalletInv
  OBVIOUS
<1> USE DEF Wallet!Init
<1>1. Wallet!TypeOK
  <2>1. wUtxos \in Seq([value : Values, confs : Confirmations]) /\ Len(wUtxos) = 0
    BY EmptySeq
  <2>2. wNext \in 1..Len(wUtxos) + 1
    BY <2>1
  <2>3. /\ wAt = "idle" /\ wNumConf \in Nat /\ wNumUnconf \in Nat
        /\ wSum \in Nat /\ wMinAmt <= wMaxAmt
        /\ wEmitted = {} /\ wCause = "none" /\ wRaised = FALSE
    OBVIOUS
  <2> HIDE DEF Wallet!Init
  <2> QED BY <2>1, <2>2, <2>3 DEF Wallet!TypeOK
<1>2. WalletSeen = {}
  BY DEF WalletSeen
<1>3. WalletExtremes
  BY <1>2 DEF WalletExtremes
<1>4. WalletCounts
  <2>1. Amounts = [i \in {} |-> wUtxos[i].value] /\ Confirmed = {}
    BY <1>2 DEF Amounts, Confirmed
  <2>2. SumFunction(Amounts) = 0 /\ Cardinality(Confirmed) = 0
    BY <2>1, SumOfNone, FS_EmptySet
  <2> QED BY <2>2 DEF WalletCounts
<1>5. WalletPlace
  BY DEF WalletPlace
<1> QED BY <1>1, <1>3, <1>4, <1>5 DEF WalletInv

(* One turn of the loop                                                    *)
LEMMA WalletCountUtxo ==
  ASSUME WalletInv, Wallet!CountUtxo
  PROVE  WalletInv'
<1>1. /\ wAt = "loop" /\ wNext \in 1..Len(wUtxos) /\ wNext' = wNext + 1
      /\ wUtxos' = wUtxos /\ wAt' = wAt /\ wEmitted' = wEmitted
      /\ wCause' = wCause /\ wRaised' = wRaised
  BY WalletUtxo DEF WalletInv, Wallet!CountUtxo
<1> DEFINE amount == wUtxos[wNext].value
<1>2. /\ wSum' = wSum + amount
      /\ wMaxAmt' = IF amount > wMaxAmt THEN amount ELSE wMaxAmt
      /\ wMinAmt' = IF amount < wMinAmt \/ wMinAmt = 0 THEN amount ELSE wMinAmt
      /\ IF wUtxos[wNext].confs = 0
         THEN wNumUnconf' = wNumUnconf + 1 /\ wNumConf' = wNumConf
         ELSE wNumConf' = wNumConf + 1 /\ wNumUnconf' = wNumUnconf
  BY DEF Wallet!CountUtxo, Wallet!Extremes
<1>3. /\ wNext \in Nat /\ amount \in Nat \ {0} /\ wUtxos[wNext].confs \in Nat
      /\ wNumConf \in Nat /\ wNumUnconf \in Nat /\ wSum \in Nat
  BY <1>1, WalletUtxo DEF WalletInv, Wallet!TypeOK
<1>4. WalletSeen' = WalletSeen \cup {wNext} /\ wNext \notin WalletSeen
  BY <1>1, <1>3 DEF WalletSeen
<1>5. \A i \in WalletSeen : wUtxos[i].value \in Nat \ {0}
  BY <1>1, WalletUtxo DEF WalletSeen, WalletInv
<1>6. WalletExtremes'
  <2>1. CASE wNext = 1
    <3>1. WalletSeen = {} /\ WalletSeen' = {wNext}
      BY <1>4, <2>1 DEF WalletSeen
    <3>2. wMinAmt' = amount /\ wMaxAmt' = amount
      BY <1>2, <1>3, <2>1 DEF WalletInv, WalletExtremes
    <3> QED BY <1>1, <1>3, <2>1, <3>1, <3>2 DEF WalletExtremes
  <2>2. CASE wNext # 1
    <3>1. PICK i \in WalletSeen, j \in WalletSeen :
                 wMinAmt = wUtxos[i].value /\ wMaxAmt = wUtxos[j].value
      BY <2>2 DEF WalletInv, WalletExtremes
    <3>2. wMinAmt \in Nat \ {0} /\ wMaxAmt \in Nat \ {0}
      BY <1>5, <3>1
    <3>3. \E k \in WalletSeen' : wMinAmt' = wUtxos[k].value
      BY <1>2, <1>3, <1>4, <3>1
    <3>4. \E k \in WalletSeen' : wMaxAmt' = wUtxos[k].value
      BY <1>2, <1>3, <1>4, <3>1
    <3>5. ASSUME NEW k \in WalletSeen'
          PROVE  wMinAmt' <= wUtxos[k].value /\ wUtxos[k].value <= wMaxAmt'
      <4>1. CASE k = wNext
        BY <1>2, <1>3, <3>2, <4>1
      <4>2. CASE k \in WalletSeen
        <5>1. wMinAmt <= wUtxos[k].value /\ wUtxos[k].value <= wMaxAmt
          BY <4>2 DEF WalletInv, WalletExtremes
        <5> QED BY <1>2, <1>3, <1>5, <3>2, <4>2, <5>1
      <4> QED BY <1>4, <4>1, <4>2
    <3>6. wNext' # 1
      BY <1>1, <1>3
    <3> QED BY <1>1, <3>3, <3>4, <3>5, <3>6 DEF WalletExtremes
  <2> QED BY <2>1, <2>2
<1>7. WalletCounts'
  <2>1. IsFiniteSet(WalletSeen)
    BY <1>3, FS_Interval DEF WalletSeen
  <2>2. SumFunction(Amounts') = SumFunction(Amounts) + amount
    <3>1. /\ DOMAIN Amounts = WalletSeen
          /\ DOMAIN Amounts' = WalletSeen \cup {wNext}
          /\ Amounts'[wNext] = amount
          /\ \A i \in WalletSeen : Amounts[i] \in Int /\ Amounts'[i] = Amounts[i]
      BY <1>1, <1>4, <1>5 DEF Amounts
    <3> QED BY <1>3, <1>4, <2>1, <3>1, SumOfMore
  <2>3. Cardinality(Confirmed') =
          Cardinality(Confirmed) + (IF wUtxos[wNext].confs = 0 THEN 0 ELSE 1)
    <3>1. IsFiniteSet(Confirmed) /\ wNext \notin Confirmed
      BY <1>4, <2>1, FS_Subset DEF Confirmed
    <3>2. CASE wUtxos[wNext].confs = 0
      <4>1. Confirmed' = Confirmed
        BY <1>1, <1>4, <3>2 DEF Confirmed
      <4> QED BY <3>1, <3>2, <4>1, FS_CardinalityType
    <3>3. CASE wUtxos[wNext].confs # 0
      <4>1. Confirmed' = Confirmed \cup {wNext}
        BY <1>1, <1>3, <1>4, <3>3 DEF Confirmed
      <4> QED BY <3>1, <3>3, <4>1, FS_AddElement
    <3> QED BY <3>2, <3>3
  <2>4. Cardinality(Confirmed) = wNumConf /\ SumFunction(Amounts) = wSum
        /\ wNumConf + wNumUnconf = wNext - 1
    BY DEF WalletInv, WalletCounts
  <2>5. Cardinality(Confirmed') = wNumConf'
    BY <1>2, <1>3, <2>3, <2>4
  <2>6. (wNumConf + wNumUnconf)' = wNext' - 1
    BY <1>1, <1>2, <1>3, <2>4
  <2> QED BY <1>2, <2>2, <2>4, <2>5, <2>6 DEF WalletCounts
<1>8. WalletPlace'
  BY <1>1 DEF WalletInv, WalletPlace
<1>9. Wallet!TypeOK'
  <2>1. wNext' \in 1..Len(wUtxos') + 1
    BY <1>1, WalletUtxo DEF WalletInv
  <2>2. wNumConf' \in Nat /\ wNumUnconf' \in Nat /\ wSum' \in Nat
    BY <1>2, <1>3
  <2>3. wMinAmt' <= wMaxAmt'
    <3>1. wMinAmt' <= amount /\ amount <= wMaxAmt'
      BY <1>1, <1>4, <1>6 DEF WalletExtremes
    <3>2. \A i \in WalletSeen' : wUtxos[i].value \in Int
      BY <1>3, <1>4, <1>5
    <3>3. wNext' # 1
      BY <1>1, <1>3
    <3>4. wMinAmt' \in Int /\ wMaxAmt' \in Int
      BY <1>1, <1>6, <3>2, <3>3 DEF WalletExtremes
    <3> QED BY <1>3, <3>1, <3>4
  <2> QED BY <1>1, <2>1, <2>2, <2>3 DEF WalletInv, Wallet!TypeOK
<1> QED BY <1>6, <1>7, <1>8, <1>9 DEF WalletInv

LEMMA WalletNext == WalletInv /\ [Wallet!Next]_(Wallet!vars) => WalletInv'
<1> SUFFICES ASSUME WalletInv, [Wallet!Next]_(Wallet!vars) PROVE WalletInv'
  OBVIOUS
<1> DEFINE local == <<wUtxos, wNext, wNumConf, wNumUnconf, wSum, wMaxAmt, wMinAmt>>
<1>1. ASSUME wNext' = wNext, WalletSeen # {} => wUtxos' = wUtxos,
             wMinAmt' = wMinAmt, wMaxAmt' = wMaxAmt,
             wNumConf' = wNumConf, wNumUnconf' = wNumUnconf, wSum' = wSum
      PROVE  WalletExtremes' /\ WalletCounts'
  <2>1. WalletSeen' = WalletSeen /\ Amounts' = Amounts /\ Confirmed' = Confirmed
    BY <1>1 DEF WalletSeen, Amounts, Confirmed
  <2>2. WalletExtremes'
    BY <1>1, <2>1 DEF WalletInv, WalletExtremes
  <2> QED BY <1>1, <2>1, <2>2 DEF WalletInv, WalletCounts
<1>2. CASE Wallet!Begin
  <2>1. /\ wNext' = 1 /\ wNumConf' = 0 /\ wNumUnconf' = 0 /\ wSum' = 0
        /\ wMaxAmt' = 0 /\ wMinAmt' = 0 /\ wEmitted' = {} /\ wUtxos' = <<>>
    BY <1>2 DEF Wallet!Begin
  <2>2. WalletSeen' = {}
    BY <2>1 DEF WalletSeen
  <2>3. Amounts' = [i \in {} |-> wUtxos'[i].value] /\ Confirmed' = {}
    BY <2>2 DEF Amounts, Confirmed
  <2>4. SumFunction(Amounts') = 0 /\ Cardinality(Confirmed') = 0
    BY <2>3, SumOfNone, FS_EmptySet
  <2>5. WalletCounts' /\ WalletExtremes'
    BY <2>1, <2>2, <2>4 DEF WalletCounts, WalletExtremes
  <2>6. WalletPlace'
    BY <2>1 DEF WalletPlace
  <2>7. Wallet!TypeOK'
    <3>1. /\ wUtxos' \in Seq([value : Values, confs : Confirmations])
          /\ Len(wUtxos') = 0
      BY <2>1, EmptySeq
    <3>2. wAt' = "ListUnspent" /\ wCause' = "none" /\ wRaised' = FALSE
      BY <1>2 DEF Wallet!Begin
    <3>3. wNext' \in 1..Len(wUtxos') + 1
      BY <2>1, <3>1
    <3>4. wMinAmt' <= wMaxAmt' /\ wEmitted' = {}
          /\ wNumConf' \in Nat /\ wNumUnconf' \in Nat /\ wSum' \in Nat
      BY <2>1
    <3> QED BY <3>1, <3>2, <3>3, <3>4 DEF Wallet!TypeOK
  <2> QED BY <2>5, <2>6, <2>7 DEF WalletInv
<1>3. CASE Wallet!ListUnspent
  <2>1. /\ wAt = "ListUnspent" /\ wAt' = "loop"
        /\ wUtxos' \in UNION {[1..m -> [value : Values, confs : Confirmations]] :
                                m \in 0..MaxUtxos}
        /\ UNCHANGED <<wNext, wNumConf, wNumUnconf, wSum, wMaxAmt, wMinAmt,
                       wEmitted, wCause, wRaised>>
    BY <1>3 DEF Wallet!ListUnspent
  <2>2. wNext = 1 /\ wEmitted = {}
    BY <2>1 DEF WalletInv, WalletPlace
  <2>3. wUtxos' \in Seq([value : Values, confs : Confirmations])
    <3>1. MaxUtxos \in Nat
      BY WalletAssumption DEF Wallet!ValuesAssumption
    <3>2. PICK m \in Nat : wUtxos' \in [1..m -> [value : Values, confs : Confirmations]]
      BY <2>1, <3>1
    <3> QED BY <3>2, ListIsSeq
  <2>4. WalletSeen = {}
    BY <2>2 DEF WalletSeen
  <2>5. WalletExtremes' /\ WalletCounts'
    BY <1>1, <2>1, <2>4
  <2>6. WalletPlace'
    BY <2>1, <2>2 DEF WalletPlace
  <2>7. Wallet!TypeOK'
    BY <2>1, <2>2, <2>3 DEF WalletInv, Wallet!TypeOK
  <2> QED BY <2>5, <2>6, <2>7 DEF WalletInv
<1>4. CASE Wallet!CountUtxo
  BY <1>4, WalletCountUtxo
<1>5. CASE Wallet!ExportUtxos
  <2>1. /\ wAt' = "WalletBalance" /\ UNCHANGED local
        /\ wNext \notin DOMAIN wUtxos
        /\ wEmitted' = Wallet!Collect!WalletCalls[1].emits
        /\ UNCHANGED <<wCause, wRaised>>
    BY <1>5 DEF Wallet!ExportUtxos, Wallet!local
  <2>2. wNext = Len(wUtxos) + 1
    BY <2>1, WalletUtxo DEF WalletInv
  <2>3. WalletPlace'
    BY <2>1, <2>2 DEF WalletPlace
  <2>4. Wallet!TypeOK'
    BY <2>1, WalletEmits DEF WalletInv, Wallet!TypeOK
  <2> QED BY <1>1, <2>1, <2>3, <2>4 DEF WalletInv
<1>6. CASE Wallet!WalletBalance \/ Wallet!ListAccounts
  <2>1. /\ wAt' \in {"ListAccounts", "idle"} /\ UNCHANGED local
        /\ wEmitted' = wEmitted \cup Wallet!Collect!WalletCalls[2].emits
             \/ wEmitted' = wEmitted \cup Wallet!Collect!WalletCalls[3].emits
        /\ UNCHANGED <<wCause, wRaised>>
    BY <1>6 DEF Wallet!WalletBalance, Wallet!ListAccounts, Wallet!local,
                Wallet!Collect!WalletCalls, Wallet!Collect!Call
  <2>2. WalletPlace'
    BY <2>1, WalletEmits DEF WalletInv, WalletPlace
  <2>3. Wallet!TypeOK'
    BY <2>1, WalletEmits DEF WalletInv, Wallet!TypeOK
  <2> QED BY <1>1, <2>1, <2>2, <2>3 DEF WalletInv
<1>7. CASE \E err \in Wallet!Failures : Wallet!Fails(err)
  <2>1. /\ wAt' = "idle" /\ UNCHANGED local /\ wEmitted' = wEmitted
        /\ wCause' \in Wallet!Failures /\ wRaised' = TRUE
    BY <1>7 DEF Wallet!Fails, Wallet!local
  <2>2. WalletPlace'
    BY <2>1 DEF WalletInv, WalletPlace
  <2>3. Wallet!TypeOK'
    BY <2>1 DEF WalletInv, Wallet!TypeOK
  <2> QED BY <1>1, <2>1, <2>2, <2>3 DEF WalletInv
<1>8. CASE UNCHANGED Wallet!vars
  <2>1. /\ wAt' = wAt /\ UNCHANGED local /\ wEmitted' = wEmitted
        /\ wCause' = wCause /\ wRaised' = wRaised
    BY <1>8 DEF Wallet!vars
  <2>2. WalletPlace' /\ Wallet!TypeOK'
    BY <2>1 DEF WalletInv, WalletPlace, Wallet!TypeOK
  <2> QED BY <1>1, <2>1, <2>2 DEF WalletInv
<1> QED
  BY <1>2, <1>3, <1>4, <1>5, <1>6, <1>7, <1>8 DEF Wallet!Next

LEMMA WalletInvariance == Wallet!Spec => []WalletInv
BY WalletInit, WalletNext, PTL DEF Wallet!Spec

-----------------------------------------------------------------------------
(* The wallet's Collect as one of module Scrape: only what the calls before*)
(* give is visible there, and the loop is part of its first call.          *)
WalletNumber == CASE wAt = "idle" -> 0
                  [] wAt \in {"ListUnspent", "loop"} -> 1
                  [] wAt = "WalletBalance" -> 2
                  [] wAt = "ListAccounts" -> 3

WalletRan == wAt # "idle" \/ wEmitted # {} \/ wCause # "none"

LEMMA WalletCallsOf ==
  /\ Wallet!Collect!Calls["wallet"] = Wallet!Collect!WalletCalls
  /\ Len(Wallet!Collect!WalletCalls) = 3
  /\ \A i \in 1..3 : /\ Wallet!Collect!WalletCalls[i].rpc # "ListTowers"
                     /\ Wallet!Collect!WalletCalls[i].quiet = {}
<1>1. Wallet!Collect!Calls["wallet"] = Wallet!Collect!WalletCalls
  BY DEF Wallet!Collect!Calls
<1>2. Len(Wallet!Collect!WalletCalls) = 3
  BY DEF Wallet!Collect!WalletCalls
<1>3. \A i \in 1..3 : /\ Wallet!Collect!WalletCalls[i].rpc # "ListTowers"
                      /\ Wallet!Collect!WalletCalls[i].quiet = {}
  BY DEF Wallet!Collect!WalletCalls, Wallet!Collect!Call, Wallet!Collect!Never
<1> QED BY <1>1, <1>2, <1>3

LEMMA WalletAnswerStep ==
  ASSUME WalletNumber \in 1..3,
         wEmitted' = wEmitted \cup Wallet!Collect!WalletCalls[WalletNumber].emits,
         WalletNumber' = IF WalletNumber = 3 THEN 0 ELSE WalletNumber + 1,
         wCause' = wCause, wRaised' = wRaised, WalletRan' = WalletRan
  PROVE  Wallet!Collect!Answered("wallet")
<1> DEFINE Only == {"wallet"}
<1>1. Wallet!Collect!Now("wallet") = Wallet!Collect!WalletCalls[WalletNumber]
  BY WalletCallsOf DEF Wallet!Collect!Now, WalletNumber
<1>2. Wallet!Collect!Now("wallet").rpc # "ListTowers"
  BY <1>1, WalletCallsOf
<1>3. [c \in Only |-> wEmitted]' =
        [[c \in Only |-> wEmitted] EXCEPT
           !["wallet"] = [c \in Only |-> wEmitted]["wallet"]
                           \cup Wallet!Collect!Now("wallet").emits]
  BY <1>1
<1>4. [c \in Only |-> WalletNumber]' =
        [[c \in Only |-> WalletNumber] EXCEPT
           !["wallet"] =
             IF [c \in Only |-> WalletNumber]["wallet"]
                  = Len(Wallet!Collect!Calls["wallet"])
             THEN 0 ELSE [c \in Only |-> WalletNumber]["wallet"] + 1]
  BY WalletCallsOf
<1>5. /\ [c \in Only |-> WalletNumber]["wallet"] # 0
      /\ [c \in Only |-> wCause]' = [c \in Only |-> wCause]
      /\ [c \in Only |-> wRaised]' = [c \in Only |-> wRaised]
      /\ [c \in Only |-> WalletRan]' = [c \in Only |-> WalletRan]
  OBVIOUS
<1> QED
  BY <1>2, <1>3, <1>4, <1>5
  DEF Wallet!Collect!Answered, WalletNumber, WalletRan

LEMMA WalletFailStep ==
  ASSUME NEW err \in Wallet!Failures, WalletNumber \in 1..3, WalletNumber' = 0,
         wEmitted' = wEmitted, wCause' = err, wRaised' = TRUE,
         WalletRan' = WalletRan
  PROVE  Wallet!Collect!Failed("wallet", err)
<1> DEFINE Only == {"wallet"}
<1>1. Wallet!Collect!Now("wallet").quiet = {}
  BY WalletCallsOf DEF Wallet!Collect!Now, WalletNumber
<1>2. err # "inactive"
  BY DEF Wallet!Failures
<1>3. [c \in Only |-> WalletNumber]' =
        [[c \in Only |-> WalletNumber] EXCEPT !["wallet"] = 0]
  OBVIOUS
<1>4. [c \in Only |-> wCause]' = [[c \in Only |-> wCause] EXCEPT !["wallet"] = err]
  OBVIOUS
<1>5. [c \in Only |-> wRaised]' =
        [[c \in Only |-> wRaised] EXCEPT
           !["wallet"] = err \notin Wallet!Collect!Now("wallet").quiet]
  BY <1>1
<1>6. /\ [c \in Only |-> WalletNumber]["wallet"] # 0
      /\ [c \in Only |-> wEmitted]' = [c \in Only |-> wEmitted]
      /\ [c \in Only |-> WalletRan]' = [c \in Only |-> WalletRan]
  OBVIOUS
<1> QED
  BY <1>2, <1>3, <1>4, <1>5, <1>6
  DEF Wallet!Collect!Failed, Wallet!Collect!MayFail, WalletNumber, WalletRan

LEMMA WalletBeginStep ==
  ASSUME WalletNumber = 0, WalletNumber' = 1, wEmitted' = {}, wCause' = "none",
         wRaised' = FALSE, WalletRan' = TRUE
  PROVE  Wallet!Collect!Begin("wallet")
<1> DEFINE Only == {"wallet"}
<1>1. [c \in Only |-> WalletNumber]' =
        [[c \in Only |-> WalletNumber] EXCEPT !["wallet"] = 1]
  OBVIOUS
<1>2. [c \in Only |-> wEmitted]' = [[c \in Only |-> wEmitted] EXCEPT !["wallet"] = {}]
  OBVIOUS
<1>3. [c \in Only |-> wCause]' =
        [[c \in Only |-> wCause] EXCEPT !["wallet"] = "none"]
  OBVIOUS
<1>4. [c \in Only |-> wRaised]' =
        [[c \in Only |-> wRaised] EXCEPT !["wallet"] = FALSE]
  OBVIOUS
<1>5. [c \in Only |-> WalletRan]' =
        [[c \in Only |-> WalletRan] EXCEPT !["wallet"] = TRUE]
  OBVIOUS
<1>6. [c \in Only |-> WalletNumber]["wallet"] = 0
  OBVIOUS
<1> QED
  BY <1>1, <1>2, <1>3, <1>4, <1>5, <1>6
  DEF Wallet!Collect!Begin, WalletNumber, WalletRan

LEMMA WalletScrapeStep ==
  WalletInv /\ [Wallet!Next]_(Wallet!vars)
    => [Wallet!Collect!Next]_(Wallet!Collect!vars)
<1> SUFFICES ASSUME WalletInv, [Wallet!Next]_(Wallet!vars)
             PROVE  [Wallet!Collect!Next]_(Wallet!Collect!vars)
  OBVIOUS
<1>1. ASSUME WalletNumber' = WalletNumber, WalletRan' = WalletRan,
             UNCHANGED <<wEmitted, wCause, wRaised>>
      PROVE  UNCHANGED Wallet!Collect!vars
  <2> DEFINE Only == {"wallet"}
  <2>1. /\ [c \in Only |-> WalletNumber]' = [c \in Only |-> WalletNumber]
        /\ [c \in Only |-> wEmitted]' = [c \in Only |-> wEmitted]
        /\ [c \in Only |-> wCause]' = [c \in Only |-> wCause]
        /\ [c \in Only |-> wRaised]' = [c \in Only |-> wRaised]
        /\ [c \in Only |-> WalletRan]' = [c \in Only |-> WalletRan]
    BY <1>1
  <2> QED BY <2>1 DEF Wallet!Collect!vars, WalletNumber, WalletRan
<1>2. ASSUME Wallet!ListUnspent \/ Wallet!CountUtxo \/ UNCHANGED Wallet!vars
      PROVE  UNCHANGED Wallet!Collect!vars
  <2>1. /\ UNCHANGED <<wEmitted, wCause, wRaised>>
        /\ wAt' = wAt \/ (wAt = "ListUnspent" /\ wAt' = "loop")
    BY <1>2 DEF Wallet!ListUnspent, Wallet!CountUtxo, Wallet!vars
  <2> QED BY <1>1, <2>1 DEF WalletNumber, WalletRan
<1>3. ASSUME Wallet!Begin PROVE Wallet!Collect!Begin("wallet")
  BY <1>3, WalletBeginStep DEF Wallet!Begin, WalletNumber, WalletRan
<1>4. ASSUME Wallet!ExportUtxos PROVE Wallet!Collect!Answered("wallet")
  <2>1. /\ wAt = "loop" /\ wAt' = "WalletBalance" /\ wEmitted = {}
        /\ wEmitted' = Wallet!Collect!WalletCalls[1].emits
        /\ wCause' = wCause /\ wRaised' = wRaised
    BY <1>4 DEF Wallet!ExportUtxos, WalletInv, WalletPlace
  <2>2. WalletNumber = 1 /\ WalletNumber' = 2 /\ WalletRan' = WalletRan
    BY <2>1 DEF WalletNumber, WalletRan
  <2> QED BY <2>1, <2>2, WalletAnswerStep
<1>5. /\ Wallet!Collect!WalletCalls[2].emits
           = {"confirmedBalanceDesc", "unconfirmedBalanceDesc"}
      /\ Wallet!Collect!WalletCalls[3].emits = {"keyCountDesc"}
  BY DEF Wallet!Collect!WalletCalls, Wallet!Collect!Call
<1>6. ASSUME Wallet!WalletBalance PROVE Wallet!Collect!Answered("wallet")
  <2>1. /\ wAt = "WalletBalance" /\ wAt' = "ListAccounts"
        /\ wEmitted' = wEmitted \cup Wallet!Collect!WalletCalls[2].emits
        /\ wCause' = wCause /\ wRaised' = wRaised
    BY <1>5, <1>6 DEF Wallet!WalletBalance
  <2>2. WalletNumber = 2 /\ WalletNumber' = 3 /\ WalletRan' = WalletRan
    BY <2>1 DEF WalletNumber, WalletRan
  <2> QED BY <2>1, <2>2, WalletAnswerStep
<1>7. ASSUME Wallet!ListAccounts PROVE Wallet!Collect!Answered("wallet")
  <2>1. /\ wAt = "ListAccounts" /\ wAt' = "idle"
        /\ wEmitted' = wEmitted \cup Wallet!Collect!WalletCalls[3].emits
        /\ wEmitted' # {}
        /\ wCause' = wCause /\ wRaised' = wRaised
    BY <1>5, <1>7 DEF Wallet!ListAccounts
  <2>2. WalletNumber = 3 /\ WalletNumber' = 0 /\ WalletRan' = WalletRan
    BY <2>1 DEF WalletNumber, WalletRan
  <2> QED BY <2>1, <2>2, WalletAnswerStep
<1>8. ASSUME NEW err \in Wallet!Failures, Wallet!Fails(err)
      PROVE  Wallet!Collect!Failed("wallet", err)
  <2>1. /\ wAt \in {"ListUnspent", "WalletBalance", "ListAccounts"}
        /\ wAt' = "idle" /\ wCause' = err /\ wRaised' = TRUE
        /\ wEmitted' = wEmitted
    BY <1>8 DEF Wallet!Fails
  <2>2. err # "none"
    BY DEF Wallet!Failures, Wallet!Collect!Causes
  <2>3. WalletNumber \in 1..3 /\ WalletNumber' = 0 /\ WalletRan' = WalletRan
    BY <2>1, <2>2 DEF WalletNumber, WalletRan
  <2> QED BY <2>1, <2>3, WalletFailStep
<1>9. (\/ Wallet!Collect!Begin("wallet") \/ Wallet!Collect!Answered("wallet")
       \/ \E err \in Wallet!Failures : Wallet!Collect!Failed("wallet", err))
        => Wallet!Collect!Next
  BY DEF Wallet!Collect!Next, Wallet!Failures
<1> QED
  BY <1>2, <1>3, <1>4, <1>6, <1>7, <1>8, <1>9 DEF Wallet!Next

(* The wallet collector exports all that an answer gives, or stops at the  *)
(* call that fails, with an error.                                         *)
THEOREM WalletImplementsScrape == Wallet!Spec => Wallet!ImplementsScrape
<1>1. Wallet!Init => Wallet!Collect!Init
  <2> SUFFICES ASSUME Wallet!Init PROVE Wallet!Collect!Init
    OBVIOUS
  <2>1. /\ WalletNumber = 0 /\ wEmitted = {} /\ wCause = "none"
        /\ wRaised = FALSE /\ WalletRan = FALSE
    BY DEF Wallet!Init, WalletNumber, WalletRan
  <2>2. Wallet!Collect!Cardinality({"wallet"}) = Cardinality({"wallet"})
    BY DEF Cardinality, Wallet!Collect!Cardinality
  <2>3. Cardinality({"wallet"}) = 1
    BY FS_Singleton
  <2> QED
    BY <2>1, <2>2, <2>3 DEF Wallet!Collect!Init, WalletNumber, WalletRan
<1> QED
  BY <1>1, WalletScrapeStep, WalletInvariance, PTL
  DEF Wallet!Spec, Wallet!ImplementsScrape, Wallet!Collect!Spec

(* What the wallet collector exports of the unspent outputs is right: the  *)
(* loop has then counted all of them.                                      *)
THEOREM UtxosAreRight == Wallet!Spec => []WalletUtxosAreRight
<1>1. ASSUME WalletInv, "minUtxoSizeDesc" \in wEmitted
      PROVE  WalletUtxosAreRight
  <2>1. wNext = Len(wUtxos) + 1 /\ WalletSeen = 1..Len(wUtxos)
    BY <1>1, WalletUtxo DEF WalletInv, WalletPlace, WalletSeen
  <2>2. /\ WalletSeen = DOMAIN wUtxos /\ Len(wUtxos) \in Nat
        /\ \A i \in WalletSeen : wUtxos[i].value \in Nat
    BY <1>1, <2>1, WalletUtxo DEF WalletInv
  <2>3. WalletExtremes /\ WalletCounts
    BY <1>1 DEF WalletInv
  <2>4. IF wUtxos = <<>> THEN wMinAmt = 0 /\ wMaxAmt = 0
        ELSE /\ wMinAmt \in {wUtxos[i].value : i \in DOMAIN wUtxos}
             /\ wMaxAmt \in {wUtxos[i].value : i \in DOMAIN wUtxos}
    <3>1. wUtxos = <<>> <=> wNext = 1
      BY <1>1, <2>1, <2>2, EmptySeq DEF WalletInv, Wallet!TypeOK
    <3> QED BY <2>2, <2>3, <3>1 DEF WalletExtremes
  <2>5. {wUtxos[i].value : i \in DOMAIN wUtxos} \subseteq wMinAmt..wMaxAmt
    <3> SUFFICES ASSUME NEW i \in WalletSeen
                 PROVE  wUtxos[i].value \in wMinAmt..wMaxAmt
      BY <2>2
    <3>1. wMinAmt \in Int /\ wMaxAmt \in Int
      BY <2>2, <2>3 DEF WalletExtremes
    <3>2. wMinAmt <= wUtxos[i].value /\ wUtxos[i].value <= wMaxAmt
      BY <2>3 DEF WalletExtremes
    <3> QED BY <2>2, <3>1, <3>2
  <2>6. Wallet!SumFunction(Amounts) = SumFunction(Amounts)
    BY DEF SumFunction, SumFunctionOnSet, FoldFunctionOnSet, MapThenFoldSet,
           Wallet!SumFunction, Wallet!SumFunctionOnSet,
           Wallet!FoldFunctionOnSet, Wallet!MapThenFoldSet
  <2>7. Wallet!Cardinality(Confirmed) = Cardinality(Confirmed)
    BY DEF Cardinality, Wallet!Cardinality
  <2>8. /\ Amounts = [i \in DOMAIN wUtxos |-> wUtxos[i].value]
        /\ Confirmed = {i \in DOMAIN wUtxos : wUtxos[i].confs > 0}
    BY <2>2 DEF Amounts, Confirmed
  <2>9. /\ wNumConf + wNumUnconf = Len(wUtxos)
        /\ wNumConf = Wallet!Cardinality(
                        {i \in DOMAIN wUtxos : wUtxos[i].confs > 0})
        /\ wSum = Wallet!SumFunction([i \in DOMAIN wUtxos |-> wUtxos[i].value])
    <3>1. wNext - 1 = Len(wUtxos)
      BY <2>1, <2>2
    <3>2. wSum = Wallet!SumFunction(Amounts) /\ wNumConf = Wallet!Cardinality(Confirmed)
      BY <2>3, <2>6, <2>7 DEF WalletCounts
    <3>3. wNumConf + wNumUnconf = Len(wUtxos)
      BY <2>3, <3>1 DEF WalletCounts
    <3> QED BY <2>8, <3>2, <3>3, Zenon
  <2> QED
    BY <2>4, <2>5, <2>9 DEF WalletUtxosAreRight, Wallet!UtxosAreRight
<1>2. WalletInv => WalletUtxosAreRight
  BY <1>1 DEF WalletUtxosAreRight, Wallet!UtxosAreRight
<1> QED BY <1>2, WalletInvariance, PTL

-----------------------------------------------------------------------------
(* The watchtower client: what the first m sessions of a tower come to     *)
Own(tower, field, m) == SumFunction([j \in 1..m |-> tower[j][field]])

Backups == [done : Nat, pending : Nat]
Lists == Seq(Seq(Sessions) \cup {Nil})

(* The list holds the sums of the towers before the one the loop is at.    *)
TowersExported ==
  /\ tBackups \in Seq(Backups \cup {Nil})
  /\ \A i \in 1..Len(tBackups) :
       tBackups[i] = IF tTowers[i] = Nil THEN Nil
                     ELSE LET all == Len(tTowers[i]) IN
                          [done    |-> Own(tTowers[i], "done", all),
                           pending |-> Own(tTowers[i], "pending", all)]

AtTower == tNext \in 1..Len(tTowers) /\ tTowers[tNext] # Nil

(* The sums are those of the sessions before the one it is at.             *)
TowersSums ==
  IF AtTower
  THEN /\ tSession \in 1..Len(tTowers[tNext]) + 1
       /\ tNumBackups = Own(tTowers[tNext], "done", tSession - 1)
       /\ tNumPendingBackups = Own(tTowers[tNext], "pending", tSession - 1)
  ELSE tSession = 1

TowersPlace ==
  /\ tAt = "ListTowers" => tNext = 0
  /\ tAt = "loop" => tNext # 0 /\ tWtOn
  /\ tAt = "idle" => tNext = 0 \/ tNext = Len(tTowers) + 1
  /\ tNext = 0 => Len(tBackups) = 0 /\ Len(tTowers) = 0

TowersInv ==
  /\ Towers!TypeOK /\ tTowers \in Lists
  /\ TowersExported /\ TowersSums /\ TowersPlace

LEMMA TowersSessions ==
  /\ Sessions \subseteq Backups /\ Nil \notin Seq(Sessions)
  /\ MaxTowers \in Nat /\ MaxSessions \in Nat
BY TowersAssumption DEF Towers!SessionsAssumption, Backups

LEMMA TowersList ==
  ASSUME tTowers \in Lists
  PROVE  /\ DOMAIN tTowers = 1..Len(tTowers) /\ Len(tTowers) \in Nat
         /\ \A i \in 1..Len(tTowers) :
              tTowers[i] # Nil =>
                /\ tTowers[i] \in Seq(Sessions)
                /\ DOMAIN tTowers[i] = 1..Len(tTowers[i])
                /\ Len(tTowers[i]) \in Nat
                /\ \A j \in 1..Len(tTowers[i]) : tTowers[i][j] \in Backups
<1>1. DOMAIN tTowers = 1..Len(tTowers) /\ Len(tTowers) \in Nat
  BY LenProperties DEF Lists
<1>2. ASSUME NEW i \in 1..Len(tTowers), tTowers[i] # Nil
      PROVE  /\ tTowers[i] \in Seq(Sessions)
             /\ DOMAIN tTowers[i] = 1..Len(tTowers[i])
             /\ Len(tTowers[i]) \in Nat
             /\ \A j \in 1..Len(tTowers[i]) : tTowers[i][j] \in Backups
  <2>1. tTowers[i] \in Seq(Sessions)
    BY <1>2, ElementOfSeq DEF Lists
  <2> QED BY <2>1, ElementOfSeq, LenProperties, TowersSessions
<1> QED BY <1>1, <1>2

(* Sums of the backups are naturals, and one session more adds its own.    *)
LEMMA OwnNone ==
  ASSUME NEW tower, NEW field
  PROVE  Own(tower, field, 0) = 0
<1>1. DOMAIN [j \in 1..0 |-> tower[j][field]] = {}
  OBVIOUS
<1> QED BY <1>1, SumOfNone DEF Own

LEMMA OwnMore ==
  ASSUME NEW tower, NEW field \in {"done", "pending"}, NEW m \in Nat,
         \A j \in 1..m + 1 : tower[j] \in Backups
  PROVE  /\ Own(tower, field, m) \in Nat
         /\ Own(tower, field, m + 1) = Own(tower, field, m) + tower[m + 1][field]
<1> DEFINE f == [j \in 1..m |-> tower[j][field]]
           h == [j \in 1..m + 1 |-> tower[j][field]]
<1>1. \A j \in 1..m + 1 : tower[j][field] \in Nat
  BY DEF Backups
<1>2. /\ IsFiniteSet(DOMAIN f) /\ m + 1 \notin DOMAIN f
      /\ DOMAIN h = DOMAIN f \cup {m + 1} /\ h[m + 1] = tower[m + 1][field]
      /\ h[m + 1] \in Nat
      /\ \A x \in DOMAIN f : f[x] \in Nat /\ h[x] = f[x]
  <2>1. IsFiniteSet(1..m)
    BY FS_Interval
  <2>2. 1..m + 1 = 1..m \cup {m + 1} /\ m + 1 \notin 1..m
    OBVIOUS
  <2> QED BY <1>1, <2>1, <2>2
<1>3. Own(tower, field, m) = SumFunction(f) /\ Own(tower, field, m + 1) = SumFunction(h)
  BY DEF Own
<1> HIDE DEF f, h
<1>4. SumFunction(h) = SumFunction(f) + h[m + 1]
  BY <1>2, SumOfMore
<1>5. SumFunction(f) \in Nat
  BY <1>2, SumOfNats
<1> QED BY <1>2, <1>3, <1>4, <1>5

LEMMA TowersInit == Towers!Init => TowersInv
<1> SUFFICES ASSUME Towers!Init PROVE TowersInv
  OBVIOUS
<1>1. /\ tTowers = <<>> /\ tNext = 0 /\ tSession = 1 /\ tBackups = <<>>
      /\ tNumBackups = 0 /\ tNumPendingBackups = 0
      /\ tAt = "idle" /\ tWtOn \in BOOLEAN /\ tCause = "none" /\ tRaised = FALSE
  BY DEF Towers!Init
<1>2. tTowers \in Lists /\ Len(tTowers) = 0
  BY <1>1, EmptySeq DEF Lists
<1>3. TowersExported /\ Len(tBackups) = 0
  BY <1>1, EmptySeq DEF TowersExported
<1>4. TowersSums
  BY <1>1 DEF TowersSums, AtTower
<1>5. TowersPlace
  BY <1>1, <1>2, <1>3 DEF TowersPlace
<1>6. Towers!TypeOK
  <2>1. /\ tNext \in 0..Len(tTowers) + 1 /\ tNext = 0
        /\ tNumBackups = 0 /\ tNumPendingBackups = 0
        /\ tAt = "idle" /\ tWtOn \in BOOLEAN /\ tCause = "none" /\ tRaised = FALSE
    BY <1>1, <1>2
  <2> QED BY <2>1 DEF Towers!TypeOK
<1> QED BY <1>2, <1>3, <1>4, <1>5, <1>6 DEF TowersInv

LEMMA TowersSkip ==
  ASSUME TowersInv, Towers!SkipNil
  PROVE  TowersInv'
<1>1. /\ tAt = "loop" /\ tAt' = "loop" /\ tNext \in 1..Len(tTowers)
      /\ tTowers[tNext] = Nil /\ tNext' = tNext + 1
      /\ tBackups' = Append(tBackups, Nil)
      /\ UNCHANGED <<tWtOn, tTowers, tSession, tNumBackups, tNumPendingBackups,
                     tCause, tRaised>>
  BY TowersList DEF TowersInv, Towers!SkipNil
<1>2. Len(tBackups) = tNext - 1 /\ tSession = 1 /\ tNumBackups = 0 /\ tNumPendingBackups = 0
  BY <1>1 DEF TowersInv, Towers!TypeOK, TowersSums, AtTower
<1>3. /\ tBackups' \in Seq(Backups \cup {Nil}) /\ Len(tBackups') = tNext
      /\ tBackups'[tNext] = Nil
      /\ \A i \in 1..tNext - 1 : tBackups'[i] = tBackups[i]
  BY <1>1, <1>2 DEF TowersInv, TowersExported
<1>4. TowersExported'
  <2> SUFFICES ASSUME NEW i \in 1..tNext
               PROVE  tBackups'[i] = IF tTowers[i] = Nil THEN Nil
                        ELSE LET all == Len(tTowers[i]) IN
                             [done    |-> Own(tTowers[i], "done", all),
                              pending |-> Own(tTowers[i], "pending", all)]
    BY <1>1, <1>3 DEF TowersExported
  <2>1. CASE i = tNext
    BY <1>1, <1>3, <2>1
  <2>2. CASE i \in 1..tNext - 1
    BY <1>2, <1>3, <2>2 DEF TowersInv, TowersExported
  <2>3. tNext \in Nat
    BY <1>1
  <2> QED BY <2>1, <2>2, <2>3
<1>5. TowersSums'
  <2>1. ASSUME AtTower' PROVE /\ Own(tTowers'[tNext'], "done", 0) = 0
                              /\ Own(tTowers'[tNext'], "pending", 0) = 0
                              /\ 1 \in 1..Len(tTowers'[tNext']) + 1
    BY <1>1, <2>1, OwnNone, TowersList DEF AtTower, TowersInv
  <2> QED BY <1>1, <1>2, <2>1 DEF TowersSums
<1>6. TowersPlace' /\ Towers!TypeOK'
  BY <1>1, <1>2, <1>3, TowersList DEF TowersInv, TowersPlace, Towers!TypeOK
<1> QED BY <1>1, <1>4, <1>5, <1>6 DEF TowersInv

(* One session of a tower is added.                                        *)
LEMMA TowersAdd ==
  ASSUME TowersInv, Towers!AddSession
  PROVE  TowersInv'
<1> DEFINE tower == tTowers[tNext]
<1>1. /\ tAt = "loop" /\ tAt' = "loop" /\ tNext \in 1..Len(tTowers)
      /\ tower # Nil /\ tNext' = tNext /\ tSession' = tSession + 1
      /\ tNumBackups' = tNumBackups + tower[tSession].done
      /\ tNumPendingBackups' = tNumPendingBackups + tower[tSession].pending
      /\ tSession \in DOMAIN tower
      /\ UNCHANGED <<tWtOn, tTowers, tBackups, tCause, tRaised>>
  BY TowersList DEF TowersInv, Towers!AddSession
<1>2. /\ tSession \in 1..Len(tower) /\ Len(tower) \in Nat
      /\ \A j \in 1..Len(tower) : tower[j] \in Backups
  BY <1>1, TowersList DEF TowersInv
<1>3. /\ tNumBackups = Own(tower, "done", tSession - 1)
      /\ tNumPendingBackups = Own(tower, "pending", tSession - 1)
  BY <1>1 DEF TowersInv, TowersSums, AtTower
<1> HIDE DEF tower
<1>4. PICK m \in Nat : tSession = m + 1 /\ m = tSession - 1
  BY <1>2
<1>5. \A j \in 1..m + 1 : tower[j] \in Backups
  BY <1>2, <1>4
<1>6. /\ Own(tower, "done", m) \in Nat /\ Own(tower, "pending", m) \in Nat
      /\ Own(tower, "done", m + 1) = Own(tower, "done", m) + tower[m + 1]["done"]
      /\ Own(tower, "pending", m + 1)
           = Own(tower, "pending", m) + tower[m + 1]["pending"]
  BY <1>5, OwnMore
<1>7. tower[m + 1].done \in Nat /\ tower[m + 1].pending \in Nat
  BY <1>5 DEF Backups
<1>8. /\ tNumBackups' = Own(tower, "done", tSession)
      /\ tNumPendingBackups' = Own(tower, "pending", tSession)
      /\ tNumBackups' \in Nat /\ tNumPendingBackups' \in Nat
  BY <1>1, <1>3, <1>4, <1>6, <1>7
<1>9. TowersSums'
  <2>1. tTowers'[tNext'] = tower /\ AtTower' /\ tSession' - 1 = tSession
        /\ tSession' \in 1..Len(tower) + 1
    BY <1>1, <1>2 DEF AtTower, tower
  <2> QED BY <1>8, <2>1 DEF TowersSums
<1>10. TowersExported'
  BY <1>1 DEF TowersInv, TowersExported
<1>11. TowersPlace' /\ Towers!TypeOK'
  BY <1>1, <1>2, <1>8 DEF TowersInv, TowersPlace, Towers!TypeOK
<1> QED BY <1>1, <1>9, <1>10, <1>11 DEF TowersInv

(* The sums of a tower are exported, and those of the next begin.          *)
LEMMA TowersExport ==
  ASSUME TowersInv, Towers!ExportTower
  PROVE  TowersInv'
<1> DEFINE tower == tTowers[tNext]
           record == [done |-> tNumBackups, pending |-> tNumPendingBackups]
<1>1. /\ tAt = "loop" /\ tAt' = "loop" /\ tNext \in 1..Len(tTowers)
      /\ tower # Nil /\ tNext' = tNext + 1 /\ tSession' = 1
      /\ tBackups' = Append(tBackups, record)
      /\ tNumBackups' = 0 /\ tNumPendingBackups' = 0
      /\ tSession \notin DOMAIN tower
      /\ UNCHANGED <<tWtOn, tTowers, tCause, tRaised>>
  BY TowersList DEF TowersInv, Towers!ExportTower
<1>2. DOMAIN tower = 1..Len(tower) /\ Len(tower) \in Nat
  BY <1>1, TowersList DEF TowersInv
<1>3. tSession = Len(tower) + 1
  BY <1>1, <1>2 DEF TowersInv, TowersSums, AtTower
<1>4. record = [done    |-> Own(tower, "done", Len(tower)),
                pending |-> Own(tower, "pending", Len(tower))]
  BY <1>1, <1>2, <1>3 DEF TowersInv, TowersSums, AtTower
<1>5. record \in Backups /\ Len(tBackups) = tNext - 1
  BY <1>1 DEF TowersInv, Towers!TypeOK, Backups
<1>6. /\ tBackups' \in Seq(Backups \cup {Nil}) /\ Len(tBackups') = tNext
      /\ tBackups'[tNext] = record
      /\ \A i \in 1..tNext - 1 : tBackups'[i] = tBackups[i]
  <2> HIDE DEF record
  <2> QED BY <1>1, <1>5 DEF TowersInv, TowersExported
<1>7. TowersExported'
  <2> SUFFICES ASSUME NEW i \in 1..tNext
               PROVE  tBackups'[i] = IF tTowers[i] = Nil THEN Nil
                        ELSE LET all == Len(tTowers[i]) IN
                             [done    |-> Own(tTowers[i], "done", all),
                              pending |-> Own(tTowers[i], "pending", all)]
    BY <1>1, <1>6 DEF TowersExported
  <2>1. CASE i = tNext
    BY <1>1, <1>4, <1>6, <2>1
  <2>2. CASE i \in 1..tNext - 1
    BY <1>5, <1>6, <2>2 DEF TowersInv, TowersExported
  <2>3. tNext \in Nat
    BY <1>1
  <2> QED BY <2>1, <2>2, <2>3
<1>8. TowersSums'
  <2>1. ASSUME AtTower' PROVE /\ Own(tTowers'[tNext'], "done", 0) = 0
                              /\ Own(tTowers'[tNext'], "pending", 0) = 0
                              /\ 1 \in 1..Len(tTowers'[tNext']) + 1
    BY <1>1, <2>1, OwnNone, TowersList DEF AtTower, TowersInv
  <2> QED BY <1>1, <2>1 DEF TowersSums
<1>9. TowersPlace' /\ Towers!TypeOK'
  BY <1>1, <1>5, <1>6, TowersList DEF TowersInv, TowersPlace, Towers!TypeOK
<1> QED BY <1>1, <1>7, <1>8, <1>9 DEF TowersInv

LEMMA TowersNext == TowersInv /\ [Towers!Next]_(Towers!vars) => TowersInv'
<1> SUFFICES ASSUME TowersInv, [Towers!Next]_(Towers!vars) PROVE TowersInv'
  OBVIOUS
<1> DEFINE local == <<tTowers, tNext, tSession, tNumBackups, tNumPendingBackups,
                      tBackups>>
<1>1. ASSUME UNCHANGED local
      PROVE  tTowers' \in Lists /\ TowersExported' /\ TowersSums'
  BY <1>1 DEF TowersInv, TowersExported, TowersSums, AtTower
<1>2. CASE Towers!Begin
  <2>1. /\ tTowers' = <<>> /\ tNext' = 0 /\ tSession' = 1 /\ tBackups' = <<>>
        /\ tNumBackups' = 0 /\ tNumPendingBackups' = 0
        /\ tAt' = "ListTowers" /\ tWtOn' = tWtOn /\ tCause' = "none"
        /\ tRaised' = FALSE
    BY <1>2 DEF Towers!Begin
  <2>2. tTowers' \in Lists /\ Len(tTowers') = 0
    BY <2>1, EmptySeq DEF Lists
  <2>3. TowersExported' /\ Len(tBackups') = 0
    BY <2>1, EmptySeq DEF TowersExported
  <2>4. TowersSums'
    BY <2>1 DEF TowersSums, AtTower
  <2>5. TowersPlace'
    BY <2>1, <2>2, <2>3 DEF TowersPlace
  <2>6. Towers!TypeOK'
    <3>1. tNext' \in 0..Len(tTowers') + 1 /\ tWtOn \in BOOLEAN
      BY <2>1, <2>2 DEF TowersInv, Towers!TypeOK
    <3>2. /\ tNext' = 0 /\ tNumBackups' = 0 /\ tNumPendingBackups' = 0
          /\ tAt' = "ListTowers" /\ tWtOn' = tWtOn /\ tCause' = "none"
          /\ tRaised' = FALSE
      BY <2>1
    <3> QED BY <3>1, <3>2 DEF Towers!TypeOK
  <2> QED BY <2>2, <2>3, <2>4, <2>5, <2>6 DEF TowersInv
<1>3. CASE Towers!ListTowers
  <2> DEFINE Tower == (UNION {[1..m -> Sessions] : m \in 0..MaxSessions}) \cup {Nil}
  <2>1. /\ tAt = "ListTowers" /\ tWtOn /\ tAt' = "loop" /\ tNext' = 1
        /\ tTowers' \in UNION {[1..m -> Tower] : m \in 0..MaxTowers}
        /\ UNCHANGED <<tWtOn, tSession, tNumBackups, tNumPendingBackups,
                       tBackups, tCause, tRaised>>
    BY <1>3 DEF Towers!ListTowers
  <2>2. Tower \subseteq Seq(Sessions) \cup {Nil}
    <3> SUFFICES ASSUME NEW f \in Tower, f # Nil PROVE f \in Seq(Sessions)
      OBVIOUS
    <3>1. PICK m \in 0..MaxSessions : f \in [1..m -> Sessions]
      OBVIOUS
    <3>2. m \in Nat
      BY TowersSessions
    <3> QED BY <3>1, <3>2, ListIsSeq
  <2>3. PICK m \in Nat : tTowers' \in [1..m -> Seq(Sessions) \cup {Nil}]
    <3> HIDE DEF Tower
    <3>1. PICK m \in 0..MaxTowers : tTowers' \in [1..m -> Tower]
      BY <2>1
    <3>2. m \in Nat
      BY TowersSessions
    <3>3. tTowers' \in [1..m -> Seq(Sessions) \cup {Nil}]
      BY <2>2, <3>1
    <3> QED BY <3>2, <3>3
  <2>4. tTowers' \in Lists /\ Len(tTowers') \in Nat
    BY <2>3, ListIsSeq DEF Lists
  <2>5. /\ tNext = 0 /\ Len(tBackups) = 0 /\ tSession = 1
        /\ tNumBackups = 0 /\ tNumPendingBackups = 0
    BY <2>1 DEF TowersInv, TowersPlace, TowersSums, AtTower, Towers!TypeOK
  <2>6. TowersExported'
    BY <2>1, <2>5 DEF TowersInv, TowersExported
  <2>7. TowersSums'
    <3>1. ASSUME AtTower' PROVE /\ Own(tTowers'[tNext'], "done", 0) = 0
                                /\ Own(tTowers'[tNext'], "pending", 0) = 0
                                /\ 1 \in 1..Len(tTowers'[tNext']) + 1
      <4>1. tTowers'[tNext'] \in Seq(Sessions)
        BY <2>4, <3>1, ElementOfSeq DEF AtTower, Lists
      <4> QED BY <4>1, OwnNone, LenProperties
    <3> QED BY <2>1, <2>5, <3>1 DEF TowersSums
  <2>8. TowersPlace' /\ Towers!TypeOK'
    BY <2>1, <2>4, <2>5 DEF TowersInv, TowersPlace, Towers!TypeOK
  <2> QED BY <2>4, <2>6, <2>7, <2>8 DEF TowersInv
<1>4. CASE Towers!SkipNil
  BY <1>4, TowersSkip
<1>5. CASE Towers!AddSession
  BY <1>5, TowersAdd
<1>6. CASE Towers!ExportTower
  BY <1>6, TowersExport
<1>7. CASE Towers!End
  <2>1. /\ tAt = "loop" /\ tAt' = "idle" /\ tNext \notin 1..Len(tTowers)
        /\ UNCHANGED local
        /\ tWtOn' = tWtOn /\ tCause' = tCause /\ tRaised' = tRaised
    BY <1>7, TowersList DEF TowersInv, Towers!End, Towers!local
  <2>2. tNext = Len(tTowers) + 1
    BY <2>1, TowersList DEF TowersInv, Towers!TypeOK, TowersPlace
  <2>3. TowersPlace' /\ Towers!TypeOK'
    BY <2>1, <2>2 DEF TowersInv, TowersPlace, Towers!TypeOK
  <2> QED BY <1>1, <2>1, <2>3 DEF TowersInv
<1>8. CASE \E err \in Towers!Collect!Causes : Towers!Fails(err)
  <2>1. /\ tAt = "ListTowers" /\ tAt' = "idle" /\ UNCHANGED local
        /\ tWtOn' = tWtOn /\ tCause' \in Towers!Collect!Causes
        /\ tRaised' \in BOOLEAN
    BY <1>8 DEF Towers!Fails, Towers!local
  <2>2. TowersPlace' /\ Towers!TypeOK'
    BY <2>1 DEF TowersInv, TowersPlace, Towers!TypeOK
  <2> QED BY <1>1, <2>1, <2>2 DEF TowersInv
<1>9. CASE UNCHANGED Towers!vars
  <2>1. UNCHANGED local /\ UNCHANGED <<tAt, tWtOn, tCause, tRaised>>
    BY <1>9 DEF Towers!vars
  <2>2. TowersPlace' /\ Towers!TypeOK'
    BY <2>1 DEF TowersInv, TowersPlace, Towers!TypeOK
  <2> QED BY <1>1, <2>1, <2>2 DEF TowersInv
<1> QED
  BY <1>2, <1>3, <1>4, <1>5, <1>6, <1>7, <1>8, <1>9 DEF Towers!Next

LEMMA TowersInvariance == Towers!Spec => []TowersInv
BY TowersInit, TowersNext, PTL DEF Towers!Spec

(* Each tower that is known has the backups of its own sessions.           *)
THEOREM BackupsAreRight == Towers!Spec => []TowersBackupsAreRight
<1>1. ASSUME TowersInv PROVE TowersBackupsAreRight
  <2>1. DOMAIN tBackups = 1..Len(tBackups)
    BY <1>1, LenProperties DEF TowersInv, TowersExported
  <2>2. Towers!Finished => Len(tBackups) = Len(tTowers)
    BY <1>1, TowersList
    DEF TowersInv, TowersPlace, Towers!Finished, Towers!TypeOK
  <2>3. ASSUME NEW i \in DOMAIN tBackups, tTowers[i] # Nil, NEW field
        PROVE  Towers!SumFunction([j \in DOMAIN tTowers[i] |-> tTowers[i][j][field]])
                 = Own(tTowers[i], field, Len(tTowers[i]))
    <3>1. i \in 1..Len(tTowers)
      BY <1>1, <2>1, <2>3, TowersList
      DEF TowersInv, Towers!TypeOK, TowersPlace
    <3>2. DOMAIN tTowers[i] = 1..Len(tTowers[i])
      BY <1>1, <2>3, <3>1, TowersList DEF TowersInv
    <3>3. PICK f : f = [j \in 1..Len(tTowers[i]) |-> tTowers[i][j][field]]
      OBVIOUS
    <3>4. Towers!SumFunction(f) = SumFunction(f)
      BY DEF SumFunction, SumFunctionOnSet, FoldFunctionOnSet, MapThenFoldSet,
             Towers!SumFunction, Towers!SumFunctionOnSet,
             Towers!FoldFunctionOnSet, Towers!MapThenFoldSet
    <3>5. Own(tTowers[i], field, Len(tTowers[i])) = SumFunction(f)
      BY <3>3, Zenon DEF Own
    <3> QED BY <3>2, <3>3, <3>4, <3>5, Zenon
  <2>4. ASSUME NEW i \in DOMAIN tBackups
        PROVE  tBackups[i] = IF tTowers[i] = Nil THEN Nil
                     ELSE LET all == Len(tTowers[i]) IN
                          [done    |-> Own(tTowers[i], "done", all),
                           pending |-> Own(tTowers[i], "pending", all)]
    BY <1>1, <2>1, <2>4 DEF TowersInv, TowersExported
  <2> QED
    BY <2>2, <2>3, <2>4 DEF TowersBackupsAreRight, Towers!BackupsAreRight
<1> QED BY <1>1, TowersInvariance, PTL

-----------------------------------------------------------------------------
(* The watchtower client's Collect as one of module Scrape: its one call is*)
(* answered there when the loop has ended.                                 *)
TowersNumber == IF tAt = "idle" THEN 0 ELSE 1

TowersVisible == IF Towers!Finished
                 THEN {"numBackupsDesc", "numPendingBackupsDesc"} ELSE {}

TowersRan == tAt # "idle" \/ Towers!Finished \/ tCause # "none"

(* The errors are the same for the collector by itself, so that of those   *)
(* that arrive only that of an inactive client is taken for one.           *)
LEMMA TowersRecognize ==
  ASSUME NEW err \in Towers!Collect!Causes
  PROVE  Towers!Collect!IsInactive(Towers!Collect!Arriving[err])
           <=> err = "inactive"
<1>1. /\ Towers!Collect!Causes = Causes
      /\ Towers!Collect!Arriving = Arriving
  BY DEF Towers!Collect!Causes, Causes, Towers!Collect!Arriving, Arriving,
         Towers!Collect!Error, Error, Towers!Collect!DeadlineText,
         DeadlineText, Towers!Collect!InactiveText, InactiveText,
         Towers!Collect!LndText, LndText, Towers!Collect!ConnectionText,
         ConnectionText
<1>2. Towers!Collect!IsInactive(Arriving[err]) <=> IsInactive(Arriving[err])
  BY DEF Towers!Collect!IsInactive, IsInactive, Towers!Collect!InactiveText,
         InactiveText
<1>3. err \in OnInactive <=> IsInactive(Arriving[err])
  BY <1>1 DEF OnInactive
<1> QED
  BY <1>1, <1>2, <1>3, Recognized

LEMMA TowersCallsOf ==
  /\ Towers!Collect!Calls["wtclient"] = Towers!Collect!WtClientCalls
  /\ Len(Towers!Collect!WtClientCalls) = 1
  /\ Towers!Collect!WtClientCalls[1].emits
       = {"numBackupsDesc", "numPendingBackupsDesc"}
  /\ Towers!Collect!WtClientCalls[1].rpc = "ListTowers"
  /\ Towers!Collect!WtClientCalls[1].quiet = {"inactive"}
<1>1. Towers!Collect!Calls["wtclient"] = Towers!Collect!WtClientCalls
  BY DEF Towers!Collect!Calls
<1>2. Towers!Collect!OnInactive = {"inactive"}
  BY TowersRecognize DEF Towers!Collect!OnInactive, Towers!Collect!Causes
<1> QED
  BY <1>1, <1>2 DEF Towers!Collect!WtClientCalls, Towers!Collect!Call

LEMMA TowersScrapeStep ==
  TowersInv /\ [Towers!Next]_(Towers!vars)
    => [Towers!Collect!Next]_(Towers!Collect!vars)
<1> SUFFICES ASSUME TowersInv, [Towers!Next]_(Towers!vars)
             PROVE  [Towers!Collect!Next]_(Towers!Collect!vars)
  OBVIOUS
<1> DEFINE Only == {"wtclient"}
<1>1. Towers!Collect!Now("wtclient")
        = Towers!Collect!Calls["wtclient"][[c \in Only |-> TowersNumber]["wtclient"]]
  BY DEF Towers!Collect!Now, TowersNumber
<1>2. ASSUME \/ Towers!ListTowers \/ Towers!SkipNil \/ Towers!AddSession
             \/ Towers!ExportTower \/ UNCHANGED Towers!vars
      PROVE  UNCHANGED Towers!Collect!vars
  <2>1. /\ tWtOn' = tWtOn /\ tCause' = tCause /\ tRaised' = tRaised
        /\ \/ tAt' = tAt /\ tNext' = tNext
           \/ tAt # "idle" /\ tAt' # "idle"
    BY <1>2 DEF Towers!ListTowers, Towers!SkipNil, Towers!AddSession,
                Towers!ExportTower, Towers!vars
  <2>2. TowersNumber' = TowersNumber /\ TowersVisible' = TowersVisible
        /\ TowersRan' = TowersRan
    BY <2>1 DEF TowersNumber, TowersVisible, TowersRan, Towers!Finished
  <2>3. /\ [c \in Only |-> TowersNumber]' = [c \in Only |-> TowersNumber]
        /\ [c \in Only |-> TowersVisible]' = [c \in Only |-> TowersVisible]
        /\ [c \in Only |-> tCause]' = [c \in Only |-> tCause]
        /\ [c \in Only |-> tRaised]' = [c \in Only |-> tRaised]
        /\ [c \in Only |-> TowersRan]' = [c \in Only |-> TowersRan]
    BY <2>1, <2>2
  <2> QED
    BY <2>1, <2>3 DEF Towers!Collect!vars, TowersNumber, TowersVisible, TowersRan
<1>3. ASSUME Towers!Begin PROVE Towers!Collect!Begin("wtclient")
  <2>1. /\ tAt = "idle" /\ tAt' = "ListTowers" /\ tNext' = 0 /\ tWtOn' = tWtOn
        /\ tCause' = "none" /\ tRaised' = FALSE
    BY <1>3 DEF Towers!Begin
  <2>2. /\ TowersNumber = 0 /\ TowersNumber' = 1 /\ TowersVisible' = {}
        /\ TowersRan' = TRUE
    BY <2>1 DEF TowersNumber, TowersVisible, TowersRan, Towers!Finished
  <2>3. /\ [c \in Only |-> TowersNumber]' =
             [[c \in Only |-> TowersNumber] EXCEPT !["wtclient"] = 1]
        /\ [c \in Only |-> TowersVisible]' =
             [[c \in Only |-> TowersVisible] EXCEPT !["wtclient"] = {}]
        /\ [c \in Only |-> tCause]' =
             [[c \in Only |-> tCause] EXCEPT !["wtclient"] = "none"]
        /\ [c \in Only |-> tRaised]' =
             [[c \in Only |-> tRaised] EXCEPT !["wtclient"] = FALSE]
        /\ [c \in Only |-> TowersRan]' =
             [[c \in Only |-> TowersRan] EXCEPT !["wtclient"] = TRUE]
        /\ [c \in Only |-> TowersNumber]["wtclient"] = 0
    BY <2>1, <2>2
  <2> QED
    BY <2>1, <2>3
    DEF Towers!Collect!Begin, TowersNumber, TowersVisible, TowersRan
<1>4. ASSUME Towers!End PROVE Towers!Collect!Answered("wtclient")
  <2>1. /\ tAt = "loop" /\ tAt' = "idle" /\ tNext' = tNext /\ tNext # 0
        /\ tWtOn /\ tWtOn' = tWtOn /\ tCause' = tCause /\ tRaised' = tRaised
    BY <1>4 DEF Towers!End, Towers!local, TowersInv, TowersPlace
  <2>2. /\ TowersNumber = 1 /\ TowersNumber' = 0 /\ TowersVisible = {}
        /\ TowersVisible' = {"numBackupsDesc", "numPendingBackupsDesc"}
        /\ TowersRan /\ TowersRan'
    BY <2>1 DEF TowersNumber, TowersVisible, TowersRan, Towers!Finished
  <2>3. Towers!Collect!Now("wtclient").emits
          = {"numBackupsDesc", "numPendingBackupsDesc"}
    BY <1>1, <2>2, TowersCallsOf
  <2>4. [c \in Only |-> TowersVisible]' =
          [[c \in Only |-> TowersVisible] EXCEPT
             !["wtclient"] = [c \in Only |-> TowersVisible]["wtclient"]
                               \cup Towers!Collect!Now("wtclient").emits]
    BY <2>2, <2>3
  <2>5. [c \in Only |-> TowersNumber]' =
          [[c \in Only |-> TowersNumber] EXCEPT
             !["wtclient"] =
               IF [c \in Only |-> TowersNumber]["wtclient"]
                    = Len(Towers!Collect!Calls["wtclient"])
               THEN 0 ELSE [c \in Only |-> TowersNumber]["wtclient"] + 1]
    BY <2>2, TowersCallsOf
  <2>6. /\ [c \in Only |-> TowersNumber]["wtclient"] # 0
        /\ [c \in Only |-> tCause]' = [c \in Only |-> tCause]
        /\ [c \in Only |-> tRaised]' = [c \in Only |-> tRaised]
        /\ [c \in Only |-> TowersRan]' = [c \in Only |-> TowersRan]
    BY <2>1, <2>2 DEF TowersRan
  <2> QED
    BY <2>1, <2>4, <2>5, <2>6
    DEF Towers!Collect!Answered, TowersNumber, TowersVisible, TowersRan
<1>5. ASSUME NEW err \in Towers!Collect!Causes, Towers!Fails(err)
      PROVE  Towers!Collect!Failed("wtclient", err)
  <2>1. /\ tAt = "ListTowers" /\ tAt' = "idle" /\ tNext' = tNext /\ tNext = 0
        /\ err = "inactive" => ~tWtOn
        /\ tWtOn' = tWtOn /\ tCause' = err /\ tRaised' = (err # "inactive")
    BY <1>5, TowersRecognize
       DEF Towers!Fails, Towers!local, TowersInv, TowersPlace
  <2>2. err # "none"
    BY DEF Towers!Collect!Causes
  <2>3. /\ TowersNumber = 1 /\ TowersNumber' = 0 /\ TowersVisible = {}
        /\ TowersVisible' = {} /\ TowersRan /\ TowersRan'
    BY <2>1, <2>2 DEF TowersNumber, TowersVisible, TowersRan, Towers!Finished
  <2>4. /\ Towers!Collect!Now("wtclient").rpc = "ListTowers"
        /\ Towers!Collect!Now("wtclient").quiet = {"inactive"}
    BY <1>1, <2>3, TowersCallsOf
  <2>5. /\ [c \in Only |-> TowersNumber]' =
             [[c \in Only |-> TowersNumber] EXCEPT !["wtclient"] = 0]
        /\ [c \in Only |-> TowersNumber]["wtclient"] # 0
    BY <2>3
  <2>8. [c \in Only |-> tCause]' =
          [[c \in Only |-> tCause] EXCEPT !["wtclient"] = err]
    BY <2>1
  <2>9. [c \in Only |-> TowersVisible]' = [c \in Only |-> TowersVisible]
    BY <2>3
  <2>6. [c \in Only |-> tRaised]' =
          [[c \in Only |-> tRaised] EXCEPT
             !["wtclient"] = err \notin Towers!Collect!Now("wtclient").quiet]
    BY <2>1, <2>4
  <2>7. [c \in Only |-> TowersRan]' = [c \in Only |-> TowersRan]
    BY <2>3 DEF TowersRan
  <2> QED
    BY <2>1, <2>4, <2>5, <2>6, <2>7, <2>8, <2>9
    DEF Towers!Collect!Failed, Towers!Collect!MayFail, TowersNumber,
        TowersVisible, TowersRan
<1>6. (\/ Towers!Collect!Begin("wtclient") \/ Towers!Collect!Answered("wtclient")
       \/ \E err \in Towers!Collect!Causes : Towers!Collect!Failed("wtclient", err))
        => Towers!Collect!Next
  BY DEF Towers!Collect!Next
<1> QED
  BY <1>2, <1>3, <1>4, <1>5, <1>6 DEF Towers!Next

(* The watchtower client collector exports nothing before it has seen all  *)
(* towers, and keeps quiet if the client is not active.                    *)
THEOREM TowersImplementScrape == Towers!Spec => Towers!ImplementsScrape
<1>1. Towers!Init => Towers!Collect!Init
  <2> SUFFICES ASSUME Towers!Init PROVE Towers!Collect!Init
    OBVIOUS
  <2>1. /\ TowersNumber = 0 /\ TowersVisible = {} /\ tCause = "none"
        /\ tRaised = FALSE /\ TowersRan = FALSE /\ tWtOn \in BOOLEAN
    BY DEF Towers!Init, TowersNumber, TowersVisible, TowersRan, Towers!Finished
  <2>2. Towers!Collect!Cardinality({"wtclient"}) = Cardinality({"wtclient"})
    BY DEF Cardinality, Towers!Collect!Cardinality
  <2>3. Cardinality({"wtclient"}) = 1
    BY FS_Singleton
  <2> QED
    BY <2>1, <2>2, <2>3
    DEF Towers!Collect!Init, TowersNumber, TowersVisible, TowersRan
<1> QED
  BY <1>1, TowersScrapeStep, TowersInvariance, PTL
  DEF Towers!Spec, Towers!ImplementsScrape, Towers!Collect!Spec

-----------------------------------------------------------------------------
(* The graph: the known policies before the one the loop is at             *)
Ends == GraphPolicies \cup {Nil}
GraphSeen == Graph!Known(gNext - 1)
GraphValue(p) == Graph!Policy(p).value

(* The samples are the values of these policies: as many of the one are at *)
(* or below a value as of the other.                                       *)
SamplesUpTo(v) == {i \in DOMAIN gStats.samples : gStats.samples[i] <= v}
SeenUpTo(v) == {p \in GraphSeen : GraphValue(p) <= v}

GraphSamples ==
  /\ Len(gStats.samples) = Cardinality(GraphSeen)
  /\ \A v \in Int : Cardinality(SamplesUpTo(v)) = Cardinality(SeenUpTo(v))
  /\ \A i \in DOMAIN gStats.samples :
       \E p \in GraphSeen : GraphValue(p) = gStats.samples[i]
  /\ gStats.sum = SumFunction([p \in GraphSeen |-> GraphValue(p)])

GraphExtremes ==
  /\ IF GraphSeen = {} THEN gStats.min = MaxFloat /\ gStats.max = 0
     ELSE \E p, q \in GraphSeen :
            gStats.min = GraphValue(p) /\ gStats.max = GraphValue(q)
  /\ \A p \in GraphSeen :
       gStats.min <= GraphValue(p) /\ GraphValue(p) <= gStats.max

Charged(kind) ==
  {p \in GraphSeen : Graph!Policy(p).known /\ Graph!Policy(p)[kind] # 0}
Discounts(kind) == {p \in Charged(kind) : Graph!Policy(p)[kind] < 0}

GraphFees ==
  \A kind \in {"base", "rate"} :
    /\ gFees[kind]["negative"].count = Cardinality(Discounts(kind))
    /\ gFees[kind]["positive"].count
         = Cardinality(Charged(kind)) - Cardinality(Discounts(kind))
    /\ gFees[kind]["positive"].sum - gFees[kind]["negative"].sum
         = SumFunction([p \in Charged(kind) |-> Graph!Policy(p)[kind]])

(* The loop starts afresh and exports what it has made of all policies.    *)
GraphPlace ==
  /\ gAt = "DescribeGraph" => gNext = 1 /\ gEmitted = {}
  /\ gAt = "loop" => gEmitted = {"numEdgesDesc", "numNodesDesc"}
  /\ gAt \in {"DescribeGraph", "loop"} => gReport = <<>>
  /\ gReport # <<>> =>
       gNext = 2 * Len(gEdges) + 1 /\ gReport = <<Graph!Report(gStats)>>

GraphInv ==
  /\ Graph!TypeOK /\ gEdges \in Seq(Ends \X Ends)
  /\ GraphSamples /\ GraphExtremes /\ GraphFees /\ GraphPlace

LEMMA GraphPolicyType ==
  ASSUME gEdges \in Seq(Ends \X Ends), NEW p \in 1 .. 2 * Len(gEdges)
  PROVE  Graph!Policy(p) \in Ends
<1>1. Len(gEdges) \in Nat /\ DOMAIN gEdges = 1..Len(gEdges)
  BY LenProperties
<1>2. (p + 1) \div 2 \in 1..Len(gEdges)
  BY <1>1
<1>3. gEdges[(p + 1) \div 2] \in Ends \X Ends
  BY <1>2, ElementOfSeq
<1> QED BY <1>3 DEF Graph!Policy

LEMMA GraphAPolicy ==
  ASSUME NEW policy \in GraphPolicies
  PROVE  /\ policy \in [value : Nat, known : BOOLEAN, base : Int, rate : Int]
         /\ policy.value \in Nat /\ policy.value < MaxFloat /\ policy # Nil
         /\ \A kind \in {"base", "rate"} : policy[kind] \in Int
         /\ MaxFloat \in Nat /\ MaxEdges \in Nat
BY GraphAssumption DEF Graph!PoliciesAssumption

LEMMA GraphSeenFacts ==
  ASSUME gEdges \in Seq(Ends \X Ends), gNext \in 1 .. 2 * Len(gEdges) + 1
  PROVE  /\ IsFiniteSet(GraphSeen) /\ Cardinality(GraphSeen) \in Nat
         /\ gNext \notin GraphSeen
         /\ \A p \in GraphSeen :
              /\ Graph!Policy(p) \in GraphPolicies
              /\ GraphValue(p) \in Nat /\ GraphValue(p) < MaxFloat
              /\ \A kind \in {"base", "rate"} : Graph!Policy(p)[kind] \in Int
<1>1. gNext - 1 \in Nat /\ 1 .. gNext - 1 \subseteq 1 .. 2 * Len(gEdges)
  BY LenProperties
<1>2. IsFiniteSet(GraphSeen) /\ Cardinality(GraphSeen) \in Nat
  <2>1. IsFiniteSet(1 .. gNext - 1)
    BY <1>1, FS_Interval
  <2>2. GraphSeen \subseteq 1 .. gNext - 1
    BY DEF GraphSeen, Graph!Known
  <2> QED BY <2>1, <2>2, FS_Subset, FS_CardinalityType
<1>3. gNext \notin GraphSeen
  BY <1>1 DEF GraphSeen, Graph!Known
<1>4. \A p \in GraphSeen : Graph!Policy(p) \in GraphPolicies
  BY <1>1, GraphPolicyType DEF GraphSeen, Graph!Known, Ends
<1> QED BY <1>2, <1>3, <1>4, GraphAPolicy DEF GraphValue

(* Nothing has been seen at the start.                                     *)
GraphFresh ==
  gNext = 1 /\ gStats = Graph!NewStatsCompiler /\ gFees = Graph!NoFees

LEMMA GraphNothingSeen == GraphFresh => GraphSamples /\ GraphExtremes /\ GraphFees
<1> SUFFICES ASSUME GraphFresh
             PROVE  GraphSamples /\ GraphExtremes /\ GraphFees
  OBVIOUS
<1> USE DEF GraphFresh
<1>1. GraphSeen = {}
  BY DEF GraphSeen, Graph!Known
<1>2. /\ gStats.min = MaxFloat /\ gStats.max = 0 /\ gStats.sum = 0
      /\ gStats.samples = <<>>
  BY DEF Graph!NewStatsCompiler
<1>3. Len(gStats.samples) = 0 /\ DOMAIN gStats.samples = {}
  BY <1>2, EmptySeq
<1>4. GraphSamples
  <2>1. Cardinality(GraphSeen) = 0
    BY <1>1, FS_EmptySet
  <2>2. ASSUME NEW v PROVE Cardinality(SamplesUpTo(v)) = Cardinality(SeenUpTo(v))
    BY <1>1, <1>3 DEF SamplesUpTo, SeenUpTo
  <2>3. SumFunction([p \in GraphSeen |-> GraphValue(p)]) = 0
    BY <1>1, SumOfNone
  <2> QED BY <1>2, <1>3, <2>1, <2>2, <2>3 DEF GraphSamples
<1>5. GraphExtremes
  BY <1>1, <1>2 DEF GraphExtremes
<1>6. GraphFees
  <2> SUFFICES ASSUME NEW kind \in {"base", "rate"}
               PROVE  /\ gFees[kind]["negative"].count = Cardinality(Discounts(kind))
                      /\ gFees[kind]["positive"].count
                           = Cardinality(Charged(kind)) - Cardinality(Discounts(kind))
                      /\ gFees[kind]["positive"].sum - gFees[kind]["negative"].sum
                           = SumFunction([p \in Charged(kind) |-> Graph!Policy(p)[kind]])
    BY DEF GraphFees
  <2>1. Charged(kind) = {} /\ Discounts(kind) = {}
    BY <1>1 DEF Charged, Discounts
  <2>2. /\ Cardinality(Charged(kind)) = 0 /\ Cardinality(Discounts(kind)) = 0
        /\ SumFunction([p \in Charged(kind) |-> Graph!Policy(p)[kind]]) = 0
    BY <2>1, FS_EmptySet, SumOfNone
  <2>3. \A sign \in Graph!Signs : gFees[kind][sign] = [count |-> 0, sum |-> 0]
    BY DEF Graph!NoFees
  <2>4. /\ gFees[kind]["negative"] = [count |-> 0, sum |-> 0]
        /\ gFees[kind]["positive"] = [count |-> 0, sum |-> 0]
    BY <2>3 DEF Graph!Signs
  <2> QED BY <2>2, <2>4
<1> QED BY <1>4, <1>5, <1>6

LEMMA GraphNothingSeenNext ==
  GraphFresh' => GraphSamples' /\ GraphExtremes' /\ GraphFees'
BY GraphNothingSeen, PTL

LEMMA GraphInit == Graph!Init => GraphInv
<1> SUFFICES ASSUME Graph!Init PROVE GraphInv
  OBVIOUS
<1>1. /\ gAt = "idle" /\ gEdges = <<>> /\ gNext = 1
      /\ gStats = Graph!NewStatsCompiler /\ gFees = Graph!NoFees
      /\ gReport = <<>> /\ gEmitted = {} /\ gCause = "none" /\ gRaised = FALSE
  BY DEF Graph!Init
<1>2. gEdges \in Seq(Ends \X Ends) /\ Len(gEdges) = 0
  BY <1>1, EmptySeq
<1>3. GraphPlace
  BY <1>1 DEF GraphPlace
<1>4. /\ gStats.samples \in Seq({p.value : p \in GraphPolicies})
      /\ gStats.sum = 0 /\ gStats.samples = <<>>
  BY <1>1, EmptySeq DEF Graph!NewStatsCompiler
<1>5. \A kind \in {"base", "rate"}, sign \in Graph!Signs :
        gFees[kind][sign] \in [count : Nat, sum : Nat]
  BY <1>1 DEF Graph!NoFees
<1>6. gNext \in 1 .. 2 * Len(gEdges) + 1 /\ gStats.sum \in Nat
  BY <1>1, <1>2, <1>4
<1>7. gAt = "idle" /\ gEmitted = {} /\ gCause = "none" /\ gRaised = FALSE
  BY <1>1
<1>8. Graph!TypeOK
  BY <1>4, <1>5, <1>6, <1>7 DEF Graph!TypeOK
<1> QED BY <1>1, <1>2, <1>3, <1>8, GraphNothingSeen DEF GraphInv, GraphFresh

LEMMA GraphSeenMore ==
  ASSUME gNext \in Nat, gNext # 0, gNext' = gNext + 1, gEdges' = gEdges
  PROVE  GraphSeen' = IF Graph!Policy(gNext) = Nil THEN GraphSeen
                      ELSE GraphSeen \cup {gNext}
<1>1. \A p : Graph!Policy(p)' = Graph!Policy(p)
  BY DEF Graph!Policy
<1>2. GraphSeen' = {p \in 1 .. gNext : Graph!Policy(p) # Nil}
  <2>1. gNext' - 1 = gNext
    OBVIOUS
  <2> QED BY <1>1, <2>1 DEF GraphSeen, Graph!Known
<1>3. 1 .. gNext = (1 .. gNext - 1) \cup {gNext}
  OBVIOUS
<1> QED BY <1>2, <1>3 DEF GraphSeen, Graph!Known

(* One known policy more                                                   *)
LEMMA GraphSamplesMore ==
  ASSUME GraphInv, gNext' = gNext + 1, gEdges' = gEdges,
         gNext \in 1 .. 2 * Len(gEdges), Graph!Policy(gNext) \in GraphPolicies,
         GraphSeen' = GraphSeen \cup {gNext},
         gStats' = Graph!Observe(gStats, GraphValue(gNext))
  PROVE  GraphSamples' /\ GraphExtremes' /\ gStats'.sum \in Nat
         /\ gStats'.samples \in Seq({p.value : p \in GraphPolicies})
         /\ gStats'.min <= gStats'.max
<1> DEFINE value == GraphValue(gNext)
           samples == gStats.samples
           more == Append(samples, value)
           n == Len(samples)
<1>1. /\ gStats'.min = (IF value < gStats.min THEN value ELSE gStats.min)
      /\ gStats'.max = (IF value > gStats.max THEN value ELSE gStats.max)
      /\ gStats'.sum = gStats.sum + value
      /\ gStats'.samples = more
  BY DEF Graph!Observe
<1>2. value \in Nat /\ value < MaxFloat
      /\ value \in {p.value : p \in GraphPolicies}
      /\ MaxFloat \in Nat
  BY GraphAPolicy DEF GraphValue
<1>3. /\ samples \in Seq({p.value : p \in GraphPolicies})
      /\ {p.value : p \in GraphPolicies} \subseteq Nat
      /\ gStats.sum \in Nat
  BY GraphAPolicy DEF GraphInv, Graph!TypeOK
<1>4. /\ IsFiniteSet(GraphSeen) /\ Cardinality(GraphSeen) \in Nat
      /\ gNext \notin GraphSeen
      /\ \A p \in GraphSeen : GraphValue(p) \in Nat /\ GraphValue(p) < MaxFloat
  BY GraphSeenFacts DEF GraphInv, Graph!TypeOK
<1>5. \A p : GraphValue(p)' = GraphValue(p)
  BY DEF GraphValue, Graph!Policy
<1>6. /\ n \in Nat /\ DOMAIN samples = 1..n /\ DOMAIN more = 1..n + 1
      /\ more[n + 1] = value /\ \A i \in 1..n : more[i] = samples[i]
      /\ \A i \in 1..n : samples[i] \in Nat
      /\ Len(more) = n + 1
      /\ more \in Seq({p.value : p \in GraphPolicies})
  <2>1. n \in Nat /\ DOMAIN samples = 1..n
    BY <1>3, LenProperties
  <2>2. \A i \in 1..n : samples[i] \in Nat
    BY <1>3, ElementOfSeq
  <2> HIDE DEF value
  <2>3. /\ more \in Seq({p.value : p \in GraphPolicies}) /\ Len(more) = n + 1
        /\ more[n + 1] = value /\ \A i \in 1..n : more[i] = samples[i]
    BY <1>2, <1>3, AppendProperties
  <2> QED BY <2>1, <2>2, <2>3, LenProperties
<1> HIDE DEF value, more
<1>7. GraphSamples'
  <2>1. Len(gStats'.samples) = Cardinality(GraphSeen')
    BY <1>1, <1>4, <1>6, FS_AddElement DEF GraphInv, GraphSamples
  <2>2. ASSUME NEW v \in Int
        PROVE  Cardinality(SamplesUpTo(v)') = Cardinality(SeenUpTo(v)')
    <3>1. Cardinality(SamplesUpTo(v)) = Cardinality(SeenUpTo(v))
      BY DEF GraphInv, GraphSamples
    <3>2. /\ IsFiniteSet(SamplesUpTo(v)) /\ IsFiniteSet(SeenUpTo(v))
          /\ n + 1 \notin SamplesUpTo(v) /\ gNext \notin SeenUpTo(v)
      <4>1. SamplesUpTo(v) \subseteq 1..n /\ n + 1 \notin 1..n
        BY <1>6 DEF SamplesUpTo
      <4>2. SeenUpTo(v) \subseteq GraphSeen
        BY DEF SeenUpTo
      <4>3. IsFiniteSet(1..n)
        <5>1. n \in Int
          BY <1>6
        <5> HIDE DEF n
        <5> QED BY <5>1, FS_Interval
      <4> QED BY <1>4, <4>1, <4>2, <4>3, FS_Subset
    <3>3. /\ SamplesUpTo(v)' = {i \in 1..n + 1 : more[i] <= v}
          /\ SamplesUpTo(v) = {i \in 1..n : samples[i] <= v}
          /\ 1..n + 1 = (1..n) \cup {n + 1}
      BY <1>1, <1>6 DEF SamplesUpTo
    <3>4. CASE value <= v
      <4>1. SamplesUpTo(v)' = SamplesUpTo(v) \cup {n + 1}
        <5> HIDE DEF n, samples
        <5> QED BY <1>6, <3>4, <3>3
      <4>2. SeenUpTo(v)' = SeenUpTo(v) \cup {gNext}
        BY <1>5, <3>4 DEF SeenUpTo, value
      <4>3. /\ Cardinality(SamplesUpTo(v)') = Cardinality(SamplesUpTo(v)) + 1
            /\ Cardinality(SeenUpTo(v)') = Cardinality(SeenUpTo(v)) + 1
        <5> HIDE DEF n
        <5> QED BY <3>2, <4>1, <4>2, FS_AddElement
      <4> QED BY <3>1, <4>3
    <3>5. CASE ~(value <= v)
      <4>1. SamplesUpTo(v)' = SamplesUpTo(v)
        <5> HIDE DEF n, samples
        <5> QED BY <1>6, <3>5, <3>3
      <4>2. SeenUpTo(v)' = SeenUpTo(v)
        BY <1>5, <3>5 DEF SeenUpTo, value
      <4> QED BY <3>1, <4>1, <4>2
    <3> QED BY <3>4, <3>5
  <2>3. ASSUME NEW i \in DOMAIN gStats'.samples
        PROVE  \E p \in GraphSeen' : GraphValue(p)' = gStats'.samples[i]
    <3>1. CASE i = n + 1
      BY <1>1, <1>5, <1>6, <3>1 DEF value
    <3>2. CASE i \in 1..n
      <4>1. PICK p \in GraphSeen : GraphValue(p) = samples[i]
        BY <1>6, <3>2 DEF GraphInv, GraphSamples
      <4> QED BY <1>1, <1>5, <1>6, <3>2, <4>1
    <3>3. i \in 1..n + 1
      BY <1>1, <1>6
    <3> QED BY <1>6, <3>1, <3>2, <3>3
  <2>4. gStats'.sum = SumFunction([p \in GraphSeen' |-> GraphValue(p)'])
    <3> DEFINE f == [p \in GraphSeen |-> GraphValue(p)]
               h == [p \in GraphSeen' |-> GraphValue(p)']
    <3>1. /\ IsFiniteSet(DOMAIN f) /\ gNext \notin DOMAIN f
          /\ DOMAIN h = DOMAIN f \cup {gNext} /\ h[gNext] = value
          /\ h[gNext] \in Int
          /\ \A p \in DOMAIN f : f[p] \in Int /\ h[p] = f[p]
      BY <1>2, <1>4, <1>5 DEF value
    <3>2. gStats.sum = SumFunction(f)
      BY DEF GraphInv, GraphSamples
    <3> HIDE DEF f, h
    <3>3. SumFunction(h) = SumFunction(f) + value
      BY <3>1, SumOfMore
    <3> QED BY <1>1, <3>2, <3>3 DEF h
  <2> QED BY <2>1, <2>2, <2>3, <2>4 DEF GraphSamples
<1>8. /\ GraphExtremes' /\ gStats'.min <= value /\ value <= gStats'.max
      /\ gStats'.min \in Nat /\ gStats'.max \in Nat
  <2>1. \A p \in GraphSeen' : p = gNext \/ p \in GraphSeen
    OBVIOUS
  <2>2. CASE GraphSeen = {}
    <3>1. gStats'.min = value /\ gStats'.max = value
      BY <1>1, <1>2, <2>2 DEF GraphInv, GraphExtremes
    <3>2. GraphSeen' = {gNext}
      BY <2>2
    <3> QED BY <1>2, <1>5, <3>1, <3>2 DEF GraphExtremes, value
  <2>3. CASE GraphSeen # {}
    <3>1. PICK p \in GraphSeen, q \in GraphSeen :
                 gStats.min = GraphValue(p) /\ gStats.max = GraphValue(q)
      BY <2>3 DEF GraphInv, GraphExtremes
    <3>2. gStats.min \in Nat /\ gStats.max \in Nat
      BY <1>4, <3>1
    <3>3. /\ \E o \in GraphSeen' : gStats'.min = GraphValue(o)'
          /\ \E o \in GraphSeen' : gStats'.max = GraphValue(o)'
      BY <1>1, <1>5, <3>1 DEF value
    <3>4. ASSUME NEW o \in GraphSeen'
          PROVE  gStats'.min <= GraphValue(o)' /\ GraphValue(o)' <= gStats'.max
      <4>1. CASE o = gNext
        BY <1>1, <1>2, <1>5, <3>2, <4>1 DEF value
      <4>2. CASE o \in GraphSeen
        <5>1. gStats.min <= GraphValue(o) /\ GraphValue(o) <= gStats.max
          BY <4>2 DEF GraphInv, GraphExtremes
        <5> QED BY <1>1, <1>2, <1>4, <1>5, <3>2, <4>2, <5>1
      <4> QED BY <2>1, <4>1, <4>2
    <3>5. gStats'.min <= value /\ value <= gStats'.max
          /\ gStats'.min \in Nat /\ gStats'.max \in Nat
      BY <1>1, <1>2, <3>2
    <3> QED BY <3>3, <3>4, <3>5 DEF GraphExtremes
  <2> QED BY <2>2, <2>3
<1> QED BY <1>1, <1>2, <1>3, <1>6, <1>7, <1>8

LEMMA GraphFeesMore ==
  ASSUME GraphInv, gNext' = gNext + 1, gEdges' = gEdges,
         Graph!Policy(gNext) \in GraphPolicies,
         GraphSeen' = GraphSeen \cup {gNext},
         gFees' = IF Graph!Policy(gNext).known
                  THEN [kind \in {"base", "rate"} |->
                          Graph!ObserveFee(gFees[kind],
                                           Graph!Policy(gNext)[kind])]
                  ELSE gFees
  PROVE  /\ GraphFees'
         /\ \A kind \in {"base", "rate"}, sign \in Graph!Signs :
              gFees'[kind][sign] \in [count : Nat, sum : Nat]
<1>1. \A p : Graph!Policy(p)' = Graph!Policy(p)
  BY DEF Graph!Policy
<1>2. /\ IsFiniteSet(GraphSeen) /\ gNext \notin GraphSeen
      /\ \A p \in GraphSeen : Graph!Policy(p) \in GraphPolicies
  BY GraphSeenFacts DEF GraphInv, Graph!TypeOK
<1> SUFFICES ASSUME NEW kind \in {"base", "rate"}
             PROVE  /\ gFees'[kind]["negative"].count = Cardinality(Discounts(kind)')
                    /\ gFees'[kind]["positive"].count
                         = Cardinality(Charged(kind)') - Cardinality(Discounts(kind)')
                    /\ gFees'[kind]["positive"].sum - gFees'[kind]["negative"].sum
                         = SumFunction([p \in Charged(kind)' |-> Graph!Policy(p)[kind]])
                    /\ \A sign \in Graph!Signs :
                         gFees'[kind][sign] \in [count : Nat, sum : Nat]
  BY <1>1 DEF GraphFees
<1> DEFINE fee == Graph!Policy(gNext)[kind]
           negative == gFees[kind]["negative"]
           positive == gFees[kind]["positive"]
           f == [p \in Charged(kind) |-> Graph!Policy(p)[kind]]
           h == [p \in Charged(kind)' |-> Graph!Policy(p)[kind]]
<1>3. /\ negative.count = Cardinality(Discounts(kind))
      /\ positive.count = Cardinality(Charged(kind)) - Cardinality(Discounts(kind))
      /\ positive.sum - negative.sum = SumFunction(f)
  BY DEF GraphInv, GraphFees
<1>4. /\ negative \in [count : Nat, sum : Nat]
      /\ positive \in [count : Nat, sum : Nat]
      /\ \A sign \in Graph!Signs : gFees[kind][sign] \in [count : Nat, sum : Nat]
  BY DEF GraphInv, Graph!TypeOK, Graph!Signs
<1>5. fee \in Int /\ \A p \in Charged(kind) : Graph!Policy(p)[kind] \in Int
  BY <1>2, GraphAPolicy DEF Charged
<1>6. /\ IsFiniteSet(Charged(kind)) /\ gNext \notin Charged(kind)
      /\ IsFiniteSet(Discounts(kind)) /\ gNext \notin Discounts(kind)
      /\ Cardinality(Charged(kind)) \in Nat /\ Cardinality(Discounts(kind)) \in Nat
  <2>1. Charged(kind) \subseteq GraphSeen /\ Discounts(kind) \subseteq GraphSeen
    BY DEF Charged, Discounts
  <2> QED BY <1>2, <2>1, FS_Subset, FS_CardinalityType
<1>7. CASE Graph!Policy(gNext).known /\ fee # 0
  <2>1. Charged(kind)' = Charged(kind) \cup {gNext}
    BY <1>1, <1>7 DEF Charged
  <2>2. Discounts(kind)' = IF fee < 0 THEN Discounts(kind) \cup {gNext}
                           ELSE Discounts(kind)
    BY <1>1, <2>1 DEF Discounts
  <2>3. gFees'[kind]
          = [sign \in Graph!Signs |->
               IF Graph!HasSign(fee, sign)
               THEN [count |-> gFees[kind][sign].count + 1,
                     sum   |-> gFees[kind][sign].sum
                                 + (IF fee < 0 THEN -fee ELSE fee)]
               ELSE gFees[kind][sign]]
    BY <1>7 DEF Graph!ObserveFee
  <2>4. /\ gFees'[kind]["negative"] =
             IF fee < 0 THEN [count |-> negative.count + 1, sum |-> negative.sum - fee]
             ELSE negative
        /\ gFees'[kind]["positive"] =
             IF fee < 0 THEN positive
             ELSE [count |-> positive.count + 1, sum |-> positive.sum + fee]
    BY <1>4, <1>5, <1>7, <2>3 DEF Graph!Signs, Graph!HasSign
  <2>5. SumFunction(h) = SumFunction(f) + fee /\ SumFunction(f) \in Int
    <3>1. /\ IsFiniteSet(DOMAIN f) /\ gNext \notin DOMAIN f
          /\ DOMAIN h = DOMAIN f \cup {gNext} /\ h[gNext] = fee /\ fee \in Int
          /\ \A p \in DOMAIN f : f[p] \in Int /\ h[p] = f[p]
      BY <1>5, <1>6, <2>1
    <3> HIDE DEF f, h, fee
    <3> QED BY <3>1, SumOfMore, SumOfInts
  <2>6. /\ Cardinality(Charged(kind)') = Cardinality(Charged(kind)) + 1
        /\ Cardinality(Discounts(kind)')
             = Cardinality(Discounts(kind)) + (IF fee < 0 THEN 1 ELSE 0)
    <3> HIDE DEF fee
    <3>1. Cardinality(Charged(kind)') = Cardinality(Charged(kind)) + 1
      BY <1>6, <2>1, FS_AddElement
    <3>2. CASE fee < 0
      BY <1>6, <2>2, <3>1, <3>2, FS_AddElement
    <3>3. CASE ~(fee < 0)
      BY <1>6, <2>2, <3>1, <3>3
    <3> QED BY <3>2, <3>3
  <2> HIDE DEF fee, negative, positive, f
  <2>7. CASE fee < 0
    <3>1. /\ gFees'[kind]["negative"].count = negative.count + 1
          /\ gFees'[kind]["negative"].sum = negative.sum - fee
          /\ gFees'[kind]["positive"] = positive
      BY <2>4, <2>7
    <3>2. \A sign \in {"negative", "positive"} :
            gFees'[kind][sign] \in [count : Nat, sum : Nat]
      BY <1>4, <1>5, <2>4, <2>7
    <3> QED BY <1>3, <1>4, <1>5, <1>6, <2>5, <2>6, <2>7, <3>1, <3>2
            DEF Graph!Signs
  <2>8. CASE ~(fee < 0)
    <3>1. /\ gFees'[kind]["positive"].count = positive.count + 1
          /\ gFees'[kind]["positive"].sum = positive.sum + fee
          /\ gFees'[kind]["negative"] = negative
      BY <2>4, <2>8
    <3>2. \A sign \in {"negative", "positive"} :
            gFees'[kind][sign] \in [count : Nat, sum : Nat]
      BY <1>4, <1>5, <2>4, <2>8
    <3> QED BY <1>3, <1>4, <1>5, <1>6, <2>5, <2>6, <2>8, <3>1, <3>2
            DEF Graph!Signs
  <2> QED BY <2>7, <2>8
<1>8. CASE ~(Graph!Policy(gNext).known /\ fee # 0)
  <2>1. Charged(kind)' = Charged(kind)
    BY <1>1, <1>8 DEF Charged
  <2>2. Discounts(kind)' = Discounts(kind)
    BY <1>1, <2>1 DEF Discounts
  <2>3. \A sign \in Graph!Signs : gFees'[kind][sign] = gFees[kind][sign]
    BY <1>8 DEF Graph!ObserveFee, Graph!HasSign
  <2>4. gFees'[kind]["negative"] = negative /\ gFees'[kind]["positive"] = positive
    BY <2>3 DEF Graph!Signs
  <2>5. h = f
    BY <2>1
  <2> HIDE DEF f, h, negative, positive
  <2>6. SumFunction(h) = SumFunction(f)
    BY <2>5
  <2> QED BY <1>3, <1>4, <2>1, <2>2, <2>3, <2>4, <2>6 DEF h
<1> QED BY <1>7, <1>8

LEMMA GraphEmits ==
  /\ \A i \in 1..2 : Graph!Collect!GraphCalls[i].emits
                       \subseteq Graph!Collect!All(Graph!Collect!GraphCalls)
  /\ Graph!Collect!GraphCalls[1].emits
       = {"numEdgesDesc", "numNodesDesc"} \cup Graph!Collect!Policies
  /\ "NetworkInfo" = Graph!Collect!GraphCalls[2].rpc
<1>1. DOMAIN Graph!Collect!GraphCalls = 1..2
  BY DEF Graph!Collect!GraphCalls
<1>2. /\ Graph!Collect!GraphCalls[1].emits
           = {"numEdgesDesc", "numNodesDesc"} \cup Graph!Collect!Policies
      /\ "NetworkInfo" = Graph!Collect!GraphCalls[2].rpc
  BY DEF Graph!Collect!GraphCalls, Graph!Collect!Call
<1> QED BY <1>1, <1>2 DEF Graph!Collect!All

LEMMA GraphNext == GraphInv /\ [Graph!Next]_(Graph!vars) => GraphInv'
<1> SUFFICES ASSUME GraphInv, [Graph!Next]_(Graph!vars) PROVE GraphInv'
  OBVIOUS
<1> DEFINE local == <<gEdges, gNext, gStats, gFees, gReport>>
<1>1. ASSUME GraphSeen' = GraphSeen, GraphSeen # {} => gEdges' = gEdges,
             gStats' = gStats, gFees' = gFees
      PROVE  GraphSamples' /\ GraphExtremes' /\ GraphFees'
  <2>1. \A p \in GraphSeen : Graph!Policy(p)' = Graph!Policy(p)
    BY <1>1 DEF Graph!Policy
  <2>2. [p \in GraphSeen |-> GraphValue(p)]' = [p \in GraphSeen |-> GraphValue(p)]
        /\ \A p \in GraphSeen : GraphValue(p)' = GraphValue(p)
    BY <1>1, <2>1 DEF GraphValue
  <2>3. \A v : SamplesUpTo(v)' = SamplesUpTo(v) /\ SeenUpTo(v)' = SeenUpTo(v)
    BY <1>1, <2>2 DEF SamplesUpTo, SeenUpTo
  <2>4. GraphSamples'
    BY <1>1, <2>2, <2>3 DEF GraphInv, GraphSamples
  <2>5. GraphExtremes'
    BY <1>1, <2>2 DEF GraphInv, GraphExtremes
  <2>6. \A kind : /\ Charged(kind)' = Charged(kind)
                  /\ Discounts(kind)' = Discounts(kind)
                  /\ [p \in Charged(kind) |-> Graph!Policy(p)[kind]]'
                       = [p \in Charged(kind) |-> Graph!Policy(p)[kind]]
    BY <1>1, <2>1 DEF Charged, Discounts
  <2>7. GraphFees'
    BY <1>1, <2>6 DEF GraphInv, GraphFees
  <2> QED BY <2>4, <2>5, <2>7
<1>2. ASSUME gNext' = gNext, gEdges' = gEdges
      PROVE  GraphSeen' = GraphSeen
  BY <1>2 DEF GraphSeen, Graph!Known, Graph!Policy
<1>3. CASE Graph!Begin
  <2>1. /\ gAt' = "DescribeGraph" /\ gEdges' = <<>> /\ gNext' = 1
        /\ gStats' = Graph!NewStatsCompiler /\ gFees' = Graph!NoFees
        /\ gReport' = <<>> /\ gEmitted' = {} /\ gCause' = "none"
        /\ gRaised' = FALSE
    BY <1>3 DEF Graph!Begin
  <2>2. GraphSamples' /\ GraphExtremes' /\ GraphFees'
    BY <2>1, GraphNothingSeenNext DEF GraphFresh
  <2>3. gEdges' \in Seq(Ends \X Ends) /\ Len(gEdges') = 0
    BY <2>1, EmptySeq
  <2>4. GraphPlace'
    BY <2>1 DEF GraphPlace
  <2>5. Graph!TypeOK'
    <3>1. /\ gStats'.samples \in Seq({p.value : p \in GraphPolicies})
          /\ gStats'.sum = 0 /\ gStats'.samples = <<>>
      BY <2>1, EmptySeq DEF Graph!NewStatsCompiler
    <3>2. \A kind \in {"base", "rate"}, sign \in Graph!Signs :
            gFees'[kind][sign] \in [count : Nat, sum : Nat]
      BY <2>1 DEF Graph!NoFees
    <3>3. gNext' \in 1 .. 2 * Len(gEdges') + 1 /\ gStats'.sum \in Nat
      BY <2>1, <2>3, <3>1
    <3>4. gAt' = "DescribeGraph" /\ gEmitted' = {} /\ gCause' = "none"
          /\ gRaised' = FALSE
      BY <2>1
    <3> QED BY <3>1, <3>2, <3>3, <3>4 DEF Graph!TypeOK
  <2> QED BY <2>1, <2>2, <2>3, <2>4, <2>5 DEF GraphInv
<1>4. CASE Graph!DescribeGraph
  <2>1. /\ gAt = "DescribeGraph" /\ gAt' = "loop"
        /\ gEdges' \in UNION {[1..m -> Ends \X Ends] : m \in 0..MaxEdges}
        /\ gEmitted' = {"numEdgesDesc", "numNodesDesc"}
        /\ UNCHANGED <<gNext, gStats, gFees, gReport, gCause, gRaised>>
    BY <1>4 DEF Graph!DescribeGraph, Ends
  <2>2. gNext = 1 /\ gReport = <<>>
    BY <2>1 DEF GraphInv, GraphPlace
  <2>3. gEdges' \in Seq(Ends \X Ends) /\ Len(gEdges') \in Nat
    <3>1. MaxEdges \in Nat
      BY GraphAssumption DEF Graph!PoliciesAssumption
    <3>2. PICK m \in Nat : gEdges' \in [1..m -> Ends \X Ends]
      BY <2>1, <3>1
    <3> QED BY <3>2, ListIsSeq
  <2>4. GraphSeen = {} /\ GraphSeen' = {}
    BY <2>1, <2>2 DEF GraphSeen, Graph!Known
  <2>5. GraphSamples' /\ GraphExtremes' /\ GraphFees'
    BY <1>1, <2>1, <2>4
  <2>6. GraphPlace'
    BY <2>1, <2>2 DEF GraphPlace
  <2>7. Graph!TypeOK'
    <3>1. gNext' \in 1 .. 2 * Len(gEdges') + 1
      BY <2>1, <2>2, <2>3
    <3>2. gEmitted' \subseteq Graph!Collect!All(Graph!Collect!GraphCalls)
      BY <2>1, GraphEmits
    <3> QED BY <2>1, <3>1, <3>2 DEF GraphInv, Graph!TypeOK
  <2> QED BY <2>3, <2>5, <2>6, <2>7 DEF GraphInv
<1>5. ASSUME gNext \in Graph!Places
      PROVE  /\ gNext \in 1 .. 2 * Len(gEdges) /\ gNext \in Nat
             /\ gNext + 1 \in 1 .. 2 * Len(gEdges) + 1
             /\ gNext # 0 /\ Graph!Policy(gNext) \in Ends
  <2>1. gNext \in 1 .. 2 * Len(gEdges) /\ Len(gEdges) \in Nat
    BY <1>5, LenProperties DEF Graph!Places, GraphInv
  <2>2. Graph!Policy(gNext) \in Ends
    BY <2>1, GraphPolicyType DEF GraphInv
  <2> QED BY <2>1, <2>2
<1>6. CASE Graph!SkipNil
  <2>1. /\ gAt = "loop" /\ gAt' = gAt /\ gNext \in Graph!Places
        /\ Graph!Policy(gNext) = Nil /\ gNext' = gNext + 1
        /\ UNCHANGED <<gEdges, gStats, gFees, gReport, gEmitted, gCause, gRaised>>
    BY <1>6 DEF Graph!SkipNil
  <2>2. GraphSeen' = GraphSeen
    BY <1>5, <2>1, GraphSeenMore
  <2>3. GraphSamples' /\ GraphExtremes' /\ GraphFees'
    BY <1>1, <2>1, <2>2
  <2>4. GraphPlace'
    BY <2>1 DEF GraphInv, GraphPlace
  <2>5. Graph!TypeOK'
    BY <1>5, <2>1 DEF GraphInv, Graph!TypeOK
  <2> QED BY <2>1, <2>3, <2>4, <2>5 DEF GraphInv
<1>7. CASE Graph!ObservePolicy
  <2>1. /\ gAt = "loop" /\ gAt' = gAt /\ gNext \in Graph!Places
        /\ Graph!Policy(gNext) # Nil /\ gNext' = gNext + 1
        /\ gStats' = Graph!Observe(gStats, GraphValue(gNext))
        /\ gFees' = IF Graph!Policy(gNext).known
                    THEN [kind \in {"base", "rate"} |->
                            Graph!ObserveFee(gFees[kind],
                                             Graph!Policy(gNext)[kind])]
                    ELSE gFees
        /\ UNCHANGED <<gEdges, gReport, gEmitted, gCause, gRaised>>
    BY <1>7 DEF Graph!ObservePolicy, GraphValue
  <2>2. Graph!Policy(gNext) \in GraphPolicies
    BY <1>5, <2>1 DEF Ends
  <2>3. GraphSeen' = GraphSeen \cup {gNext}
    BY <1>5, <2>1, GraphSeenMore
  <2>4. /\ GraphSamples' /\ GraphExtremes' /\ gStats'.sum \in Nat
        /\ gStats'.samples \in Seq({p.value : p \in GraphPolicies})
        /\ gStats'.min <= gStats'.max
    BY <1>5, <2>1, <2>2, <2>3, GraphSamplesMore
  <2>5. /\ GraphFees'
        /\ \A kind \in {"base", "rate"}, sign \in Graph!Signs :
             gFees'[kind][sign] \in [count : Nat, sum : Nat]
    BY <2>1, <2>2, <2>3, GraphFeesMore
  <2>6. GraphPlace'
    BY <2>1 DEF GraphInv, GraphPlace
  <2>7. Graph!TypeOK'
    <3>1. gNext' \in 1 .. 2 * Len(gEdges') + 1
      BY <1>5, <2>1
    <3> QED BY <2>1, <2>4, <2>5, <3>1 DEF GraphInv, Graph!TypeOK
  <2> QED BY <2>1, <2>4, <2>5, <2>6, <2>7 DEF GraphInv
<1>8. CASE Graph!ExportPolicies
  <2>1. /\ gAt = "loop" /\ gAt' = "NetworkInfo" /\ gNext \notin Graph!Places
        /\ gReport' = <<Graph!Report(gStats)>>
        /\ gEmitted' = gEmitted \cup Graph!Collect!Policies
        /\ UNCHANGED <<gEdges, gNext, gStats, gFees, gCause, gRaised>>
    BY <1>8 DEF Graph!ExportPolicies
  <2>2. gNext = 2 * Len(gEdges) + 1
    <3>1. Len(gEdges) \in Nat /\ gNext \in 1 .. 2 * Len(gEdges) + 1
      BY LenProperties DEF GraphInv, Graph!TypeOK
    <3> QED BY <2>1, <3>1 DEF Graph!Places
  <2>3. GraphSamples' /\ GraphExtremes' /\ GraphFees'
    BY <1>1, <1>2, <2>1
  <2>4. GraphPlace'
    BY <2>1, <2>2 DEF GraphPlace, Graph!Report
  <2>5. Graph!TypeOK'
    BY <2>1, GraphEmits DEF GraphInv, Graph!TypeOK
  <2> QED BY <2>1, <2>3, <2>4, <2>5 DEF GraphInv
<1>9. CASE Graph!NetworkInfo \/ (\E err \in Graph!Failures : Graph!Fails(err))
           \/ UNCHANGED Graph!vars
  <2>1. /\ gAt' # "idle" => gAt' = gAt /\ gEmitted' = gEmitted
        /\ UNCHANGED local
        /\ gEmitted' \in {gEmitted,
                          gEmitted \cup Graph!Collect!GraphCalls[2].emits}
        /\ gCause' \in Graph!Failures \cup {gCause}
        /\ gRaised' \in {TRUE, gRaised}
    <3>1. CASE Graph!NetworkInfo
      BY <3>1 DEF Graph!NetworkInfo, Graph!local
    <3>2. CASE \E err \in Graph!Failures : Graph!Fails(err)
      BY <3>2 DEF Graph!Fails, Graph!local
    <3>3. CASE UNCHANGED Graph!vars
      BY <3>3 DEF Graph!vars
    <3> QED BY <1>9, <3>1, <3>2, <3>3
  <2>2. GraphSamples' /\ GraphExtremes' /\ GraphFees'
    BY <1>1, <1>2, <2>1
  <2>3. GraphPlace'
    BY <2>1 DEF GraphInv, GraphPlace
  <2>4. Graph!TypeOK'
    <3>1. gEmitted' \subseteq Graph!Collect!All(Graph!Collect!GraphCalls)
      BY <2>1, GraphEmits DEF GraphInv, Graph!TypeOK
    <3>2. /\ gAt' \in {"idle", "DescribeGraph", "loop", "NetworkInfo"}
          /\ gCause' \in Graph!Failures \cup {"none"} /\ gRaised' \in BOOLEAN
      BY <2>1 DEF GraphInv, Graph!TypeOK
    <3> QED BY <2>1, <3>1, <3>2 DEF GraphInv, Graph!TypeOK
  <2> QED BY <2>1, <2>2, <2>3, <2>4 DEF GraphInv
<1> QED
  BY <1>3, <1>4, <1>6, <1>7, <1>8, <1>9 DEF Graph!Next

LEMMA GraphInvariance == Graph!Spec => []GraphInv
BY GraphInit, GraphNext, PTL DEF Graph!Spec

-----------------------------------------------------------------------------
(* The median                                                              *)

(* What is sorted has at place k the value that fewer than k samples are   *)
(* below and at least k at or below.                                       *)
LEMMA GraphKth ==
  ASSUME NEW M \in Nat, NEW s \in Seq(0..M), NEW k \in 1..Len(s)
  PROVE  /\ \E i \in DOMAIN s : Graph!Sorted(s)[k] = s[i]
         /\ Cardinality({i \in DOMAIN s : s[i] < Graph!Sorted(s)[k]}) < k
         /\ Cardinality({i \in DOMAIN s : s[i] <= Graph!Sorted(s)[k]}) >= k
<1> DEFINE Low(v) == {i \in DOMAIN s : s[i] < v}
           AtMost(v) == {i \in DOMAIN s : s[i] <= v}
           Enough == {v \in Nat : Cardinality(AtMost(v)) >= k}
           IsKth(v) == /\ \E i \in DOMAIN s : v = s[i]
                       /\ Cardinality(Low(v)) < k
                       /\ Cardinality(AtMost(v)) >= k
<1>1. /\ Len(s) \in Nat /\ DOMAIN s = 1..Len(s) /\ k \in Nat /\ k # 0
      /\ k <= Len(s) /\ \A i \in DOMAIN s : s[i] \in 0..M
  BY LenProperties, ElementOfSeq
<1>2. IsFiniteSet(DOMAIN s) /\ Cardinality(DOMAIN s) = Len(s)
  <2>1. PICK n \in Nat : n = Len(s)
    BY <1>1
  <2>2. IsFiniteSet(1..n) /\ Cardinality(1..n) = n
    BY FirstPlaces
  <2> QED BY <1>1, <2>1, <2>2
<1>3. \A v : /\ IsFiniteSet(Low(v)) /\ Cardinality(Low(v)) \in Nat
             /\ IsFiniteSet(AtMost(v)) /\ Cardinality(AtMost(v)) \in Nat
  BY <1>2, FS_Subset, FS_CardinalityType
<1>4. /\ AtMost(M) = DOMAIN s /\ Low(0) = {}
      /\ \A v \in Nat : v # 0 => AtMost(v - 1) = Low(v)
      /\ \A v \in Nat : (\A i \in DOMAIN s : v # s[i]) => AtMost(v) = Low(v)
  <2>1. \A i \in DOMAIN s : s[i] \in Nat /\ s[i] <= M
    BY <1>1
  <2>2. AtMost(M) = DOMAIN s
    BY <2>1
  <2>3. Low(0) = {}
    BY <2>1
  <2>4. \A v \in Nat : v # 0 => AtMost(v - 1) = Low(v)
    BY <2>1
  <2>5. \A v \in Nat : (\A i \in DOMAIN s : v # s[i]) => AtMost(v) = Low(v)
    BY <2>1
  <2> QED BY <2>2, <2>3, <2>4, <2>5
<1> HIDE DEF Low, AtMost
<1>5. PICK v \in Enough : \A w \in Enough : v <= w
  <2>1. M \in Enough
    BY <1>1, <1>2, <1>4
  <2> QED BY <2>1, SmallestNat
<1>6. v \in Nat /\ Cardinality(AtMost(v)) >= k
  BY <1>5
<1>7. Cardinality(Low(v)) < k
  <2>1. CASE v = 0
    <3>1. Low(v) = {} /\ Cardinality({}) = 0
      BY <1>4, <2>1, FS_EmptySet
    <3> HIDE DEF Enough
    <3> QED BY <1>1, <3>1
  <2>2. CASE v # 0
    <3>1. v - 1 \in Nat /\ ~(v <= v - 1)
      BY <1>6, <2>2
    <3>2. v - 1 \notin Enough
      BY <1>5, <3>1
    <3>3. ~(Cardinality(AtMost(v - 1)) >= k)
      BY <3>1, <3>2
    <3>4. Cardinality(AtMost(v - 1)) = Cardinality(Low(v))
      BY <1>4, <1>6, <2>2
    <3>5. Cardinality(Low(v)) \in Nat
      BY <1>3
    <3> HIDE DEF Enough
    <3> QED BY <1>1, <3>3, <3>4, <3>5
  <2> QED BY <2>1, <2>2
<1>8. \E i \in DOMAIN s : v = s[i]
  <2> SUFFICES ASSUME ~(\E i \in DOMAIN s : v = s[i]) PROVE FALSE
    OBVIOUS
  <2>1. Cardinality(AtMost(v)) = Cardinality(Low(v))
    BY <1>4, <1>6
  <2>2. Cardinality(Low(v)) \in Nat
    BY <1>3
  <2> HIDE DEF Enough
  <2> QED BY <1>1, <1>6, <1>7, <2>1, <2>2
<1>9. \A w : IsKth(w) <=> /\ w \in Graph!Range(s)
                          /\ Graph!Cardinality({i \in DOMAIN s : s[i] < w}) < k
                          /\ Graph!Cardinality({i \in DOMAIN s : s[i] <= w}) >= k
  BY DEF Graph!Range, Low, AtMost, Cardinality, Graph!Cardinality
<1>10. IsKth(Graph!Sorted(s)[k])
  <2>1. Graph!Sorted(s)[k] = CHOOSE w \in Graph!Range(s) :
             /\ Graph!Cardinality({i \in DOMAIN s : s[i] < w}) < k
             /\ Graph!Cardinality({i \in DOMAIN s : s[i] <= w}) >= k
    BY <1>1 DEF Graph!Sorted
  <2>2. IsKth(v)
    BY <1>6, <1>7, <1>8
  <2> HIDE DEF IsKth
  <2> QED BY <1>9, <2>1, <2>2
<1> QED BY <1>10 DEF Low, AtMost

(* Two values of known policies, such that fewer than a policies are below *)
(* the first and at least a at or below it, and the same for the second    *)
(* and b, are the middle of a + b - 1 policies.                            *)
LEMMA GraphMiddle ==
  ASSUME IsFiniteSet(GraphSeen), \A p \in GraphSeen : GraphValue(p) \in Nat,
         NEW a \in Nat, NEW b \in Nat, b = a \/ b = a + 1,
         Cardinality(GraphSeen) = a + b - 1,
         NEW p \in GraphSeen, NEW q \in GraphSeen,
         Cardinality(SeenUpTo(GraphValue(p) - 1)) < a,
         Cardinality(SeenUpTo(GraphValue(p))) >= a,
         Cardinality(SeenUpTo(GraphValue(q) - 1)) < b,
         Cardinality(SeenUpTo(GraphValue(q))) >= b,
         NEW median, median = GraphValue(p) + GraphValue(q)
  PROVE  LET below == {o \in GraphSeen : 2 * GraphValue(o) <= median}
             above == {o \in GraphSeen : 2 * GraphValue(o) >= median} IN
         /\ 2 * Cardinality(below) >= Cardinality(GraphSeen)
         /\ 2 * Cardinality(above) >= Cardinality(GraphSeen)
         /\ p \in below /\ q \in above
         /\ \A o \in GraphSeen : GraphValue(o) <= GraphValue(p)
                                 \/ GraphValue(o) >= GraphValue(q)
<1> DEFINE below == {o \in GraphSeen : 2 * GraphValue(o) <= median}
           above == {o \in GraphSeen : 2 * GraphValue(o) >= median}
           v == GraphValue(p)
           w == GraphValue(q)
<1>1. v \in Nat /\ w \in Nat /\ median = v + w
  OBVIOUS
<1>2. \A u : /\ IsFiniteSet(SeenUpTo(u)) /\ Cardinality(SeenUpTo(u)) \in Nat
             /\ SeenUpTo(u) \subseteq GraphSeen
  <2>1. \A u : SeenUpTo(u) \subseteq GraphSeen
    BY DEF SeenUpTo
  <2> QED BY <2>1, FS_Subset, FS_CardinalityType
<1>3. v <= w
  <2> SUFFICES ASSUME w < v PROVE FALSE
    BY <1>1
  <2>1. SeenUpTo(w) \subseteq SeenUpTo(v - 1)
    BY <1>1 DEF SeenUpTo
  <2>2. Cardinality(SeenUpTo(w)) <= Cardinality(SeenUpTo(v - 1))
    BY <1>2, <2>1, FS_Subset
  <2>3. Cardinality(SeenUpTo(w)) \in Nat /\ Cardinality(SeenUpTo(v - 1)) \in Nat
    BY <1>2
  <2> QED BY <2>2, <2>3
<1>4. 2 * Cardinality(below) >= Cardinality(GraphSeen)
  <2>1. SeenUpTo(v) \subseteq below /\ below \subseteq GraphSeen
    BY <1>1, <1>3 DEF SeenUpTo
  <2> HIDE DEF below, v
  <2>2. /\ Cardinality(SeenUpTo(v)) <= Cardinality(below)
        /\ Cardinality(below) \in Nat
    BY <2>1, FS_Subset, FS_CardinalityType
  <2>3. Cardinality(SeenUpTo(v)) >= a /\ Cardinality(SeenUpTo(v)) \in Nat
    BY <1>2 DEF v
  <2> QED BY <2>2, <2>3
<1>5. 2 * Cardinality(above) >= Cardinality(GraphSeen)
  <2> DEFINE X == SeenUpTo(w - 1)
  <2>1. GraphSeen \ X \subseteq above /\ above \subseteq GraphSeen
        /\ GraphSeen \cap X = X
    BY <1>1, <1>3 DEF SeenUpTo
  <2>2. Cardinality(X) < b /\ Cardinality(X) \in Nat
    BY <1>2
  <2> HIDE DEF above, X
  <2>3. Cardinality(GraphSeen \ X) = Cardinality(GraphSeen) - Cardinality(X)
    <3>1. Cardinality(GraphSeen \ X)
            = Cardinality(GraphSeen) - Cardinality(GraphSeen \cap X)
      BY FS_Difference
    <3> QED BY <2>1, <3>1
  <2>4. /\ Cardinality(GraphSeen \ X) <= Cardinality(above)
        /\ Cardinality(above) \in Nat
    BY <2>1, FS_Subset, FS_CardinalityType
  <2> QED BY <2>2, <2>3, <2>4
<1>6. ASSUME NEW o \in GraphSeen, ~(GraphValue(o) <= v \/ GraphValue(o) >= w)
      PROVE  FALSE
  <2>1. GraphValue(o) \in Nat /\ v < GraphValue(o) /\ GraphValue(o) <= w - 1
    BY <1>1, <1>6
  <2>2. SeenUpTo(v) \cup {o} \subseteq SeenUpTo(w - 1) /\ o \notin SeenUpTo(v)
    BY <1>1, <2>1 DEF SeenUpTo
  <2> HIDE DEF v, w
  <2>3. Cardinality(SeenUpTo(v) \cup {o}) = Cardinality(SeenUpTo(v)) + 1
    BY <1>2, <2>2, FS_AddElement
  <2>4. Cardinality(SeenUpTo(v) \cup {o}) <= Cardinality(SeenUpTo(w - 1))
    BY <1>2, <2>2, FS_Subset
  <2>5. /\ Cardinality(SeenUpTo(v)) \in Nat /\ Cardinality(SeenUpTo(w - 1)) \in Nat
        /\ Cardinality(SeenUpTo(v)) >= a /\ Cardinality(SeenUpTo(w - 1)) < b
    BY <1>2 DEF v, w
  <2> QED BY <2>3, <2>4, <2>5
<1>7. p \in below /\ q \in above
  BY <1>1, <1>3
<1> QED BY <1>4, <1>5, <1>6, <1>7

(* The median is the sum of the two samples in the middle, or twice the one*)
LEMMA GraphMedian ==
  ASSUME GraphInv, NEW n \in Nat, n = Cardinality(GraphSeen), n # 0
  PROVE  \E p, q \in GraphSeen : \E a, b \in Nat :
           /\ b = a \/ b = a + 1
           /\ n = a + b - 1
           /\ Cardinality(SeenUpTo(GraphValue(p) - 1)) < a
           /\ Cardinality(SeenUpTo(GraphValue(p))) >= a
           /\ Cardinality(SeenUpTo(GraphValue(q) - 1)) < b
           /\ Cardinality(SeenUpTo(GraphValue(q))) >= b
           /\ Graph!Median(gStats.samples) = GraphValue(p) + GraphValue(q)
<1> DEFINE s == gStats.samples
           a == (n + 1) \div 2
           b == n \div 2 + 1
<1>1. MaxFloat \in Nat /\ s \in Seq(0..MaxFloat)
  <2>1. s \in Seq({p.value : p \in GraphPolicies})
    BY DEF GraphInv, Graph!TypeOK
  <2>2. {p.value : p \in GraphPolicies} \subseteq 0..MaxFloat /\ MaxFloat \in Nat
    BY GraphAssumption, GraphAPolicy DEF Graph!PoliciesAssumption
  <2> HIDE DEF s
  <2> QED BY <2>1, <2>2, SeqMonotonic
<1>2. Len(s) = n
  BY DEF GraphInv, GraphSamples
<1>3. /\ a \in 1..Len(s) /\ b \in 1..Len(s) /\ n = a + b - 1
      /\ b = a \/ b = a + 1
  BY <1>2
<1>4. ASSUME NEW k \in 1..Len(s)
      PROVE  \E p \in GraphSeen :
               /\ GraphValue(p) = Graph!Sorted(s)[k] /\ GraphValue(p) \in Nat
               /\ Cardinality(SeenUpTo(GraphValue(p) - 1)) < k
               /\ Cardinality(SeenUpTo(GraphValue(p))) >= k
  <2> DEFINE v == Graph!Sorted(s)[k]
  <2>1. /\ \E i \in DOMAIN s : v = s[i]
        /\ Cardinality({i \in DOMAIN s : s[i] < v}) < k
        /\ Cardinality({i \in DOMAIN s : s[i] <= v}) >= k
    BY <1>1, GraphKth
  <2> HIDE DEF v
  <2>2. \A i \in DOMAIN s : s[i] \in Nat
    BY <1>1, ElementOfSeq, LenProperties
  <2>3. v \in Nat
    BY <2>1, <2>2
  <2>4. PICK p \in GraphSeen : GraphValue(p) = v
    BY <2>1 DEF GraphInv, GraphSamples
  <2>5. /\ {i \in DOMAIN s : s[i] < v} = SamplesUpTo(v - 1)
        /\ {i \in DOMAIN s : s[i] <= v} = SamplesUpTo(v)
    BY <2>2, <2>3 DEF SamplesUpTo
  <2>6. /\ Cardinality(SamplesUpTo(v - 1)) = Cardinality(SeenUpTo(v - 1))
        /\ Cardinality(SamplesUpTo(v)) = Cardinality(SeenUpTo(v))
    BY <2>3 DEF GraphInv, GraphSamples
  <2>7. /\ Cardinality(SeenUpTo(v - 1)) < k /\ Cardinality(SeenUpTo(v)) >= k
    BY <2>1, <2>5, <2>6
  <2> QED BY <2>3, <2>4, <2>7 DEF v
<1>5. PICK p \in GraphSeen :
             /\ GraphValue(p) = Graph!Sorted(s)[a] /\ GraphValue(p) \in Nat
             /\ Cardinality(SeenUpTo(GraphValue(p) - 1)) < a
             /\ Cardinality(SeenUpTo(GraphValue(p))) >= a
  <2> HIDE DEF a
  <2> QED BY <1>3, <1>4
<1>6. PICK q \in GraphSeen :
             /\ GraphValue(q) = Graph!Sorted(s)[b] /\ GraphValue(q) \in Nat
             /\ Cardinality(SeenUpTo(GraphValue(q) - 1)) < b
             /\ Cardinality(SeenUpTo(GraphValue(q))) >= b
  <2> HIDE DEF b
  <2> QED BY <1>3, <1>4
<1>7. Graph!Median(s) = GraphValue(p) + GraphValue(q)
  <2> DEFINE sorted == Graph!Sorted(s)
  <2>1. Graph!Median(s) =
          CASE Len(s) = 0 -> 0
            [] Len(s) > 0 /\ Len(s) % 2 = 0
                 -> sorted[Len(s) \div 2] + sorted[Len(s) \div 2 + 1]
            [] Len(s) % 2 = 1 -> 2 * sorted[Len(s) \div 2 + 1]
    BY DEF Graph!Median
  <2> HIDE DEF sorted, s
  <2>2. CASE n % 2 = 0
    <3>1. a = n \div 2
      BY <2>2
    <3>2. Graph!Median(s) = sorted[a] + sorted[b]
      BY <1>2, <2>1, <2>2, <3>1
    <3> QED BY <1>5, <1>6, <3>2 DEF sorted
  <2>3. CASE n % 2 = 1
    <3>1. a = b
      BY <2>3
    <3>2. Graph!Median(s) = 2 * sorted[b]
      BY <1>2, <2>1, <2>3
    <3>3. GraphValue(p) = sorted[b] /\ GraphValue(q) = sorted[b]
      BY <1>5, <1>6, <3>1 DEF sorted
    <3> QED BY <1>5, <3>2, <3>3
  <2> QED BY <2>2, <2>3
<1>8. a \in Nat /\ b \in Nat
  OBVIOUS
<1> HIDE DEF a, b
<1> QED BY <1>3, <1>5, <1>6, <1>7, <1>8

(* When the report is out, the loop has been over all of the policies.     *)
LEMMA GraphReport == GraphInv => GraphReportIsRight
<1> SUFFICES ASSUME GraphInv, gReport # <<>>, Graph!Known(2 * Len(gEdges)) # {}
             PROVE  Graph!ReportIsRight
  BY DEF GraphReportIsRight, Graph!ReportIsRight
<1> DEFINE r == Graph!Report(gStats)
<1>1. gNext = 2 * Len(gEdges) + 1 /\ gReport[1] = r
  BY DEF GraphInv, GraphPlace
<1>2. Graph!Known(2 * Len(gEdges)) = GraphSeen
  <2>1. Len(gEdges) \in Nat
    BY LenProperties DEF GraphInv
  <2>2. gNext - 1 = 2 * Len(gEdges)
    BY <1>1, <2>1
  <2> QED BY <2>2 DEF GraphSeen
<1>3. /\ IsFiniteSet(GraphSeen) /\ Cardinality(GraphSeen) \in Nat
      /\ \A p \in GraphSeen : GraphValue(p) \in Nat
  BY GraphSeenFacts DEF GraphInv, Graph!TypeOK
<1>4. GraphSeen # {} /\ Cardinality(GraphSeen) # 0
  BY <1>2, <1>3, FS_EmptySet
<1>5. /\ r.min = gStats.min /\ r.max = gStats.max /\ r.num = gStats.sum
      /\ r.den = Len(gStats.samples) /\ r.median = Graph!Median(gStats.samples)
  BY DEF Graph!Report
<1> HIDE DEF r
<1> DEFINE below == {p \in GraphSeen : 2 * GraphValue(p) <= r.median}
           above == {p \in GraphSeen : 2 * GraphValue(p) >= r.median}
<1>6. /\ \E p \in GraphSeen : GraphValue(p) = r.min
      /\ \E p \in GraphSeen : GraphValue(p) = r.max
      /\ \A p \in GraphSeen : r.min <= GraphValue(p) /\ GraphValue(p) <= r.max
  BY <1>4, <1>5 DEF GraphInv, GraphExtremes
<1>7. \A p \in GraphSeen : GraphValue(p) \in r.min..r.max
  BY <1>3, <1>6
<1>8. /\ 2 * Cardinality(below) >= Cardinality(GraphSeen)
      /\ 2 * Cardinality(above) >= Cardinality(GraphSeen)
      /\ \E p \in below, q \in above :
           /\ GraphValue(p) + GraphValue(q) = r.median
           /\ \A o \in GraphSeen :
                GraphValue(o) <= GraphValue(p) \/ GraphValue(o) >= GraphValue(q)
  <2>1. PICK n \in Nat : n = Cardinality(GraphSeen)
    BY <1>3
  <2>2. PICK p \in GraphSeen, q \in GraphSeen : \E a, b \in Nat :
           /\ b = a \/ b = a + 1
           /\ n = a + b - 1
           /\ Cardinality(SeenUpTo(GraphValue(p) - 1)) < a
           /\ Cardinality(SeenUpTo(GraphValue(p))) >= a
           /\ Cardinality(SeenUpTo(GraphValue(q) - 1)) < b
           /\ Cardinality(SeenUpTo(GraphValue(q))) >= b
           /\ Graph!Median(gStats.samples) = GraphValue(p) + GraphValue(q)
    <3>1. n # 0
      BY <1>4, <2>1
    <3> QED BY <2>1, <3>1, GraphMedian
  <2>3. PICK a \in Nat, b \in Nat :
           /\ b = a \/ b = a + 1
           /\ n = a + b - 1
           /\ Cardinality(SeenUpTo(GraphValue(p) - 1)) < a
           /\ Cardinality(SeenUpTo(GraphValue(p))) >= a
           /\ Cardinality(SeenUpTo(GraphValue(q) - 1)) < b
           /\ Cardinality(SeenUpTo(GraphValue(q))) >= b
           /\ r.median = GraphValue(p) + GraphValue(q)
    BY <1>5, <2>2
  <2>4. /\ 2 * Cardinality(below) >= Cardinality(GraphSeen)
        /\ 2 * Cardinality(above) >= Cardinality(GraphSeen)
        /\ p \in below /\ q \in above
        /\ \A o \in GraphSeen :
             GraphValue(o) <= GraphValue(p) \/ GraphValue(o) >= GraphValue(q)
    BY <1>3, <2>1, <2>3, GraphMiddle
  <2> HIDE DEF below, above
  <2> QED BY <2>3, <2>4
<1>9. /\ r.den = Cardinality(GraphSeen)
      /\ r.num = SumFunction([p \in GraphSeen |-> GraphValue(p)])
  BY <1>5 DEF GraphInv, GraphSamples
<1>10. \A S : Graph!Cardinality(S) = Cardinality(S)
  BY DEF Cardinality, Graph!Cardinality
<1>11. \A f : Graph!SumFunction(f) = SumFunction(f)
  BY DEF SumFunction, SumFunctionOnSet, FoldFunctionOnSet, MapThenFoldSet,
         Graph!SumFunction, Graph!SumFunctionOnSet,
         Graph!FoldFunctionOnSet, Graph!MapThenFoldSet
<1>12. /\ Graph!Cardinality(below) = Cardinality(below)
       /\ Graph!Cardinality(above) = Cardinality(above)
       /\ Graph!Cardinality(GraphSeen) = Cardinality(GraphSeen)
       /\ Graph!SumFunction([p \in GraphSeen |-> GraphValue(p)])
            = SumFunction([p \in GraphSeen |-> GraphValue(p)])
  BY <1>10, <1>11, Zenon
<1> QED
  BY <1>1, <1>2, <1>6, <1>7, <1>8, <1>9, <1>12, Zenon
  DEF Graph!ReportIsRight, GraphValue

LEMMA GraphInboundFees == GraphInv => GraphInboundFeesAreRight
<1> SUFFICES ASSUME GraphInv PROVE Graph!InboundFeesAreRight
  BY DEF GraphInboundFeesAreRight
<1> SUFFICES ASSUME NEW kind \in {"base", "rate"}
             PROVE  /\ gFees[kind]["negative"].count = Graph!Cardinality(Discounts(kind))
                    /\ gFees[kind]["positive"].count
                         = Graph!Cardinality(Charged(kind))
                             - gFees[kind]["negative"].count
                    /\ gFees[kind]["positive"].sum - gFees[kind]["negative"].sum
                         = Graph!SumFunction([p \in Charged(kind) |->
                                                Graph!Policy(p)[kind]])
  BY DEF Graph!InboundFeesAreRight, Charged, Discounts, GraphSeen
<1>1. \A S : Graph!Cardinality(S) = Cardinality(S)
  BY DEF Cardinality, Graph!Cardinality
<1>2. \A f : Graph!SumFunction(f) = SumFunction(f)
  BY DEF SumFunction, SumFunctionOnSet, FoldFunctionOnSet, MapThenFoldSet,
         Graph!SumFunction, Graph!SumFunctionOnSet,
         Graph!FoldFunctionOnSet, Graph!MapThenFoldSet
<1> QED BY <1>1, <1>2 DEF GraphInv, GraphFees

(* Every report of the graph is right.                                     *)
THEOREM ReportIsRight == Graph!Spec => []GraphReportIsRight
BY GraphInvariance, GraphReport, PTL

(* The histograms of the inbound fees are right at any point of the loop.  *)
THEOREM InboundFeesAreRight == Graph!Spec => []GraphInboundFeesAreRight
BY GraphInvariance, GraphInboundFees, PTL

-----------------------------------------------------------------------------
(* The graph's Collect as one of module Scrape: the loop is part of its    *)
(* first call, and what has been exported by then is not visible yet.      *)
GraphNumber == CASE gAt = "idle" -> 0
                 [] gAt \in {"DescribeGraph", "loop"} -> 1
                 [] gAt = "NetworkInfo" -> 2

GraphVisible == IF gAt = "loop" THEN {} ELSE gEmitted
GraphRan == gAt # "idle" \/ gEmitted # {} \/ gCause # "none"

LEMMA GraphCallsOf ==
  /\ Graph!Collect!Calls["graph"] = Graph!Collect!GraphCalls
  /\ Len(Graph!Collect!GraphCalls) = 2
  /\ \A i \in 1..2 : /\ Graph!Collect!GraphCalls[i].rpc # "ListTowers"
                     /\ Graph!Collect!GraphCalls[i].quiet = {}
                     /\ Graph!Collect!GraphCalls[i].emits # {}
<1>1. Graph!Collect!Calls["graph"] = Graph!Collect!GraphCalls
  BY DEF Graph!Collect!Calls
<1>2. Len(Graph!Collect!GraphCalls) = 2
  BY DEF Graph!Collect!GraphCalls
<1>3. \A i \in 1..2 : /\ Graph!Collect!GraphCalls[i].rpc # "ListTowers"
                      /\ Graph!Collect!GraphCalls[i].quiet = {}
                      /\ Graph!Collect!GraphCalls[i].emits # {}
  BY DEF Graph!Collect!GraphCalls, Graph!Collect!Call, Graph!Collect!Never
<1> QED BY <1>1, <1>2, <1>3

LEMMA GraphAnswerStep ==
  ASSUME GraphNumber \in 1..2,
         GraphVisible' = GraphVisible
                           \cup Graph!Collect!GraphCalls[GraphNumber].emits,
         GraphNumber' = IF GraphNumber = 2 THEN 0 ELSE GraphNumber + 1,
         gCause' = gCause, gRaised' = gRaised, GraphRan' = GraphRan
  PROVE  Graph!Collect!Answered("graph")
<1> DEFINE Only == {"graph"}
<1>1. Graph!Collect!Now("graph") = Graph!Collect!GraphCalls[GraphNumber]
  BY GraphCallsOf DEF Graph!Collect!Now, GraphNumber
<1>2. Graph!Collect!Now("graph").rpc # "ListTowers"
  BY <1>1, GraphCallsOf
<1>3. [c \in Only |-> GraphVisible]' =
        [[c \in Only |-> GraphVisible] EXCEPT
           !["graph"] = [c \in Only |-> GraphVisible]["graph"]
                          \cup Graph!Collect!Now("graph").emits]
  BY <1>1
<1>4. [c \in Only |-> GraphNumber]' =
        [[c \in Only |-> GraphNumber] EXCEPT
           !["graph"] =
             IF [c \in Only |-> GraphNumber]["graph"]
                  = Len(Graph!Collect!Calls["graph"])
             THEN 0 ELSE [c \in Only |-> GraphNumber]["graph"] + 1]
  BY GraphCallsOf
<1>5. /\ [c \in Only |-> GraphNumber]["graph"] # 0
      /\ [c \in Only |-> gCause]' = [c \in Only |-> gCause]
      /\ [c \in Only |-> gRaised]' = [c \in Only |-> gRaised]
      /\ [c \in Only |-> GraphRan]' = [c \in Only |-> GraphRan]
  OBVIOUS
<1> QED
  BY <1>2, <1>3, <1>4, <1>5
  DEF Graph!Collect!Answered, GraphNumber, GraphVisible, GraphRan

LEMMA GraphFailStep ==
  ASSUME NEW err \in Graph!Failures, GraphNumber \in 1..2, GraphNumber' = 0,
         GraphVisible' = GraphVisible, gCause' = err, gRaised' = TRUE,
         GraphRan' = GraphRan
  PROVE  Graph!Collect!Failed("graph", err)
<1> DEFINE Only == {"graph"}
<1>1. Graph!Collect!Now("graph").quiet = {}
  BY GraphCallsOf DEF Graph!Collect!Now, GraphNumber
<1>2. err # "inactive"
  BY DEF Graph!Failures
<1>3. [c \in Only |-> GraphNumber]' =
        [[c \in Only |-> GraphNumber] EXCEPT !["graph"] = 0]
  OBVIOUS
<1>4. [c \in Only |-> gCause]' = [[c \in Only |-> gCause] EXCEPT !["graph"] = err]
  OBVIOUS
<1>5. [c \in Only |-> gRaised]' =
        [[c \in Only |-> gRaised] EXCEPT
           !["graph"] = err \notin Graph!Collect!Now("graph").quiet]
  BY <1>1
<1>6. /\ [c \in Only |-> GraphNumber]["graph"] # 0
      /\ [c \in Only |-> GraphVisible]' = [c \in Only |-> GraphVisible]
      /\ [c \in Only |-> GraphRan]' = [c \in Only |-> GraphRan]
  OBVIOUS
<1> QED
  BY <1>2, <1>3, <1>4, <1>5, <1>6
  DEF Graph!Collect!Failed, Graph!Collect!MayFail, GraphNumber, GraphVisible,
      GraphRan

LEMMA GraphBeginStep ==
  ASSUME GraphNumber = 0, GraphNumber' = 1, GraphVisible' = {},
         gCause' = "none", gRaised' = FALSE, GraphRan' = TRUE
  PROVE  Graph!Collect!Begin("graph")
<1> DEFINE Only == {"graph"}
<1>1. [c \in Only |-> GraphNumber]' =
        [[c \in Only |-> GraphNumber] EXCEPT !["graph"] = 1]
  OBVIOUS
<1>2. [c \in Only |-> GraphVisible]' =
        [[c \in Only |-> GraphVisible] EXCEPT !["graph"] = {}]
  OBVIOUS
<1>3. [c \in Only |-> gCause]' =
        [[c \in Only |-> gCause] EXCEPT !["graph"] = "none"]
  OBVIOUS
<1>4. [c \in Only |-> gRaised]' =
        [[c \in Only |-> gRaised] EXCEPT !["graph"] = FALSE]
  OBVIOUS
<1>5. [c \in Only |-> GraphRan]' =
        [[c \in Only |-> GraphRan] EXCEPT !["graph"] = TRUE]
  OBVIOUS
<1>6. [c \in Only |-> GraphNumber]["graph"] = 0
  OBVIOUS
<1> QED
  BY <1>1, <1>2, <1>3, <1>4, <1>5, <1>6
  DEF Graph!Collect!Begin, GraphNumber, GraphVisible, GraphRan

LEMMA GraphScrapeStep ==
  GraphInv /\ [Graph!Next]_(Graph!vars)
    => [Graph!Collect!Next]_(Graph!Collect!vars)
<1> SUFFICES ASSUME GraphInv, [Graph!Next]_(Graph!vars)
             PROVE  [Graph!Collect!Next]_(Graph!Collect!vars)
  OBVIOUS
<1>1. ASSUME GraphNumber' = GraphNumber, GraphVisible' = GraphVisible,
             GraphRan' = GraphRan, UNCHANGED <<gCause, gRaised>>
      PROVE  UNCHANGED Graph!Collect!vars
  <2> DEFINE Only == {"graph"}
  <2>1. /\ [c \in Only |-> GraphNumber]' = [c \in Only |-> GraphNumber]
        /\ [c \in Only |-> GraphVisible]' = [c \in Only |-> GraphVisible]
        /\ [c \in Only |-> gCause]' = [c \in Only |-> gCause]
        /\ [c \in Only |-> gRaised]' = [c \in Only |-> gRaised]
        /\ [c \in Only |-> GraphRan]' = [c \in Only |-> GraphRan]
    BY <1>1
  <2> QED BY <2>1 DEF Graph!Collect!vars, GraphNumber, GraphVisible, GraphRan
<1>2. ASSUME \/ Graph!DescribeGraph \/ Graph!SkipNil \/ Graph!ObservePolicy
             \/ UNCHANGED Graph!vars
      PROVE  UNCHANGED Graph!Collect!vars
  <2>1. CASE Graph!DescribeGraph
    <3>1. /\ gAt = "DescribeGraph" /\ gAt' = "loop" /\ gEmitted = {}
          /\ UNCHANGED <<gCause, gRaised>>
      BY <2>1 DEF Graph!DescribeGraph, GraphInv, GraphPlace
    <3> QED BY <1>1, <3>1 DEF GraphNumber, GraphVisible, GraphRan
  <2>2. CASE ~Graph!DescribeGraph
    <3>1. UNCHANGED <<gAt, gEmitted, gCause, gRaised>>
      BY <1>2, <2>2 DEF Graph!SkipNil, Graph!ObservePolicy, Graph!vars
    <3> QED BY <1>1, <3>1 DEF GraphNumber, GraphVisible, GraphRan
  <2> QED BY <2>1, <2>2
<1>3. ASSUME Graph!Begin PROVE Graph!Collect!Begin("graph")
  BY <1>3, GraphBeginStep DEF Graph!Begin, GraphNumber, GraphVisible, GraphRan
<1>4. ASSUME Graph!ExportPolicies PROVE Graph!Collect!Answered("graph")
  <2>1. /\ gAt = "loop" /\ gAt' = "NetworkInfo"
        /\ gEmitted' = {"numEdgesDesc", "numNodesDesc"} \cup Graph!Collect!Policies
        /\ gCause' = gCause /\ gRaised' = gRaised
    BY <1>4 DEF Graph!ExportPolicies, GraphInv, GraphPlace
  <2>2. GraphNumber = 1 /\ GraphNumber' = 2 /\ GraphRan' = GraphRan
    BY <2>1 DEF GraphNumber, GraphRan
  <2>3. GraphVisible = {} /\ GraphVisible' = Graph!Collect!GraphCalls[1].emits
    BY <2>1, GraphEmits DEF GraphVisible
  <2> QED BY <2>1, <2>2, <2>3, GraphAnswerStep
<1>5. ASSUME Graph!NetworkInfo PROVE Graph!Collect!Answered("graph")
  <2>1. /\ gAt = "NetworkInfo" /\ gAt' = "idle"
        /\ gEmitted' = gEmitted \cup Graph!Collect!GraphCalls[2].emits
        /\ gEmitted' # {}
        /\ gCause' = gCause /\ gRaised' = gRaised
    BY <1>5, GraphCallsOf DEF Graph!NetworkInfo
  <2>2. GraphNumber = 2 /\ GraphNumber' = 0 /\ GraphRan' = GraphRan
    BY <2>1 DEF GraphNumber, GraphRan
  <2>3. GraphVisible = gEmitted /\ GraphVisible' = gEmitted'
    BY <2>1 DEF GraphVisible
  <2> QED BY <2>1, <2>2, <2>3, GraphAnswerStep
<1>6. ASSUME NEW err \in Graph!Failures, Graph!Fails(err)
      PROVE  Graph!Collect!Failed("graph", err)
  <2>1. /\ gAt \in {"DescribeGraph", "NetworkInfo"} /\ gAt' = "idle"
        /\ gCause' = err /\ gRaised' = TRUE /\ gEmitted' = gEmitted
    BY <1>6 DEF Graph!Fails
  <2>2. err # "none"
    BY DEF Graph!Failures, Graph!Collect!Causes
  <2>3. /\ GraphNumber \in 1..2 /\ GraphNumber' = 0 /\ GraphRan' = GraphRan
        /\ GraphVisible' = GraphVisible
    BY <2>1, <2>2 DEF GraphNumber, GraphRan, GraphVisible
  <2> QED BY <2>1, <2>3, GraphFailStep
<1>7. (\/ Graph!Collect!Begin("graph") \/ Graph!Collect!Answered("graph")
       \/ \E err \in Graph!Failures : Graph!Collect!Failed("graph", err))
        => Graph!Collect!Next
  BY DEF Graph!Collect!Next, Graph!Failures
<1> QED
  BY <1>2, <1>3, <1>4, <1>5, <1>6, <1>7 DEF Graph!Next

(* The graph collector exports all that an answer gives, or stops at the   *)
(* call that fails, with an error.                                         *)
THEOREM GraphImplementsScrape == Graph!Spec => Graph!ImplementsScrape
<1>1. Graph!Init => Graph!Collect!Init
  <2> SUFFICES ASSUME Graph!Init PROVE Graph!Collect!Init
    OBVIOUS
  <2>1. /\ GraphNumber = 0 /\ GraphVisible = {} /\ gCause = "none"
        /\ gRaised = FALSE /\ GraphRan = FALSE
    BY DEF Graph!Init, GraphNumber, GraphVisible, GraphRan
  <2>2. Graph!Collect!Cardinality({"graph"}) = Cardinality({"graph"})
    BY DEF Cardinality, Graph!Collect!Cardinality
  <2>3. Cardinality({"graph"}) = 1
    BY FS_Singleton
  <2> QED
    BY <2>1, <2>2, <2>3
    DEF Graph!Collect!Init, GraphNumber, GraphVisible, GraphRan
<1> QED
  BY <1>1, GraphScrapeStep, GraphInvariance, PTL
  DEF Graph!Spec, Graph!ImplementsScrape, Graph!Collect!Spec

-----------------------------------------------------------------------------
(* The three collectors together: they share nothing.                      *)

(* The variables of the three collectors keep their types, and of the      *)
(* extremes they keep the lower is never above the higher.                 *)
THEOREM ReportTypes == Graph!Spec /\ Wallet!Spec /\ Towers!Spec => []TypesOK
<1>1. GraphInv /\ WalletInv /\ TowersInv => TypesOK
  BY DEF GraphInv, WalletInv, TowersInv, TypesOK
<1> QED BY <1>1, GraphInvariance, WalletInvariance, TowersInvariance, PTL

(* Each of the three collectors does what Scrape says of it.               *)
THEOREM ScrapesImplemented ==
  Graph!Spec /\ Wallet!Spec /\ Towers!Spec => AllImplementScrape
BY GraphImplementsScrape, WalletImplementsScrape, TowersImplementScrape
   DEF AllImplementScrape
=============================================================================
