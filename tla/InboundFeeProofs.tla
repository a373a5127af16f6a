--------------------------- MODULE InboundFeeProofs ---------------------------
(***************************************************************************)
(* Proofs about the inbound fee, for any channels and policies, any first  *)
(* amount and any width of the integers. The shards are what the balances  *)
(* have lost since the amount was begun. While some of the amount is left, *)
(* every shard has emptied its channel, so that the next one is on a       *)
(* channel of its own; what has been sent is therefore at most the         *)
(* liquidity, and all of it when no candidate is left. And since every     *)
(* channel that has something left was a candidate for every shard, no     *)
(* shard cost more than its amount would have cost there: the lowest rate  *)
(* of those channels divides what was sent from what was not, and a split  *)
(* that moves an amount over that line does not get cheaper.               *)
(***************************************************************************)
EXTENDS InboundFee, SumTheorems, SequenceTheorems

External == {c \in DOMAIN listed : listed[c].active /\ ~listed[c].primary}

(* The types that TypeOK leaves open                                       *)
ShapeInv ==
  /\ policies \in [DOMAIN policies -> {PolicyOf(e) : e \in Edges}]
  /\ remainingBalances \in [External -> Nat]
  /\ series \in Seq([amt : Nat, fee : Int])

(* A channel has what it was listed with, less the shard that is on it.    *)
ShardsInv ==
  /\ DOMAIN sent \subseteq External \cap DOMAIN policies
  /\ \A c \in External :
       remainingBalances[c] + (IF c \in DOMAIN sent THEN sent[c] ELSE 0)
         = listed[c].remoteBalance
  /\ \A c \in DOMAIN sent : sent[c] \in Nat \ {0}
  /\ SumFunction(sent) + amountRemaining = receiveAmt

(* Only the last shard of an amount leaves something in its channel.       *)
EmptiedInv ==
  /\ amountRemaining > 0 => \A c \in DOMAIN sent : remainingBalances[c] = 0
  /\ \E last : \A c \in DOMAIN sent \ {last} : remainingBalances[c] = 0

PoliciesInv == stage \in {"policies", "failed"} => sent = NoShards /\ series = <<>>

(* Where the series is, and at its end that nothing is left to send over   *)
SeriesInv ==
  /\ receiveAmt = AmountAt(Len(series) + 1)
  /\ \A i \in 1..Len(series) : /\ series[i].amt = AmountAt(i)
                               /\ series[i].amt <= Liquidity
  /\ stage = "done" => amountRemaining > 0 /\ Candidates = {}

IInv == TypeOK /\ ShapeInv /\ ShardsInv /\ EmptiedInv /\ PoliciesInv /\ SeriesInv

-----------------------------------------------------------------------------
LEMMA ListedType ==
  ASSUME TypeOK
  PROVE  /\ IsFiniteSet(DOMAIN listed) /\ DOMAIN listed \subseteq Channels
         /\ \A c \in DOMAIN listed : listed[c].remoteBalance \in Nat
         /\ IsFiniteSet(External) /\ External \subseteq DOMAIN listed
         /\ RemoteBalances \in [External -> Nat]
         /\ \A c \in External : RemoteBalances[c] = listed[c].remoteBalance
<1>1. PICK C \in SUBSET Channels : listed \in [C -> Listings]
  BY DEF TypeOK, Maps
<1>2. IsFiniteSet(C)
  BY ChannelsAssumption, FS_Subset
<1>3. \A c \in DOMAIN listed : listed[c].remoteBalance \in Nat
  BY <1>1, ListingsAssumption
<1>4. IsFiniteSet(External) /\ External \subseteq DOMAIN listed
  BY <1>1, <1>2, FS_Subset DEF External
<1>5. /\ RemoteBalances = [c \in External |-> listed[c].remoteBalance]
  BY DEF RemoteBalances, External
<1> QED BY <1>1, <1>2, <1>3, <1>4, <1>5

LEMMA UsableIs == Usable = External \cap DOMAIN policies
BY DEF Usable, External

(* The channel taken is not empty, gets something, and not too much.       *)
LEMMA ShardType ==
  ASSUME TypeOK, ShapeInv, NEW c \in Best, amountRemaining > 0
  PROVE  /\ c \in External \cap DOMAIN policies /\ remainingBalances[c] \in Nat \ {0}
         /\ AmountToSend(c) \in Nat \ {0}
         /\ AmountToSend(c) <= amountRemaining
         /\ AmountToSend(c) <= remainingBalances[c]
         /\ AmountToSend(c) < amountRemaining
              => AmountToSend(c) = remainingBalances[c]
         /\ ShardFee(c) \in Int
<1>1. /\ c \in External \cap DOMAIN policies
      /\ remainingBalances[c] \in Nat \ {0}
  BY DEF Best, Candidates, ShapeInv
<1>2. amountRemaining \in Nat \ {0}
  BY DEF TypeOK
<1>3. /\ AmountToSend(c) \in Nat \ {0}
      /\ AmountToSend(c) <= amountRemaining
      /\ AmountToSend(c) <= remainingBalances[c]
      /\ AmountToSend(c) < amountRemaining
           => AmountToSend(c) = remainingBalances[c]
  BY <1>1, <1>2 DEF AmountToSend
<1>4. ShardFee(c) \in Int
  <2>1. policies[c].base \in Int /\ policies[c].rate \in Int
    <3>1. PICK e \in Edges : policies[c] = PolicyOf(e)
      BY <1>1 DEF ShapeInv
    <3> QED BY <3>1, EdgesAssumption DEF PolicyOf
  <2>2. AmountToSend(c) * policies[c].rate \in Int
    BY <1>3, <2>1
  <2>3. Wrap(AmountToSend(c) * policies[c].rate) \in Int
    BY <2>2, MaxIntAssumption DEF Wrap
  <2>4. \A k \in Int : Quotient(k, 1000000) \in Int
    BY DEF Quotient
  <2>5. Quotient(policies[c].base, 1000) \in Int
    BY <2>1 DEF Quotient
  <2> QED BY <2>3, <2>4, <2>5 DEF ShardFee, ForwardFee
<1> QED BY <1>1, <1>3, <1>4

(* What is sent is no more than the liquidity, and all of it if no other   *)
(* channel has anything left.                                              *)
LEMMA SentAndLiquidity ==
  ASSUME TypeOK, ShapeInv, ShardsInv
  PROVE  /\ SumFunction(sent) <= Liquidity
         /\ Candidates = {} => Liquidity <= SumFunction(sent)
         /\ Liquidity \in Nat /\ SumFunction(sent) \in Nat
         /\ IsFiniteSet(DOMAIN sent)
<1> DEFINE balances == [c \in Usable |-> listed[c].remoteBalance]
<1>1. /\ IsFiniteSet(Usable) /\ Usable \subseteq External
      /\ \A c \in Usable : listed[c].remoteBalance \in Nat
  BY UsableIs, ListedType, FS_Subset
<1>2. /\ DOMAIN sent \subseteq Usable /\ IsFiniteSet(DOMAIN sent)
      /\ \A c \in DOMAIN sent : sent[c] \in Nat
  BY <1>1, UsableIs, FS_Subset DEF ShardsInv
<1>3. /\ DOMAIN balances = Usable
      /\ \A c \in Usable : balances[c] = listed[c].remoteBalance
  OBVIOUS
<1>4. Liquidity = SumFunction(balances)
  BY DEF Liquidity
<1> HIDE DEF balances
<1>5. \A c \in DOMAIN sent : sent[c] <= balances[c]
  <2> SUFFICES ASSUME NEW c \in DOMAIN sent PROVE sent[c] <= balances[c]
    OBVIOUS
  <2>1. c \in External /\ remainingBalances[c] \in Nat
    BY <1>1, <1>2 DEF ShapeInv
  <2>2. remainingBalances[c] + sent[c] = listed[c].remoteBalance
    BY <2>1 DEF ShardsInv
  <2> QED BY <1>1, <1>2, <1>3, <2>1, <2>2
<1>6. SumFunction(sent) <= SumFunction(balances)
  BY <1>1, <1>2, <1>3, <1>5, SumAtMost
<1>7. ASSUME Candidates = {}
      PROVE  SumFunction(balances) <= SumFunction(sent)
  <2>1. ASSUME NEW c \in Usable
        PROVE  IF c \in DOMAIN sent THEN balances[c] <= sent[c]
               ELSE balances[c] = 0
    <3>1. c \in External /\ c \in DOMAIN policies
      BY UsableIs
    <3>2. remainingBalances[c] = 0
      BY <1>7, <3>1 DEF Candidates, ShapeInv
    <3>3. remainingBalances[c] + (IF c \in DOMAIN sent THEN sent[c] ELSE 0)
            = balances[c]
      BY <1>3, <3>1 DEF ShardsInv
    <3> QED BY <1>2, <3>2, <3>3
  <2> QED BY <1>1, <1>2, <1>3, <2>1, SumAtMost
<1>8. SumFunction(balances) \in Nat /\ SumFunction(sent) \in Nat
  BY <1>1, <1>2, <1>3, SumOfNats
<1> QED BY <1>2, <1>4, <1>6, <1>7, <1>8

LEMMA NoShardsSum ==
  /\ DOMAIN NoShards = {} /\ SumFunction(NoShards) = 0
BY SumOfNone DEF NoShards

-----------------------------------------------------------------------------
(* Steps                                                                   *)

LEMMA InitInv == Init => IInv
<1> SUFFICES ASSUME Init PROVE IInv
  OBVIOUS
<1> USE DEF Init
<1>1. FirstAmount \in Nat \ {0} /\ DOMAIN NoShards = {} /\ SumFunction(NoShards) = 0
  BY NoShardsSum, FirstAmountAssumption
<1>2. TypeOK
  <2>1. \A c \in DOMAIN RemoteBalances : RemoteBalances[c] \in Nat
    <3>1. PICK C \in SUBSET Channels : listed \in [C -> Listings]
      BY DEF Maps
    <3> QED BY <3>1, ListingsAssumption DEF RemoteBalances
  <2> QED BY <1>1, <2>1 DEF TypeOK
<1>3. ShapeInv
  <2>1. policies \in [DOMAIN policies -> {PolicyOf(e) : e \in Edges}]
    BY DEF NoShards
  <2> QED BY <1>2, <2>1, ListedType DEF ShapeInv
<1>4. ShardsInv
  BY <1>1, <1>2, ListedType DEF ShardsInv
<1>5. EmptiedInv /\ PoliciesInv
  BY <1>1 DEF EmptiedInv, PoliciesInv
<1>6. SeriesInv
  BY DEF SeriesInv, AmountAt
<1> QED BY <1>2, <1>3, <1>4, <1>5, <1>6 DEF IInv

LEMMA PoliciesStep ==
  ASSUME IInv, GetRemotePolicies \/ NotOurChannel
  PROVE  IInv'
<1>1. /\ stage = "policies" /\ stage' \in {"splitting", "failed"}
      /\ UNCHANGED <<listed, edges, receiveAmt, amountRemaining,
                     remainingBalances, fee, sent, series>>
  BY DEF GetRemotePolicies, NotOurChannel, answers
<1>2. /\ sent = NoShards /\ series = <<>> /\ DOMAIN sent = {} /\ Len(series) = 0
      /\ SumFunction(sent) = 0
  BY <1>1, NoShardsSum DEF IInv, PoliciesInv
<1>3. /\ DOMAIN policies' \subseteq DOMAIN edges
      /\ policies' \in [DOMAIN policies' -> {PolicyOf(e) : e \in Edges}]
  <2>1. CASE GetRemotePolicies
    <3>1. policies' = [c \in Enabled |-> PolicyOf(edges[c])]
      BY <2>1 DEF GetRemotePolicies
    <3>2. \A c \in Enabled : c \in DOMAIN edges /\ edges[c] \in Edges
      <4>1. PICK C \in SUBSET Channels : edges \in [C -> Edges]
        BY DEF IInv, TypeOK, Maps
      <4> QED BY <4>1 DEF Enabled
    <3> QED BY <3>1, <3>2
  <2>2. CASE NotOurChannel
    BY <2>2 DEF NotOurChannel, IInv, TypeOK, ShapeInv
  <2> QED BY <2>1, <2>2
<1>4. TypeOK'
  BY <1>1, <1>3 DEF IInv, TypeOK
<1>5. ShapeInv'
  BY <1>1, <1>3 DEF IInv, ShapeInv, External
<1>6. ShardsInv'
  <2>1. External' = External
    BY <1>1 DEF External
  <2>2. SumFunction(sent') = 0 /\ DOMAIN sent' = {}
    BY <1>1, <1>2, Zenon
  <2> QED BY <1>1, <1>2, <2>1, <2>2 DEF IInv, ShardsInv
<1>7. EmptiedInv' /\ PoliciesInv'
  BY <1>1, <1>2 DEF IInv, EmptiedInv, PoliciesInv
<1>8. SeriesInv'
  BY <1>1, <1>2 DEF IInv, SeriesInv, AmountAt
<1> QED BY <1>4, <1>5, <1>6, <1>7, <1>8 DEF IInv

LEMMA SendStep ==
  ASSUME IInv, NEW c \in Channels, SendShard(c)
  PROVE  IInv'
<1> DEFINE a == AmountToSend(c)
<1>1. /\ stage = "splitting" /\ amountRemaining > 0 /\ c \in Best
      /\ amountRemaining' = amountRemaining - a
      /\ fee' = fee + ShardFee(c)
      /\ remainingBalances' = [remainingBalances EXCEPT ![c] = @ - a]
      /\ UNCHANGED <<listed, edges, stage, policies, receiveAmt, series>>
  BY DEF SendShard, answers
<1>2. /\ c \in External \cap DOMAIN policies /\ remainingBalances[c] \in Nat \ {0}
      /\ a \in Nat \ {0} /\ a <= amountRemaining /\ a <= remainingBalances[c]
      /\ a < amountRemaining => a = remainingBalances[c]
      /\ ShardFee(c) \in Int
  BY <1>1, ShardType DEF IInv
<1>3. c \notin DOMAIN sent
  BY <1>1, <1>2 DEF IInv, EmptiedInv
<1>4. /\ DOMAIN sent' = DOMAIN sent \cup {c} /\ sent'[c] = a
      /\ \A d \in DOMAIN sent : sent'[d] = sent[d] /\ sent[d] \in Nat \ {0}
  <2>1. sent' = [d \in DOMAIN sent \cup {c} |->
                   (IF d = c THEN a ELSE 0)
                     + (IF d \in DOMAIN sent THEN sent[d] ELSE 0)]
    BY DEF SendShard
  <2>2. \A d \in DOMAIN sent : sent[d] \in Nat \ {0}
    BY DEF IInv, ShardsInv
  <2> HIDE DEF a
  <2> QED BY <1>2, <1>3, <2>1, <2>2
<1>5. /\ receiveAmt \in Nat \ {0} /\ amountRemaining \in Nat
      /\ amountRemaining <= receiveAmt /\ fee \in Int
  BY DEF IInv, TypeOK
<1>6. remainingBalances' \in [External -> Nat]
      /\ remainingBalances'[c] = remainingBalances[c] - a
      /\ \A d \in External \ {c} : remainingBalances'[d] = remainingBalances[d]
  <2>1. remainingBalances \in [External -> Nat]
    BY DEF IInv, ShapeInv
  <2> HIDE DEF a
  <2> QED BY <1>1, <1>2, <2>1
<1>7. External' = External
  BY <1>1 DEF External
<1> HIDE DEF a
<1>8. TypeOK'
  <2>1. amountRemaining' \in 0..receiveAmt /\ fee' \in Int
    BY <1>1, <1>2, <1>5
  <2>2. \A d \in DOMAIN sent' : sent'[d] \in Nat
    BY <1>2, <1>4
  <2>3. \A d \in DOMAIN remainingBalances' : remainingBalances'[d] \in Nat
    BY <1>6
  <2> QED BY <1>1, <2>1, <2>2, <2>3 DEF IInv, TypeOK
<1>9. ShapeInv'
  BY <1>1, <1>6, <1>7 DEF IInv, ShapeInv
<1>10. ShardsInv'
  <2>1. DOMAIN sent' \subseteq External \cap DOMAIN policies
    BY <1>2, <1>4 DEF IInv, ShardsInv
  <2>2. ASSUME NEW d \in External
        PROVE  remainingBalances'[d]
                 + (IF d \in DOMAIN sent' THEN sent'[d] ELSE 0)
                 = listed[d].remoteBalance
    <3>1. remainingBalances[d] + (IF d \in DOMAIN sent THEN sent[d] ELSE 0)
            = listed[d].remoteBalance
      BY DEF IInv, ShardsInv
    <3>2. CASE d = c
      BY <1>2, <1>3, <1>4, <1>6, <3>1, <3>2
    <3>3. CASE d # c
      BY <1>4, <1>6, <3>1, <3>3
    <3> QED BY <3>2, <3>3
  <2>3. SumFunction(sent') = SumFunction(sent) + sent'[c]
    <3>1. IsFiniteSet(DOMAIN sent)
      BY SentAndLiquidity DEF IInv
    <3>2. \A d \in DOMAIN sent : sent[d] \in Int /\ sent'[d] = sent[d]
      BY <1>4
    <3> QED BY <1>2, <1>3, <1>4, <3>1, <3>2, SumOfMore
  <2>4. /\ SumFunction(sent) \in Nat
        /\ SumFunction(sent) + amountRemaining = receiveAmt
    BY SentAndLiquidity DEF IInv, ShardsInv
  <2>5. SumFunction(sent') + amountRemaining' = receiveAmt'
    BY <1>1, <1>2, <1>4, <1>5, <2>3, <2>4
  <2> QED BY <1>1, <1>2, <1>4, <1>7, <2>1, <2>2, <2>5 DEF ShardsInv
<1>11. EmptiedInv'
  <2>1. \A d \in DOMAIN sent : remainingBalances'[d] = 0
    <3>1. \A d \in DOMAIN sent : d \in External \ {c} /\ remainingBalances[d] = 0
      BY <1>1, <1>3 DEF IInv, EmptiedInv, ShardsInv
    <3> QED BY <1>6, <3>1
  <2>2. amountRemaining' > 0 => remainingBalances'[c] = 0
    BY <1>1, <1>2, <1>5, <1>6
  <2> QED BY <1>4, <2>1, <2>2 DEF EmptiedInv
<1>12. PoliciesInv'
  BY <1>1 DEF PoliciesInv
<1>13. SeriesInv'
  <2>1. Liquidity' = Liquidity
    BY <1>1 DEF Liquidity, Usable
  <2> QED BY <1>1, <2>1 DEF IInv, SeriesInv, AmountAt
<1> QED BY <1>8, <1>9, <1>10, <1>11, <1>12, <1>13 DEF IInv

LEMMA ExportStep ==
  ASSUME IInv, ExportFee
  PROVE  IInv'
<1> DEFINE e == [amt |-> receiveAmt, fee |-> fee]
           k == Len(series)
<1>1. /\ stage = "splitting" /\ amountRemaining = 0
      /\ series' = Append(series, e)
      /\ receiveAmt' = 2 * receiveAmt /\ amountRemaining' = 2 * receiveAmt
      /\ remainingBalances' = RemoteBalances
      /\ fee' = 0 /\ sent' = NoShards
      /\ UNCHANGED <<listed, edges, stage, policies>>
  BY DEF ExportFee, answers
<1>2. receiveAmt \in Nat \ {0} /\ fee \in Int /\ series \in Seq([amt : Nat, fee : Int])
  BY DEF IInv, TypeOK, ShapeInv
<1>3. e \in [amt : Nat, fee : Int] /\ e.amt = receiveAmt
  BY <1>2
<1>4. /\ series' \in Seq([amt : Nat, fee : Int])
      /\ k \in Nat /\ Len(series') = k + 1 /\ series'[k + 1] = e
      /\ \A i \in 1..k : series'[i] = series[i]
  <2> HIDE DEF e
  <2> QED BY <1>1, <1>2, <1>3, AppendProperties
<1>5. /\ External' = External /\ RemoteBalances \in [External -> Nat]
      /\ \A c \in External : RemoteBalances[c] = listed[c].remoteBalance
  BY <1>1, ListedType DEF External, IInv
<1>6. DOMAIN sent' = {} /\ SumFunction(sent') = 0
  BY <1>1, NoShardsSum, Zenon
<1> HIDE DEF e, k
<1>7. TypeOK'
  <2>1. \A i \in 1..Len(series') : series'[i] \in [amt : Nat, fee : Int]
    BY <1>4, ElementOfSeq
  <2>2. \A c \in DOMAIN remainingBalances' : remainingBalances'[c] \in Nat
    BY <1>1, <1>5
  <2> QED BY <1>1, <1>2, <1>6, <2>1, <2>2 DEF IInv, TypeOK
<1>8. ShapeInv'
  BY <1>1, <1>4, <1>5 DEF IInv, ShapeInv
<1>9. ShardsInv'
  <2>1. \A c \in External : listed[c].remoteBalance \in Nat
    BY <1>5
  <2> QED BY <1>1, <1>2, <1>5, <1>6, <2>1 DEF ShardsInv
<1>10. EmptiedInv' /\ PoliciesInv'
  BY <1>1, <1>6 DEF EmptiedInv, PoliciesInv
<1>11. SeriesInv'
  <2>1. Liquidity' = Liquidity
    BY <1>1 DEF Liquidity, Usable
  <2>2. receiveAmt <= Liquidity
    <3>1. SumFunction(sent) = receiveAmt
      BY <1>1, SentAndLiquidity DEF IInv, ShardsInv
    <3> QED BY <3>1, SentAndLiquidity DEF IInv
  <2>3. \A i \in 1..k + 1 : AmountAt(i)' = AmountAt(i)
    <3>1. \A i \in 1..k + 1 : i # 1 => i - 1 \in 1..k
      BY <1>4
    <3> QED BY <1>4, <3>1 DEF AmountAt
  <2>4. \A i \in 1..k + 1 : /\ series'[i].amt = AmountAt(i)'
                            /\ series'[i].amt <= Liquidity'
    <3> SUFFICES ASSUME NEW i \in 1..k + 1
                 PROVE  /\ series'[i].amt = AmountAt(i)'
                        /\ series'[i].amt <= Liquidity'
      OBVIOUS
    <3>1. CASE i = k + 1
      <4>1. receiveAmt = AmountAt(k + 1)
        BY DEF IInv, SeriesInv, k
      <4> QED BY <1>3, <1>4, <2>1, <2>2, <2>3, <3>1, <4>1
    <3>2. CASE i \in 1..k
      BY <1>4, <2>1, <2>3, <3>2 DEF IInv, SeriesInv, k
    <3> QED BY <1>4, <3>1, <3>2
  <2>5. receiveAmt' = AmountAt(Len(series) + 1)'
    BY <1>1, <1>3, <1>4 DEF AmountAt
  <2> QED BY <1>1, <1>4, <2>4, <2>5 DEF SeriesInv
<1> QED BY <1>7, <1>8, <1>9, <1>10, <1>11 DEF IInv

LEMMA NoLiquidityStep ==
  ASSUME IInv, NoLiquidity
  PROVE  IInv'
<1>1. /\ stage = "splitting" /\ amountRemaining > 0 /\ Candidates = {}
      /\ stage' = "done"
      /\ UNCHANGED <<listed, edges, policies, receiveAmt, amountRemaining,
                     remainingBalances, fee, sent, series>>
  BY DEF NoLiquidity, answers
<1>2. TypeOK'
  BY <1>1 DEF IInv, TypeOK
<1>3. ShapeInv' /\ ShardsInv' /\ EmptiedInv' /\ PoliciesInv'
  <2>1. External' = External
    BY <1>1 DEF External
  <2>2. ShapeInv'
    BY <1>1, <2>1 DEF IInv, ShapeInv
  <2>3. ShardsInv'
    BY <1>1, <2>1 DEF IInv, ShardsInv
  <2>4. EmptiedInv' /\ PoliciesInv'
    BY <1>1 DEF IInv, EmptiedInv, PoliciesInv, NoShards
  <2> QED BY <2>2, <2>3, <2>4
<1>4. SeriesInv'
  BY <1>1 DEF IInv, SeriesInv, AmountAt, Liquidity, Usable, Candidates
<1> QED BY <1>2, <1>3, <1>4 DEF IInv

LEMMA Invariance == Spec => []IInv
<1>1. IInv /\ [Next]_vars => IInv'
  <2> SUFFICES ASSUME IInv, [Next]_vars PROVE IInv'
    OBVIOUS
  <2>1. CASE UNCHANGED vars
    <3>1. UNCHANGED <<listed, edges, stage, policies, receiveAmt, amountRemaining,
                      remainingBalances, fee, sent, series>>
      BY <2>1 DEF vars
    <3>2. TypeOK'
      BY <3>1 DEF IInv, TypeOK
    <3>3. ShapeInv' /\ ShardsInv' /\ EmptiedInv' /\ PoliciesInv'
      <4>1. External' = External
        BY <3>1 DEF External
      <4>2. ShapeInv'
        BY <3>1, <4>1 DEF IInv, ShapeInv
      <4>3. ShardsInv'
        BY <3>1, <4>1 DEF IInv, ShardsInv
      <4>4. EmptiedInv' /\ PoliciesInv'
        BY <3>1 DEF IInv, EmptiedInv, PoliciesInv, NoShards
      <4> QED BY <4>2, <4>3, <4>4
    <3>4. SeriesInv'
      BY <3>1 DEF IInv, SeriesInv, AmountAt, Liquidity, Usable, Candidates
    <3> QED BY <3>2, <3>3, <3>4 DEF IInv
  <2> QED
    BY <2>1, PoliciesStep, SendStep, ExportStep, NoLiquidityStep DEF Next
<1> QED BY InitInv, <1>1, PTL DEF Spec

-----------------------------------------------------------------------------
(* The theorems                                                            *)

(* The types: no amount is negative, in particular no balance is overdrawn.*)
THEOREM TypeCorrect == Spec => []TypeOK
<1>1. IInv => TypeOK
  BY DEF IInv
<1> QED BY Invariance, <1>1, PTL

(* approximateInboundFee makes a split that the peers could make: over     *)
(* usable channels, none beyond its balance, and of no more than one shard *)
(* that does not empty its channel. The products may overflow: which       *)
(* channel is taken is nothing the proof depends on.                       *)
THEOREM SplitsArePossible == Spec => []SplitIsPossible
<1>1. IInv => SplitIsPossible
  <2> SUFFICES ASSUME IInv PROVE SplitIsPossible
    OBVIOUS
  <2>1. TypeOK /\ ShapeInv /\ ShardsInv /\ EmptiedInv
    BY DEF IInv
  <2>2. DOMAIN sent \subseteq Usable
    BY <2>1, UsableIs DEF ShardsInv
  <2>3. ASSUME NEW c \in DOMAIN sent
        PROVE  /\ sent[c] \in 1..listed[c].remoteBalance
               /\ remainingBalances[c] = 0 <=> ~(sent[c] < listed[c].remoteBalance)
    <3>1. c \in External /\ sent[c] \in Nat \ {0}
      BY <2>1 DEF ShardsInv
    <3>2. remainingBalances[c] + sent[c] = listed[c].remoteBalance
      BY <2>1, <3>1 DEF ShardsInv
    <3>3. remainingBalances[c] \in Nat
      BY <2>1, <3>1 DEF ShapeInv
    <3>4. listed[c].remoteBalance \in Nat
      BY <2>1, <3>1, ListedType
    <3> QED BY <3>1, <3>2, <3>3, <3>4
  <2>4. SumFunction(sent) = receiveAmt - amountRemaining
    BY <2>1, SentAndLiquidity DEF ShardsInv, TypeOK
  <2>5. Cardinality({c \in DOMAIN sent : sent[c] < listed[c].remoteBalance}) <= 1
    <3>1. PICK last : \A c \in DOMAIN sent \ {last} : remainingBalances[c] = 0
      BY <2>1 DEF EmptiedInv
    <3>2. PICK T : T = {c \in DOMAIN sent : sent[c] < listed[c].remoteBalance}
      OBVIOUS
    <3>3. T = {} \/ T = {last}
      BY <2>3, <3>1, <3>2
    <3>4. Cardinality({}) = 0 /\ Cardinality({last}) = 1
      BY FS_EmptySet, FS_Singleton
    <3>5. Cardinality(T) = 0 \/ Cardinality(T) = 1
      BY <3>3, <3>4, Zenon
    <3> QED BY <3>2, <3>5
  <2> QED BY <2>2, <2>3, <2>4, <2>5 DEF SplitIsPossible
<1> QED BY Invariance, <1>1, PTL

(* The series of exported amounts begins with the first amount, doubles,   *)
(* and ends just when an amount is more than the liquidity: none that could*)
(* be sent is missing, which the greedy choice does not endanger since it  *)
(* gives up only when every usable channel is empty.                       *)
THEOREM SeriesAreComplete == Spec => []SeriesIsComplete
<1>1. IInv => SeriesIsComplete
  <2> SUFFICES ASSUME IInv, stage = "done" PROVE SeriesIsComplete
    BY DEF SeriesIsComplete
  <2>1. /\ amountRemaining > 0 /\ Candidates = {}
        /\ receiveAmt = AmountAt(Len(series) + 1)
        /\ \A i \in 1..Len(series) : /\ series[i].amt = AmountAt(i)
                                     /\ series[i].amt <= Liquidity
    BY DEF IInv, SeriesInv
  <2>2. /\ Liquidity <= SumFunction(sent) /\ SumFunction(sent) \in Nat
        /\ Liquidity \in Nat
    BY <2>1, SentAndLiquidity DEF IInv
  <2>3. SumFunction(sent) + amountRemaining = receiveAmt /\ amountRemaining \in Nat
    BY DEF IInv, ShardsInv, TypeOK
  <2>4. receiveAmt > Liquidity
    BY <2>1, <2>2, <2>3
  <2> QED BY <2>1, <2>4 DEF SeriesIsComplete
<1> QED BY Invariance, <1>1, PTL

-----------------------------------------------------------------------------
(* Arithmetic                                                              *)

LEMMA Modulus ==
  ASSUME NEW x \in Nat, NEW y \in Nat, x < y
  PROVE  x % y = x
OBVIOUS

LEMMA Rounded ==
  ASSUME NEW n \in Nat
  PROVE  /\ n \div 1000000 \in Nat
         /\ 1000000 * (n \div 1000000) <= n
         /\ n <= 1000000 * (n \div 1000000) + 999999
OBVIOUS

LEMMA Cancelled ==
  ASSUME NEW x \in Int, NEW y \in Int, NEW a \in Nat \ {0}, x * a <= y * a
  PROVE  x <= y
OBVIOUS

LEMMA Grows ==
  ASSUME NEW x \in Int, NEW y \in Int, NEW a \in Nat, x <= y
  PROVE  x * a <= y * a
OBVIOUS

LEMMA ProductNat ==
  ASSUME NEW x \in Nat, NEW y \in Nat
  PROVE  x * y \in Nat
OBVIOUS

LEMMA WrapFits ==
  ASSUME NEW n \in Nat, n <= MaxInt
  PROVE  Wrap(n) = n
<1>1. /\ n + MaxInt + 1 \in Nat /\ 2 * (MaxInt + 1) \in Nat /\ MaxInt \in Nat
      /\ n + MaxInt + 1 < 2 * (MaxInt + 1)
  BY MaxIntAssumption
<1>2. (n + MaxInt + 1) % (2 * (MaxInt + 1)) = n + MaxInt + 1
  BY <1>1, Modulus
<1>3. (n + MaxInt + 1) - (MaxInt + 1) = n
  BY <1>1
<1> QED BY <1>2, <1>3 DEF Wrap
-----------------------------------------------------------------------------
(* What a shard costs                                                      *)

(* BOLT 7 sends both fees as unsigned integers.                            *)
FeesAreUnsigned ==
  \A e \in Edges : e.node1.base \in Nat /\ e.node1.rate \in Nat

(* The proportional fee for an amount on a channel                         *)
Proportion(c, amt) == (amt * policies[c].rate) \div 1000000
Fee(c, amt) == policies[c].base \div 1000 + Proportion(c, amt)

(* The fee is that of the shards.                                          *)
FeeInv ==
  /\ DOMAIN sent = {} => fee = 0
  /\ ProductsFit => fee = FeeOf(sent)

(* If fees are proportional, then no shard costs more than the same amount *)
(* would at the rate of any channel that still has something left, for     *)
(* that channel was a candidate when the shard was sent.                   *)
Proportional == \A c \in Usable : policies[c].base < 1000
CheapInv ==
  ProductsFit /\ Proportional =>
    \A c \in DOMAIN sent, d \in Usable :
      remainingBalances[d] # 0 =>
        1000000 * Proportion(c, sent[c]) <= sent[c] * policies[d].rate

LEMMA PolicyType ==
  ASSUME FeesAreUnsigned, ShapeInv, NEW c \in DOMAIN policies
  PROVE  /\ policies[c].base \in Nat /\ policies[c].rate \in Nat
         /\ policies[c].base \div 1000 \in Nat
         /\ policies[c].base < 1000 => policies[c].base \div 1000 = 0
         /\ \A amt \in Nat : /\ amt * policies[c].rate \in Nat
                             /\ Proportion(c, amt) \in Nat
                             /\ Fee(c, amt) \in Nat
<1>1. PICK e \in Edges : policies[c] = PolicyOf(e)
  BY DEF ShapeInv
<1>2. policies[c].base \in Nat /\ policies[c].rate \in Nat
  BY <1>1 DEF FeesAreUnsigned, PolicyOf
<1>3. /\ policies[c].base \div 1000 \in Nat
      /\ policies[c].base < 1000 => policies[c].base \div 1000 = 0
  BY <1>2
<1>4. ASSUME NEW amt \in Nat
      PROVE  /\ amt * policies[c].rate \in Nat
             /\ Proportion(c, amt) \in Nat
             /\ Fee(c, amt) \in Nat
  <2>1. amt * policies[c].rate \in Nat
    BY <1>2, ProductNat
  <2>2. Proportion(c, amt) \in Nat
    BY <2>1, Rounded DEF Proportion
  <2> QED BY <1>3, <2>1, <2>2 DEF Fee
<1> QED BY <1>2, <1>3, <1>4

(* Where the products fit, a shard costs what its policy asks.             *)
LEMMA ShardFeeIs ==
  ASSUME TypeOK, ShapeInv, ShardsInv, FeesAreUnsigned, ProductsFit,
         amountRemaining > 0, NEW c \in Candidates
  PROVE  /\ c \in Usable /\ AmountToSend(c) \in Nat \ {0}
         /\ ShardFee(c) = Fee(c, AmountToSend(c))
<1>1. /\ c \in External /\ c \in DOMAIN policies
      /\ remainingBalances[c] \in Nat \ {0}
  BY DEF Candidates, ShapeInv
<1>2. c \in Usable
  BY <1>1, UsableIs
<1>3. amountRemaining \in Nat \ {0} /\ receiveAmt \in Nat
      /\ amountRemaining <= receiveAmt
  BY DEF TypeOK
<1>4. /\ AmountToSend(c) \in Nat \ {0}
      /\ AmountToSend(c) <= amountRemaining
      /\ AmountToSend(c) <= remainingBalances[c]
  BY <1>1, <1>3 DEF AmountToSend
<1>5. remainingBalances[c] <= listed[c].remoteBalance
  <2>1. remainingBalances[c] + (IF c \in DOMAIN sent THEN sent[c] ELSE 0)
          = listed[c].remoteBalance
    BY <1>1 DEF ShardsInv
  <2>2. c \in DOMAIN sent => sent[c] \in Nat
    BY DEF ShardsInv
  <2> QED BY <1>1, <2>1, <2>2
<1> DEFINE a == AmountToSend(c)
           n == a * policies[c].rate
<1>6. listed[c].remoteBalance \in Nat
  BY <1>1, ListedType
<1> HIDE DEF a
<1>7. a \in 0..receiveAmt /\ a <= listed[c].remoteBalance
  BY <1>1, <1>3, <1>4, <1>5, <1>6 DEF a
<1>8. n <= MaxInt
  BY <1>2, <1>7 DEF ProductsFit
<1>9. n \in Nat /\ policies[c].base \in Nat
  BY <1>1, <1>4, PolicyType DEF a
<1> HIDE DEF n
<1>10. Wrap(n) = n
  BY <1>8, <1>9, WrapFits
<1>11. Quotient(n, 1000000) = n \div 1000000
  BY <1>9 DEF Quotient
<1>12. Quotient(policies[c].base, 1000) = policies[c].base \div 1000
  BY <1>9 DEF Quotient
<1>13. ForwardFee(policies[c], a) = Fee(c, a)
  BY <1>10, <1>11, <1>12 DEF ForwardFee, Fee, Proportion, n
<1> QED BY <1>2, <1>4, <1>13 DEF ShardFee, a

(* The sum that FeeOf takes is over the channels that send something.      *)
LEMMA FeeOfShards ==
  ASSUME NEW s, NEW T, T = {c \in DOMAIN s : s[c] # 0}
  PROVE  FeeOf(s) = SumFunction([c \in T |-> Fee(c, s[c])])
<1> DEFINE f == [c \in {d \in DOMAIN s : s[d] # 0} |->
                   policies[c].base \div 1000
                     + (s[c] * policies[c].rate) \div 1000000]
<1>1. FeeOf(s) = SumFunction(f)
  BY DEF FeeOf
<1>2. f = [c \in T |-> Fee(c, s[c])]
  BY DEF Fee, Proportion
<1> HIDE DEF f
<1> QED BY <1>1, <1>2

LEMMA ProductsFitSame ==
  ASSUME UNCHANGED <<listed, policies, receiveAmt>>
  PROVE  /\ ProductsFit' <=> ProductsFit
         /\ Proportional' <=> Proportional
         /\ Usable' = Usable
<1>1. Usable' = Usable
  BY DEF Usable
<1> QED BY <1>1 DEF ProductsFit, Proportional

CostInv == FeeInv /\ CheapInv

LEMMA NoShardsCost ==
  ASSUME sent = NoShards, fee = 0
  PROVE  CostInv
<1>1. DOMAIN sent = {}
  BY NoShardsSum
<1>2. FeeOf(sent) = 0
  <2>1. {d \in DOMAIN sent : sent[d] # 0} = {}
    BY <1>1
  <2> DEFINE costs == [c \in {d \in DOMAIN sent : sent[d] # 0} |->
                         policies[c].base \div 1000
                           + (sent[c] * policies[c].rate) \div 1000000]
  <2>2. DOMAIN costs = {}
    BY <2>1
  <2>3. FeeOf(sent) = SumFunction(costs)
    BY DEF FeeOf
  <2> HIDE DEF costs
  <2> QED BY <2>2, <2>3, SumOfNone
<1> QED BY <1>1, <1>2 DEF CostInv, FeeInv, CheapInv

LEMMA SendCost ==
  ASSUME IInv, CostInv, FeesAreUnsigned, NEW c \in Channels, SendShard(c)
  PROVE  CostInv'
<1> DEFINE a == AmountToSend(c)
<1>1. /\ stage = "splitting" /\ amountRemaining > 0 /\ c \in Best
      /\ fee' = fee + ShardFee(c)
      /\ remainingBalances' = [remainingBalances EXCEPT ![c] = @ - a]
      /\ UNCHANGED <<listed, edges, stage, policies, receiveAmt, series>>
  BY DEF SendShard, answers
<1>2. /\ c \in External \cap DOMAIN policies
      /\ remainingBalances[c] \in Nat \ {0} /\ a \in Nat \ {0}
  BY <1>1, ShardType DEF IInv
<1>3. c \notin DOMAIN sent
  BY <1>1, <1>2 DEF IInv, EmptiedInv
<1>4. /\ DOMAIN sent' = DOMAIN sent \cup {c} /\ sent'[c] = a
      /\ \A d \in DOMAIN sent : sent'[d] = sent[d] /\ sent[d] \in Nat \ {0}
  <2>1. sent' = [d \in DOMAIN sent \cup {c} |->
                   (IF d = c THEN a ELSE 0)
                     + (IF d \in DOMAIN sent THEN sent[d] ELSE 0)]
    BY DEF SendShard
  <2>2. \A d \in DOMAIN sent : sent[d] \in Nat \ {0}
    BY DEF IInv, ShardsInv
  <2> HIDE DEF a
  <2> QED BY <1>2, <1>3, <2>1, <2>2
<1>5. /\ ProductsFit' <=> ProductsFit
      /\ Proportional' <=> Proportional
      /\ Usable' = Usable
  BY <1>1, ProductsFitSame
<1>6. /\ TypeOK /\ ShapeInv /\ ShardsInv /\ IsFiniteSet(DOMAIN sent)
      /\ DOMAIN sent \subseteq DOMAIN policies
  BY SentAndLiquidity DEF IInv, ShardsInv
<1>7. ASSUME ProductsFit
      PROVE  /\ \A d \in Candidates : /\ d \in Usable
                                      /\ AmountToSend(d) \in Nat \ {0}
                                      /\ ShardFee(d) = Fee(d, AmountToSend(d))
             /\ ShardFee(c) = Fee(c, a)
  <2>1. c \in Candidates
    BY <1>1 DEF Best
  <2> QED BY <1>1, <1>6, <1>7, <2>1, ShardFeeIs
<1> HIDE DEF a
<1>8. FeeInv'
  <2>1. DOMAIN sent' # {}
    BY <1>4
  <2>2. ASSUME ProductsFit PROVE fee' = FeeOf(sent)'
    <3> DEFINE old == [d \in DOMAIN sent |-> Fee(d, sent[d])]
               new == [d \in DOMAIN sent' |-> Fee(d, sent'[d])]
    <3>1. FeeOf(sent) = SumFunction(old)
      <4>1. DOMAIN sent = {d \in DOMAIN sent : sent[d] # 0}
        BY <1>4
      <4> QED BY <4>1, FeeOfShards
    <3>2. FeeOf(sent)' = SumFunction(new)
      <4>1. DOMAIN sent' = {d \in DOMAIN sent' : sent'[d] # 0}
        BY <1>2, <1>4
      <4>2. FeeOf(sent') = SumFunction(new)
        BY <4>1, FeeOfShards
      <4>3. FeeOf(sent)' = FeeOf(sent')
        BY <1>1 DEF FeeOf
      <4> QED BY <4>2, <4>3
    <3>3. /\ IsFiniteSet(DOMAIN old) /\ c \notin DOMAIN old
          /\ DOMAIN new = DOMAIN old \cup {c}
          /\ new[c] = Fee(c, a)
          /\ \A d \in DOMAIN old : new[d] = old[d] /\ old[d] = Fee(d, sent[d])
      BY <1>3, <1>4, <1>6
    <3>4. /\ \A d \in DOMAIN sent : Fee(d, sent[d]) \in Nat
          /\ Fee(c, a) \in Nat
      BY <1>2, <1>4, <1>6, PolicyType
    <3>5. \A d \in DOMAIN old : old[d] \in Int
      BY <3>3, <3>4
    <3> HIDE DEF old, new
    <3>6. SumFunction(new) = SumFunction(old) + new[c]
      BY <3>3, <3>4, <3>5, SumOfMore
    <3>7. fee = SumFunction(old)
      BY <2>2, <3>1 DEF CostInv, FeeInv
    <3> QED BY <1>1, <1>7, <2>2, <3>2, <3>3, <3>6, <3>7
  <2> QED BY <1>5, <2>1, <2>2 DEF FeeInv
<1>9. CheapInv'
  <2> SUFFICES ASSUME ProductsFit, Proportional,
                      NEW b \in DOMAIN sent', NEW d \in Usable,
                      remainingBalances'[d] # 0
               PROVE  1000000 * Proportion(b, sent'[b])
                        <= sent'[b] * policies[d].rate
    BY <1>1, <1>5 DEF CheapInv, Proportion
  <2>1. /\ d \in External /\ d \in DOMAIN policies
        /\ remainingBalances[d] # 0 /\ d \in Candidates
    <3>1. d \in External /\ d \in DOMAIN policies
      BY UsableIs
    <3>2. remainingBalances \in [External -> Nat]
      BY <1>6 DEF ShapeInv
    <3>3. remainingBalances[d] # 0
      BY <1>1, <1>2, <3>1, <3>2
    <3> QED BY <3>1, <3>2, <3>3 DEF Candidates
  <2>2. CASE b \in DOMAIN sent
    <3>1. 1000000 * Proportion(b, sent[b]) <= sent[b] * policies[d].rate
      BY <2>1, <2>2 DEF CostInv, CheapInv
    <3> QED BY <1>4, <2>2, <3>1
  <2>3. CASE b = c
    <3> DEFINE e == AmountToSend(d)
               p == Proportion(c, a)
               q == Proportion(d, e)
               r == policies[d].rate
    <3>1. ShardFee(c) * e <= ShardFee(d) * a
      BY <1>1, <2>1 DEF Best, a
    <3>2. /\ ShardFee(c) = Fee(c, a) /\ ShardFee(d) = Fee(d, e)
          /\ e \in Nat \ {0} /\ c \in Usable
      BY <1>2, <1>7, <2>1, UsableIs
    <3>3. /\ policies[c].base \div 1000 = 0 /\ policies[d].base \div 1000 = 0
          /\ p \in Nat /\ q \in Nat /\ r \in Nat /\ e * r \in Nat
      <4>1. policies[c].base < 1000 /\ policies[d].base < 1000
        BY <3>2 DEF Proportional
      <4>2. policies[c].base \div 1000 = 0 /\ p \in Nat
        BY <1>2, <1>6, <4>1, PolicyType
      <4>3. /\ policies[d].base \div 1000 = 0
            /\ q \in Nat /\ r \in Nat /\ e * r \in Nat
        BY <1>6, <2>1, <3>2, <4>1, PolicyType
      <4> QED BY <4>2, <4>3
    <3>4. 1000000 * q <= e * r
      BY <3>3, Rounded DEF Proportion
    <3> HIDE DEF e, p, q, r
    <3>5. Fee(c, a) = p /\ Fee(d, e) = q
      BY <3>3 DEF Fee, p, q
    <3>6. p * e <= q * a
      BY <3>1, <3>2, <3>5
    <3>7. (1000000 * p) * e <= (a * r) * e
      <4>1. (1000000 * q) * a <= (e * r) * a
        BY <1>2, <3>2, <3>3, <3>4, Grows
      <4>2. /\ (1000000 * p) * e = 1000000 * (p * e)
            /\ (1000000 * q) * a = 1000000 * (q * a)
            /\ (e * r) * a = (a * r) * e
        BY <1>2, <3>2, <3>3
      <4>3. p * e \in Int /\ q * a \in Int /\ (a * r) * e \in Int
        BY <1>2, <3>2, <3>3
      <4>4. 1000000 * (p * e) <= 1000000 * (q * a)
        BY <3>6, <4>3
      <4> QED BY <4>1, <4>2, <4>3, <4>4
    <3>8. 1000000 * p <= a * r
      <4>1. 1000000 * p \in Int /\ a * r \in Int
        BY <1>2, <3>3
      <4> QED BY <3>2, <3>7, <4>1, Cancelled
    <3> QED BY <1>4, <2>3, <3>8 DEF p, r
  <2> QED BY <1>4, <2>2, <2>3
<1> QED BY <1>8, <1>9 DEF CostInv
LEMMA CostInvariance ==
  ASSUME FeesAreUnsigned
  PROVE  Spec => [](IInv /\ CostInv)
<1>1. sent = NoShards /\ fee = 0 => CostInv
  BY NoShardsCost
<1>2. (sent = NoShards /\ fee = 0 => CostInv)'
  BY <1>1, PTL
<1>3. Init => CostInv
  BY <1>1 DEF Init
<1>4. IInv /\ CostInv /\ [Next]_vars => CostInv'
  <2> SUFFICES ASSUME IInv, CostInv, [Next]_vars PROVE CostInv'
    OBVIOUS
  <2>1. CASE GetRemotePolicies \/ NotOurChannel
    <3>1. stage = "policies" /\ sent' = sent /\ fee' = fee
      BY <2>1 DEF GetRemotePolicies, NotOurChannel
    <3>2. sent = NoShards
      BY <3>1 DEF IInv, PoliciesInv
    <3>3. fee = 0
      BY <3>2, NoShardsSum DEF CostInv, FeeInv
    <3>4. sent' = NoShards' /\ fee' = 0
      BY <3>1, <3>2, <3>3 DEF NoShards
    <3> QED BY <1>2, <3>4
  <2>2. ASSUME NEW c \in Channels, SendShard(c) PROVE CostInv'
    BY <2>2, SendCost
  <2>3. CASE ExportFee
    <3>1. sent' = NoShards' /\ fee' = 0
      BY <2>3 DEF ExportFee, NoShards
    <3> QED BY <1>2, <3>1
  <2>4. CASE NoLiquidity \/ UNCHANGED vars
    <3>1. UNCHANGED <<listed, policies, receiveAmt, remainingBalances, fee, sent>>
      BY <2>4 DEF NoLiquidity, answers, vars
    <3>2. /\ ProductsFit' <=> ProductsFit
          /\ Proportional' <=> Proportional
          /\ Usable' = Usable
      BY <3>1, ProductsFitSame
    <3>3. FeeOf(sent)' = FeeOf(sent)
      BY <3>1 DEF FeeOf
    <3> QED BY <3>1, <3>2, <3>3 DEF CostInv, FeeInv, CheapInv, Proportion
  <2> QED BY <2>1, <2>2, <2>3, <2>4 DEF Next
<1> QED BY Invariance, <1>3, <1>4, PTL DEF Spec

-----------------------------------------------------------------------------
(* The argument for a split that is found greedily                         *)

(* With proportional fees a split costs what its amounts do, channel by    *)
(* channel.                                                                *)
LEMMA ProportionalFee ==
  ASSUME TypeOK, ShapeInv, FeesAreUnsigned, Proportional,
         NEW s, DOMAIN s \subseteq Usable, \A c \in DOMAIN s : s[c] \in Nat,
         NEW o \in [Usable -> Nat],
         \A c \in Usable : o[c] = IF c \in DOMAIN s THEN s[c] ELSE 0
  PROVE  /\ FeeOf(s) = SumFunctionOnSet([c \in Usable |-> Proportion(c, o[c])],
                                        Usable)
         /\ \A c \in Usable : Proportion(c, o[c]) \in Nat
<1> DEFINE T == {c \in DOMAIN s : s[c] # 0}
           f == [c \in T |-> Fee(c, s[c])]
           h == [c \in Usable |-> Proportion(c, o[c])]
<1>1. /\ IsFiniteSet(Usable) /\ T \subseteq Usable
      /\ Usable \subseteq DOMAIN policies
  BY UsableIs, ListedType, FS_Subset
<1>2. IsFiniteSet(T)
  BY <1>1, FS_Subset
<1>3. FeeOf(s) = SumFunction(f)
  BY FeeOfShards
<1>4. ASSUME NEW c \in Usable
      PROVE  /\ h[c] = Proportion(c, o[c]) /\ h[c] \in Nat
             /\ h[c] = IF c \in T THEN f[c] ELSE 0
  <2>1. /\ Proportion(c, o[c]) \in Nat
        /\ policies[c].base \div 1000 = 0 /\ policies[c].rate \in Nat
    BY <1>1, PolicyType DEF Proportional
  <2>2. CASE c \in T
    <3>1. o[c] = s[c] /\ f[c] = Fee(c, s[c])
      BY <2>2
    <3>2. Fee(c, o[c]) = Proportion(c, o[c])
      BY <2>1 DEF Fee
    <3> QED BY <2>1, <2>2, <3>1, <3>2
  <2>3. CASE c \notin T
    <3>1. o[c] = 0
      BY <2>3
    <3>2. Proportion(c, 0) = 0
      BY <2>1 DEF Proportion
    <3> QED BY <2>1, <2>3, <3>1, <3>2
  <2> QED BY <2>2, <2>3
<1>5. \A c \in T : f[c] \in Nat
  <2>1. \A c \in T : h[c] = f[c] /\ h[c] \in Nat
    BY <1>1, <1>4
  <2> HIDE DEF h, f
  <2> QED BY <2>1
<1>6. DOMAIN f = T /\ DOMAIN h = Usable
  OBVIOUS
<1> HIDE DEF f, h, T
<1>7. SumFunction(h) = SumFunction(f)
  BY <1>1, <1>2, <1>4, <1>5, <1>6, SumOfNonZero
<1>8. SumFunction(h) = SumFunctionOnSet(h, Usable)
  BY <1>6, Zenon DEF SumFunction
<1>9. \A c \in Usable : Proportion(c, o[c]) \in Nat
  BY <1>4
<1> QED BY <1>3, <1>7, <1>8, <1>9 DEF h

(* There is a rate that divides the channels: nothing that was sent cost   *)
(* more, and what is left would not cost less.                             *)
LEMMA DividingRate ==
  ASSUME IInv, CostInv, FeesAreUnsigned, ProductsFit, Proportional
  PROVE  \E l \in Nat :
           /\ \A d \in Usable : remainingBalances[d] # 0 => l <= policies[d].rate
           /\ \A c \in DOMAIN sent :
                1000000 * Proportion(c, sent[c]) <= sent[c] * l
<1> DEFINE Rest == {d \in Usable : remainingBalances[d] # 0}
           Rates == {policies[d].rate : d \in Rest}
<1>1. /\ TypeOK /\ ShapeInv
      /\ DOMAIN sent \subseteq Usable /\ IsFiniteSet(Usable)
      /\ Usable \subseteq DOMAIN policies
      /\ \A c \in DOMAIN sent : sent[c] \in Nat
  BY UsableIs, ListedType, FS_Subset DEF IInv, ShardsInv
<1>2. \A c \in Usable : policies[c].rate \in Nat
  BY <1>1, PolicyType
<1>3. CASE Rest # {}
  <2>1. Rates \in SUBSET Nat /\ Rates # {}
    BY <1>2, <1>3
  <2>2. PICK l \in Rates : \A r \in Rates : l <= r
    BY <2>1, SmallestNat
  <2>3. PICK d \in Rest : l = policies[d].rate
    BY <2>2
  <2>4. \A c \in DOMAIN sent : 1000000 * Proportion(c, sent[c]) <= sent[c] * l
    BY <2>3 DEF CostInv, CheapInv
  <2>5. \A e \in Usable : remainingBalances[e] # 0 => l <= policies[e].rate
    BY <2>2
  <2>6. l \in Nat
    BY <2>1
  <2> QED BY <2>4, <2>5, <2>6
<1>4. CASE Rest = {}
  <2> DEFINE rates == [c \in Usable |-> policies[c].rate]
             l == SumFunction(rates)
  <2>1. DOMAIN rates = Usable /\ \A c \in Usable : rates[c] = policies[c].rate
    OBVIOUS
  <2> HIDE DEF rates
  <2>2. l \in Nat /\ \A c \in Usable : rates[c] <= l
    BY <1>1, <1>2, <2>1, SumOfNats, SumBoundsValue
  <2> HIDE DEF l
  <2>3. ASSUME NEW c \in DOMAIN sent
        PROVE  1000000 * Proportion(c, sent[c]) <= sent[c] * l
    <3> DEFINE r == policies[c].rate
               p == Proportion(c, sent[c])
    <3>1. /\ r \in Nat /\ r <= l /\ sent[c] \in Nat
          /\ sent[c] * r \in Nat /\ p \in Nat
      BY <1>1, <1>2, <2>1, <2>2, PolicyType
    <3>2. 1000000 * p <= sent[c] * r
      BY <3>1, Rounded DEF Proportion
    <3> HIDE DEF r, p
    <3>3. r * sent[c] <= l * sent[c]
      BY <2>2, <3>1, Grows
    <3>4. r * sent[c] = sent[c] * r /\ l * sent[c] = sent[c] * l
      BY <2>2, <3>1
    <3>5. sent[c] * l \in Int
      BY <2>2, <3>1
    <3>6. 1000000 * p <= sent[c] * l
      BY <3>1, <3>2, <3>3, <3>4, <3>5
    <3> QED BY <3>6 DEF p
  <2> QED BY <1>4, <2>2, <2>3
<1> QED BY <1>3, <1>4

(* Moving the amount from s to o is paid at the dividing rate l.           *)
LEMMA Moved ==
  ASSUME NEW p \in Nat, NEW o \in Nat, NEW s \in Nat, NEW r \in Nat,
         NEW l \in Nat, p <= o * r, p <= o * l, o < s => l <= r
  PROVE  p <= s * r + l * o + (-l) * s
<1>1. /\ o * r \in Int /\ o * l \in Int /\ s * r \in Int /\ s * l \in Int
      /\ l * o = o * l /\ (-l) * s = -(s * l)
  OBVIOUS
<1>2. CASE l <= r
  <2>1. l * s <= r * s
    BY <1>2, Grows
  <2>2. l * s = s * l /\ r * s = s * r
    OBVIOUS
  <2> QED BY <1>1, <2>1, <2>2
<1>3. CASE r < l
  <2>1. o - s \in Nat
    BY <1>3
  <2>2. r * (o - s) <= l * (o - s)
    BY <1>3, <2>1, Grows
  <2>3. r * (o - s) = o * r - s * r /\ l * (o - s) = o * l - s * l
    OBVIOUS
  <2> QED BY <1>1, <2>2, <2>3
<1> QED BY <1>2, <1>3
LEMMA GreedyIsNear ==
  ASSUME IInv, CostInv, FeesAreUnsigned, amountRemaining = 0, ProductsFit,
         Proportional, NEW s \in Splits(receiveAmt)
  PROVE  fee < FeeOf(s) + Cardinality({c \in Usable : s[c] # 0})
<1> DEFINE o == [c \in Usable |-> IF c \in DOMAIN sent THEN sent[c] ELSE 0]
           f == [c \in Usable |-> Proportion(c, o[c])]
           g == [c \in Usable |-> Proportion(c, s[c])]
           k == [c \in Usable |-> s[c] * policies[c].rate]
           n == [c \in Usable |-> IF s[c] # 0 THEN 1 ELSE 0]
           Sum(h) == SumFunctionOnSet(h, Usable)
<1>1. /\ TypeOK /\ ShapeInv /\ ShardsInv /\ receiveAmt \in Nat \ {0}
      /\ IsFiniteSet(Usable) /\ Usable \subseteq External
      /\ Usable \subseteq DOMAIN policies
      /\ DOMAIN sent \subseteq Usable /\ IsFiniteSet(DOMAIN sent)
      /\ \A c \in DOMAIN sent : sent[c] \in Nat
  BY UsableIs, ListedType, FS_Subset DEF IInv, ShardsInv, TypeOK
<1>2. /\ DOMAIN s = Usable
      /\ \A c \in Usable : s[c] \in Nat /\ s[c] <= listed[c].remoteBalance
      /\ SumFunction(s) = receiveAmt
  BY <1>1 DEF Splits
<1>3. /\ o \in [Usable -> Nat] /\ DOMAIN o = Usable
      /\ \A c \in Usable : o[c] = IF c \in DOMAIN sent THEN sent[c] ELSE 0
  BY <1>1
<1>4. \A c \in Usable : /\ f[c] = Proportion(c, o[c]) /\ g[c] = Proportion(c, s[c])
                        /\ k[c] = s[c] * policies[c].rate
                        /\ n[c] = IF s[c] # 0 THEN 1 ELSE 0
  OBVIOUS
<1>5. fee = Sum(f) /\ \A c \in Usable : f[c] \in Nat
  <2>1. /\ FeeOf(sent) = SumFunctionOnSet([c \in Usable |-> Proportion(c, o[c])],
                                          Usable)
        /\ \A c \in Usable : Proportion(c, o[c]) \in Nat
    <3> HIDE DEF o
    <3> QED BY <1>1, <1>3, ProportionalFee
  <2>2. fee = FeeOf(sent)
    BY DEF CostInv, FeeInv
  <2> QED BY <2>1, <2>2
<1>6. FeeOf(s) = Sum(g) /\ \A c \in Usable : g[c] \in Nat
  <2>1. s \in [Usable -> Nat]
    BY <1>2 DEF Splits
  <2>2. \A c \in Usable : s[c] = IF c \in DOMAIN s THEN s[c] ELSE 0
    BY <1>2
  <2>3. /\ FeeOf(s) = SumFunctionOnSet([c \in Usable |-> Proportion(c, s[c])],
                                       Usable)
        /\ \A c \in Usable : Proportion(c, s[c]) \in Nat
    BY <1>1, <1>2, <2>1, <2>2, ProportionalFee
  <2> QED BY <2>3
<1> HIDE DEF o, f, g, k, n
<1>7. Sum(o) = receiveAmt /\ Sum(s) = receiveAmt
  <2>1. SumFunction(o) = SumFunction(sent)
    BY <1>1, <1>3, SumOfNonZero
  <2>2. SumFunction(sent) \in Nat
    BY <1>1, SumOfNats
  <2>3. SumFunction(sent) = receiveAmt
    BY <1>1, <2>2 DEF ShardsInv
  <2>4. SumFunction(o) = Sum(o) /\ SumFunction(s) = Sum(s)
    BY <1>2, <1>3, Zenon DEF SumFunction
  <2> QED BY <1>2, <2>1, <2>3, <2>4
<1>8. \A c \in Usable : /\ policies[c].rate \in Nat /\ k[c] \in Nat
                        /\ n[c] \in {0, 1}
  BY <1>1, <1>2, <1>4, PolicyType
<1>9. /\ Sum(f) \in Int /\ Sum(g) \in Int /\ Sum(k) \in Int /\ Sum(n) \in Int
  <2>1. \A c \in Usable : /\ f[c] \in Int /\ g[c] \in Int
                          /\ k[c] \in Int /\ n[c] \in Int
    BY <1>5, <1>6, <1>8
  <2> QED BY <1>1, <2>1, SumType
(* The split that was found costs no more than the rates of s do,          *)
<1>10. 1000000 * Sum(f) <= Sum(k)
  <2>1. PICK l \in Nat :
          /\ \A d \in Usable : remainingBalances[d] # 0 => l <= policies[d].rate
          /\ \A c \in DOMAIN sent :
               1000000 * Proportion(c, sent[c]) <= sent[c] * l
    BY DividingRate
  <2>2. ASSUME NEW c \in Usable
        PROVE  1000000 * f[c] <= 1 * k[c] + l * o[c] + (-l) * s[c]
    <3> DEFINE p == f[c]
               r == policies[c].rate
    <3>1. /\ p \in Nat /\ o[c] \in Nat /\ s[c] \in Nat /\ r \in Nat
          /\ o[c] * r \in Nat /\ p = Proportion(c, o[c])
      BY <1>1, <1>2, <1>3, <1>4, <1>5, PolicyType
    <3>2. 1000000 * p <= o[c] * r
      BY <3>1, Rounded DEF Proportion
    <3>3. 1000000 * p <= o[c] * l
      <4>1. CASE c \in DOMAIN sent
        BY <1>3, <2>1, <3>1, <4>1
      <4>2. CASE c \notin DOMAIN sent
        <5>1. o[c] = 0
          BY <1>3, <4>2
        <5>2. 0 * r = 0 /\ 0 * l = 0
          BY <3>1
        <5> HIDE DEF p, r
        <5> QED BY <3>1, <3>2, <5>1, <5>2
      <4> QED BY <4>1, <4>2
    <3>4. o[c] < s[c] => l <= r
      <4> SUFFICES ASSUME o[c] < s[c] PROVE remainingBalances[c] # 0
        BY <2>1
      <4>1. remainingBalances[c] + o[c] = listed[c].remoteBalance
        BY <1>1, <1>3 DEF ShardsInv
      <4>2. remainingBalances[c] \in Nat /\ listed[c].remoteBalance \in Nat
        BY <1>1, ListedType DEF ShapeInv
      <4> QED BY <1>2, <3>1, <4>1, <4>2
    <3>5. k[c] = s[c] * r
      BY <1>4
    <3> HIDE DEF p, r
    <3>6. PICK t \in Nat : t = 1000000 * p
      BY <3>1
    <3>7. t <= o[c] * r /\ t <= o[c] * l
      BY <3>2, <3>3, <3>6
    <3>8. t <= s[c] * r + l * o[c] + (-l) * s[c]
      BY <3>1, <3>4, <3>7, Moved
    <3>9. s[c] * r \in Int
      BY <3>1
    <3> QED BY <3>5, <3>6, <3>8, <3>9 DEF p
  <2>3. \A c \in Usable : /\ f[c] \in Int /\ k[c] \in Int
                          /\ o[c] \in Int /\ s[c] \in Int
    BY <1>2, <1>3, <1>5, <1>8
  <2>4. 1000000 * Sum(f) <= 1 * Sum(k) + l * Sum(o) + (-l) * Sum(s)
    <3>1. PICK a \in Int : a = 1000000
      OBVIOUS
    <3>2. PICK b \in Int : b = 1
      OBVIOUS
    <3>3. PICK m \in Int : m = -l
      OBVIOUS
    <3>4. \A c \in Usable : /\ f[c] \in Int /\ k[c] \in Int
                            /\ o[c] \in Int /\ s[c] \in Int
                            /\ a * f[c] <= b * k[c] + l * o[c] + m * s[c]
      BY <2>2, <2>3, <3>1, <3>2, <3>3
    <3>5. l \in Int
      OBVIOUS
    <3> HIDE DEF f, k, o
    <3>6. a * Sum(f) <= b * Sum(k) + l * Sum(o) + m * Sum(s)
      BY <1>1, <3>4, <3>5, SumsKeepInequality
    <3> HIDE DEF Sum
    <3> QED BY <3>1, <3>2, <3>3, <3>6
  <2>5. l * receiveAmt + (-l) * receiveAmt = 0
        /\ l * receiveAmt \in Int /\ (-l) * receiveAmt \in Int
    BY <1>1
  <2> QED BY <1>7, <1>9, <2>4, <2>5
(* of which s itself saves less than a satoshi a shard by rounding down.   *)
<1>11. Sum(k) <= 1000000 * Sum(g) + 999999 * Sum(n)
  <2>1. ASSUME NEW c \in Usable
        PROVE  1 * k[c] <= 1000000 * g[c] + 999999 * n[c] + 0 * n[c]
    <3> DEFINE x == s[c] * policies[c].rate
    <3>1. /\ x \in Nat /\ k[c] = x /\ s[c] \in Nat /\ policies[c].rate \in Nat
          /\ g[c] = x \div 1000000 /\ g[c] \in Nat
      BY <1>1, <1>2, <1>4, <1>6, <1>8 DEF Proportion
    <3>2. CASE s[c] = 0
      <4>1. x = 0 /\ n[c] = 0
        BY <1>4, <3>1, <3>2
      <4> HIDE DEF x
      <4> QED BY <3>1, <4>1
    <3>3. CASE s[c] # 0
      <4>1. n[c] = 1
        BY <1>4, <3>3
      <4> HIDE DEF x
      <4>2. x <= 1000000 * (x \div 1000000) + 999999
        BY <3>1, Rounded
      <4> QED BY <3>1, <4>1, <4>2
    <3> QED BY <3>2, <3>3
  <2>2. \A c \in Usable : g[c] \in Int /\ k[c] \in Int /\ n[c] \in Int
    BY <1>6, <1>8
  <2>3. 1 * Sum(k) <= 1000000 * Sum(g) + 999999 * Sum(n) + 0 * Sum(n)
    <3>1. PICK a \in Int : a = 1
      OBVIOUS
    <3>2. PICK b \in Int : b = 1000000
      OBVIOUS
    <3>3. PICK m \in Int : m = 999999
      OBVIOUS
    <3>4. PICK z \in Int : z = 0
      OBVIOUS
    <3>5. \A c \in Usable : /\ k[c] \in Int /\ g[c] \in Int /\ n[c] \in Int
                            /\ a * k[c] <= b * g[c] + m * n[c] + z * n[c]
      BY <2>1, <2>2, <3>1, <3>2, <3>3, <3>4
    <3>6. a * Sum(k) <= b * Sum(g) + m * Sum(n) + z * Sum(n)
      BY <1>1, <3>5, SumsKeepInequality
    <3> HIDE DEF Sum
    <3> QED BY <3>1, <3>2, <3>3, <3>4, <3>6
  <2> QED BY <1>9, <2>3
<1>12. Sum(n) = Cardinality({c \in Usable : s[c] # 0})
  <2>1. Sum(n) = Cardinality({c \in Usable : n[c] = 1})
    BY <1>1, <1>8, SumOfOnes
  <2>2. {c \in Usable : n[c] = 1} = {c \in Usable : s[c] # 0}
    BY <1>4
  <2> QED BY <2>1, <2>2
<1>13. Sum(n) >= 1
  <2>1. \E c \in Usable : s[c] # 0
    <3> SUFFICES ASSUME \A c \in Usable : s[c] = 0 PROVE FALSE
      OBVIOUS
    <3> DEFINE none == [x \in {} |-> 0]
    <3>1. DOMAIN none = {} /\ SumFunction(none) = 0 /\ IsFiniteSet(DOMAIN none)
      BY SumOfNone, FS_EmptySet
    <3> HIDE DEF none
    <3>2. SumFunction(s) = SumFunction(none)
      BY <1>1, <1>2, <3>1, SumOfNonZero
    <3> QED BY <1>1, <1>2, <3>1, <3>2
  <2>2. PICK c \in Usable : s[c] # 0
    BY <2>1
  <2>3. n[c] = 1 /\ DOMAIN n = Usable
    BY <1>4, <2>2 DEF n
  <2>4. n[c] <= SumFunction(n)
    <3>1. \A x \in DOMAIN n : n[x] \in Nat
      BY <1>8, <2>3
    <3> QED BY <1>1, <2>3, <3>1, SumBoundsValue
  <2>5. SumFunction(n) = Sum(n)
    BY <2>3, Zenon DEF SumFunction
  <2> QED BY <1>9, <2>3, <2>4, <2>5
<1> HIDE DEF Sum
<1>14. Sum(f) < Sum(g) + Sum(n)
  BY <1>9, <1>10, <1>11, <1>13
<1> QED BY <1>5, <1>6, <1>12, <1>14

(* The fee that is exported is that of the shards, and with proportional   *)
(* fees approximateInboundFee, which takes the cheapest channel each time, *)
(* is less than a satoshi a shard above the cheapest split there is: for   *)
(* any fees that the protocol can express, as long as no product overflows.*)
THEOREM SplitsAreNearOptimal ==
  ASSUME FeesAreUnsigned
  PROVE  Spec => []NearOptimal
<1>1. IInv /\ CostInv => NearOptimal
  <2> SUFFICES ASSUME IInv, CostInv, amountRemaining = 0, ProductsFit
               PROVE  /\ fee = FeeOf(sent)
                      /\ Proportional => \A s \in Splits(receiveAmt) :
                           fee < FeeOf(s) + Cardinality({c \in Usable : s[c] # 0})
    BY DEF NearOptimal, Proportional
  <2>1. fee = FeeOf(sent)
    BY DEF CostInv, FeeInv
  <2> QED BY <2>1, GreedyIsNear
<1> QED BY CostInvariance, <1>1, PTL
=============================================================================
