----------------------------- MODULE InboundFee -----------------------------
(***************************************************************************)
(* What it costs to pay this node, at the end of Collect in the channels   *)
(* collector (collectors/channels_collector.go): for an amount and then    *)
(* for its doubles, as long as the peers can send as much, the amount is   *)
(* split over the channels, each time taking the channel that is cheapest  *)
(* per satoshi for what is left. Channels are visited in the order of a Go *)
(* map, so of equally cheap ones any may be taken.                         *)
(*                                                                         *)
(* Fees per satoshi are compared as fractions, not as float64. The product *)
(* of an amount and a rate wraps around, as int64 does: a peer may ask for *)
(* a rate that makes it too large for a balance of some twenty bitcoin. A  *)
(* policy that the graph does not know (nil) is treated as one that is     *)
(* disabled.                                                               *)
(***************************************************************************)
EXTENDS Integers, Sequences, FiniteSets, Functions

CONSTANTS
  Channels,
  FirstAmount, \* 100000 in the code
  MaxInt,      \* the largest integer, 2^63 - 1 in the code
  Listings,    \* what ListChannels may say of a channel
  Edges        \* what GetNodeInfo may say of a channel

ASSUME FirstAmountAssumption == FirstAmount \in Nat \ {0}
ASSUME MaxIntAssumption == MaxInt \in Nat \ {0}
ASSUME ChannelsAssumption == IsFiniteSet(Channels)
ASSUME ListingsAssumption == \A l \in Listings : l.remoteBalance \in Nat
ASSUME EdgesAssumption ==
  \A e \in Edges : e.node1.base \in Int /\ e.node1.rate \in Int

VARIABLES
  listed,      \* what ListChannels has answered, a listing by channel
  edges,       \* what GetNodeInfo answers, an edge by channel
  stage,
  policies,
  receiveAmt,
  amountRemaining,
  remainingBalances,
  fee,
  sent,        \* history: the amount of the shard on each channel
  series       \* the inbound fees that have been exported

vars == <<listed, edges, stage, policies, receiveAmt, amountRemaining,
          remainingBalances, fee, sent, series>>
answers == <<listed, edges>>

Maps(S) == UNION {[C -> S] : C \in SUBSET Channels}
NoShards == [c \in {} |-> 0]

-----------------------------------------------------------------------------
(* mutant: the channels of the primary node count as well                  *)
RemoteBalancesOfAll ==
  [c \in {d \in DOMAIN listed : listed[d].active}
     |-> listed[c].remoteBalance]

(* The balances of the channels that are usable and external               *)
RemoteBalances ==
  [c \in {d \in DOMAIN listed : listed[d].active /\ ~listed[d].primary}
     |-> listed[c].remoteBalance]

Wrap(n) == ((n + MaxInt + 1) % (2 * (MaxInt + 1))) - (MaxInt + 1)

(* Go divides towards zero.                                                *)
Quotient(n, d) == IF n < 0 THEN -((-n) \div d) ELSE n \div d

ForwardFee(policy, amt) ==
  Quotient(policy.base, 1000) + Quotient(Wrap(amt * policy.rate), 1000000)

(* mutant: all that the channel can carry, wanted or not                   *)
AmountToSendAll(c) == remainingBalances[c]

AmountToSend(c) ==
  IF amountRemaining > remainingBalances[c]
  THEN remainingBalances[c] ELSE amountRemaining

(* mutant: empty channels are not skipped                                  *)
CandidatesWithEmpty == DOMAIN remainingBalances \cap DOMAIN policies

(* mutant: only channels that can carry all of the rest                    *)
CandidatesForAll ==
  {c \in DOMAIN remainingBalances \cap DOMAIN policies :
     remainingBalances[c] >= amountRemaining}

Candidates ==
  {c \in DOMAIN remainingBalances \cap DOMAIN policies :
     remainingBalances[c] # 0}

ShardFee(c) == ForwardFee(policies[c], AmountToSend(c))

(* mutant: the lowest fee, however little is sent for it                   *)
CheapestShard ==
  {c \in Candidates : \A d \in Candidates : ShardFee(c) <= ShardFee(d)}

(* The channels of the lowest fee per satoshi                              *)
Best ==
  {c \in Candidates : \A d \in Candidates :
     ShardFee(c) * AmountToSend(d) <= ShardFee(d) * AmountToSend(c)}

-----------------------------------------------------------------------------
Init ==
  /\ listed \in Maps(Listings) /\ edges \in Maps(Edges)
  /\ stage = "policies"
  /\ policies = NoShards
  /\ receiveAmt = FirstAmount /\ amountRemaining = FirstAmount
  /\ remainingBalances = RemoteBalances
  /\ fee = 0 /\ sent = NoShards /\ series = <<>>

(* getRemotePolicies: whichever end of the channel this node is, the       *)
(* policy of the first end is taken, and dropped if it is disabled.        *)
PolicyOf(edge) == edge.node1
Enabled == {c \in DOMAIN edges : ~PolicyOf(edges[c]).disabled}

GetRemotePolicies ==
  /\ stage = "policies"
  /\ \A c \in DOMAIN edges : edges[c].self \in {1, 2}
  /\ policies' = [c \in Enabled |-> PolicyOf(edges[c])]
  /\ stage' = "splitting"
  /\ UNCHANGED <<answers, receiveAmt, amountRemaining, remainingBalances, fee,
                 sent, series>>

(* A channel that is not this node's is an error; nothing is exported.     *)
NotOurChannel ==
  /\ stage = "policies"
  /\ \E c \in DOMAIN edges : edges[c].self \notin {1, 2}
  /\ stage' = "failed"
  /\ UNCHANGED <<answers, policies, receiveAmt, amountRemaining,
                 remainingBalances, fee, sent, series>>

(* One iteration of approximateInboundFee's outer loop                     *)
SendShard(c) ==
  /\ stage = "splitting" /\ amountRemaining > 0
  /\ c \in Best
  /\ amountRemaining' = amountRemaining - AmountToSend(c)
  /\ fee' = fee + ShardFee(c)
  /\ remainingBalances' = [remainingBalances EXCEPT ![c] = @ - AmountToSend(c)]
  /\ sent' = [d \in DOMAIN sent \cup {c} |->
                (IF d = c THEN AmountToSend(c) ELSE 0)
                  + (IF d \in DOMAIN sent THEN sent[d] ELSE 0)]
  /\ UNCHANGED <<answers, stage, policies, receiveAmt, series>>

(* The amount is covered: on with its double, over fresh balances.         *)
ExportFee ==
  /\ stage = "splitting" /\ amountRemaining = 0
  /\ series' = Append(series, [amt |-> receiveAmt, fee |-> fee])
  /\ receiveAmt' = 2 * receiveAmt /\ amountRemaining' = 2 * receiveAmt
  /\ remainingBalances' = RemoteBalances
  /\ fee' = 0 /\ sent' = NoShards
  /\ UNCHANGED <<answers, stage, policies>>

(* No channel is left for the rest: the series ends.                       *)
NoLiquidity ==
  /\ stage = "splitting" /\ amountRemaining > 0 /\ Candidates = {}
  /\ stage' = "done"
  /\ UNCHANGED <<answers, policies, receiveAmt, amountRemaining,
                 remainingBalances, fee, sent, series>>

Next == \/ GetRemotePolicies \/ NotOurChannel
        \/ \E c \in Channels : SendShard(c)
        \/ ExportFee \/ NoLiquidity

Spec == Init /\ [][Next]_vars
(* Collect is one goroutine that waits for nothing here.                   *)
FairSpec == Spec /\ WF_vars(Next)

-----------------------------------------------------------------------------
(* Properties                                                              *)

(* What a peer could send by the listing, over a channel with a policy     *)
Usable == {c \in DOMAIN listed \cap DOMAIN policies :
             listed[c].active /\ ~listed[c].primary}
Liquidity == SumFunction([c \in Usable |-> listed[c].remoteBalance])

(* The types; amounts are positive or, when they are sent, zero.           *)
TypeOK ==
  /\ listed \in Maps(Listings) /\ edges \in Maps(Edges)
  /\ stage \in {"policies", "splitting", "done", "failed"}
  /\ DOMAIN policies \subseteq DOMAIN edges
  /\ receiveAmt \in Nat \ {0} /\ amountRemaining \in 0..receiveAmt
  /\ \A c \in DOMAIN remainingBalances : remainingBalances[c] \in Nat
  /\ fee \in Int
  /\ \A c \in DOMAIN sent : sent[c] \in Nat
  /\ \A i \in 1..Len(series) : series[i] \in [amt : Nat, fee : Int]

(* The shards are a split that can be made: over usable channels only, no  *)
(* channel carries more than its peer has, together they are what has been *)
(* covered, and all but one of them empty their channel, so that a split   *)
(* takes no more shards than there are channels.                           *)
SplitIsPossible ==
  /\ DOMAIN sent \subseteq Usable
  /\ \A c \in DOMAIN sent : sent[c] \in 1..listed[c].remoteBalance
  /\ SumFunction(sent) = receiveAmt - amountRemaining
  /\ Cardinality({c \in DOMAIN sent : sent[c] < listed[c].remoteBalance}) <= 1

(* The series has the first amount and from there on each time the double, *)
(* as far as the liquidity goes, all of them and no other.                 *)
AmountAt(i) == IF i = 1 THEN FirstAmount ELSE 2 * series[i - 1].amt
SeriesIsComplete ==
  stage = "done" =>
    /\ \A i \in 1..Len(series) : /\ series[i].amt = AmountAt(i)
                                 /\ series[i].amt <= Liquidity
    /\ AmountAt(Len(series) + 1) > Liquidity

(* Every other way to split the amount, shard by shard                     *)
Splits(amt) ==
  {s \in [Usable -> 0..amt] :
     /\ \A c \in Usable : s[c] <= listed[c].remoteBalance
     /\ SumFunction(s) = amt}
FeeOf(s) ==
  SumFunction([c \in {d \in DOMAIN s : s[d] # 0} |->
    policies[c].base \div 1000 + (s[c] * policies[c].rate) \div 1000000])

(* No product overflows that may be needed for the amount.                 *)
ProductsFit ==
  \A c \in Usable, amt \in 0..receiveAmt :
    amt <= listed[c].remoteBalance => amt * policies[c].rate <= MaxInt

(* The split is found greedily, but as long as fees are proportional it is *)
(* as good as any: the cheapest split of the amount saves less than a      *)
(* satoshi per channel it uses, from rounding. (A base fee can make it     *)
(* dearer: what is left at the end may have to pay the base fee of a       *)
(* channel that could have carried everything for it.) The fee is that of  *)
(* the shards, each charged once. All this holds as long as the products   *)
(* fit; one that overflows makes its channel look cheap, and the fee may   *)
(* even be negative, but what is split and which amounts are in the series *)
(* is none the worse: the properties above hold all the same.              *)
NearOptimal ==
  stage = "splitting" /\ amountRemaining = 0 /\ ProductsFit =>
    /\ fee = FeeOf(sent)
    /\ (\A c \in Usable : policies[c].base < 1000) =>
         \A s \in Splits(receiveAmt) :
           fee < FeeOf(s) + Cardinality({c \in Usable : s[c] # 0})

(* Collect comes to its end.                                               *)
CollectEnds == <>(stage \in {"done", "failed"})

(* The comment on getRemotePolicies (lines 664 and 665): it "gets all the  *)
(* remote policies for enabled channels of this node's peers".             *)
RemotePolicyOf(edge) == IF edge.self = 1 THEN edge.node2 ELSE edge.node1
PoliciesAreRemote ==
  stage = "splitting" =>
    \A c \in DOMAIN policies : policies[c] = RemotePolicyOf(edges[c])
=============================================================================
