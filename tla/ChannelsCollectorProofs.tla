---------------------- MODULE ChannelsCollectorProofs -----------------------
(***************************************************************************)
(* Proofs about the channels collector, for any set of channels. The idea  *)
(* is that a channel only goes forward in its life: its place among the    *)
(* stages never falls, so that what one call of Collect has seen bounds    *)
(* what the calls after it can see.                                        *)
(***************************************************************************)
EXTENDS ChannelsCollector, Integers, Sequences, FiniteSetTheorems, TLAPS

Rank == [none |-> 0, pendingOpen |-> 1, open |-> 2, waitingClose |-> 3,
         forceClose |-> 4, closed |-> 5]

Closing(c) == stage[c] \in {"waitingClose", "forceClose", "closed"}

Listed == at \in {"PendingChannels", "ReadCache", "GetNodeInfo"}
PendingListed == at \in {"ReadCache", "GetNodeInfo"}

(* What the refresher is about to write holds what is in the cache.        *)
RefreshInv == refresher = "writing" => cache \subseteq fetched

(* Since Collect began the cache has lost nothing and no channel has gone  *)
(* back.                                                                   *)
BeganInv ==
  at # "idle" =>
    /\ knew \subseteq cache
    /\ \A c \in Channels : Rank[began[c]] <= Rank[stage[c]]

(* What is known of a channel once the open ones have been listed          *)
ListedInv ==
  Listed => \A c \in Channels :
    /\ began[c] = stage[c] => (c \in open <=> stage[c] = "open")
    /\ began[c] = "open" => c \in open \/ Closing(c)

(* ... once the pending ones have been listed too                          *)
PendingInv ==
  PendingListed => \A c \in Channels :
    /\ began[c] = stage[c] =>
         \A st \in PendingStages : c \in pending[st] <=> stage[c] = st
    /\ began[c] = "open" =>
         \/ c \in open \/ \E st \in PendingStages : c \in pending[st]
         \/ stage[c] = "closed"

(* ... and once the cache has been read                                    *)
ReadInv == Complete => knew \subseteq closed /\ closed \subseteq In("closed")

(* The metrics of PendingChannels are exported by that call and no other.  *)
EmittedInv ==
  /\ at \in {"ChannelBalance", "GetInfo", "ListChannels", "PendingChannels"}
       => emitted \cap PendingEmits = {}
  /\ at = "ReadCache" => PendingEmits \subseteq emitted

IInv == TypeOK /\ RefreshInv /\ BeganInv /\ ListedInv /\ PendingInv /\ ReadInv

-----------------------------------------------------------------------------
(* A channel that has lived on is in a later stage.                        *)
LEMMA Forward ==
  ASSUME TypeOK, NEW c \in Channels, Lives(c)
  PROVE  /\ stage' \in [Channels -> Stages]
         /\ Rank[stage[c]] < Rank[stage'[c]]
         /\ stage[c] = "open" => Closing(c)'
         /\ Closing(c) => Closing(c)'
         /\ stage[c] # "closed"
         /\ \A d \in Channels : d # c => stage'[d] = stage[d]
<1>1. stage[c] \in Stages
  BY DEF TypeOK
<1>2. PICK next \in After[stage[c]] : stage' = [stage EXCEPT ![c] = next]
  BY DEF Lives
<1>3. stage'[c] = next /\ \A d \in Channels : d # c => stage'[d] = stage[d]
  BY <1>2 DEF TypeOK
<1>4. next \in Stages /\ Rank[stage[c]] < Rank[next] /\ stage[c] # "closed"
  BY <1>1, <1>2 DEF After, Rank, Stages, PendingStages
<1>5. (stage[c] = "open" \/ Closing(c)) => Closing(c)'
  BY <1>1, <1>2, <1>3 DEF After, Stages, PendingStages, Closing
<1> QED
  BY <1>2, <1>3, <1>4, <1>5 DEF TypeOK

(* A closed channel stays closed.                                          *)
LEMMA ClosedStays ==
  ASSUME TypeOK, NEW c \in Channels, Lives(c)
  PROVE  In("closed") \subseteq In("closed")'
BY Forward DEF In

(* What the answers give is among the metrics of the collector.            *)
LEMMA EmitsOK ==
  /\ \A i \in 1..5 : Collect!ChannelsCalls[i].emits
                       \subseteq Collect!All(Collect!ChannelsCalls)
  /\ PendingEmits \subseteq Collect!All(Collect!ChannelsCalls)
  /\ {"numClosedChannels"} \subseteq Collect!All(Collect!ChannelsCalls)
<1>1. DOMAIN Collect!ChannelsCalls = 1..5
  BY DEF Collect!ChannelsCalls
<1>2. Collect!ChannelsCalls[4].emits = PendingEmits \cup {"numClosedChannels"}
  BY DEF Collect!ChannelsCalls, Collect!Call, PendingEmits
<1> QED BY <1>1, <1>2 DEF Collect!All

LEMMA InitInv == Init => IInv
BY DEF Init, Nothing, PendingStages, Stages, IInv, TypeOK, RefreshInv, BeganInv,
       ListedInv, PendingInv, ReadInv, Listed, PendingListed, Complete

LEMMA NextInv == IInv /\ [Next]_vars => IInv'
<1> SUFFICES ASSUME IInv, [Next]_vars PROVE IInv'
  OBVIOUS
<1> USE DEF IInv
<1>1. ASSUME NEW c \in Channels, Lives(c) PROVE IInv'
  <2>0. UNCHANGED <<refresher, fetched, cache, quit, at, emitted, cause, raised,
                    open, pending, closed, began, knew>>
    BY <1>1 DEF Lives, refreshed, collected, outcome, exported, history
  <2> DEFINE Went == Rank[stage[c]] < Rank[stage'[c]]
  <2>1. /\ stage' \in [Channels -> Stages]
        /\ Went
        /\ stage[c] = "open" => Closing(c)'
        /\ Closing(c) => Closing(c)'
        /\ stage[c] # "closed"
        /\ \A d \in Channels : d # c => stage'[d] = stage[d]
    BY <1>1, Forward
  <2>2. In("closed") \subseteq In("closed")'
    BY <1>1, ClosedStays
  <2>3. TypeOK'
    BY <2>0, <2>1, <2>2 DEF TypeOK, Stages
  <2>4. RefreshInv'
    BY <2>0 DEF RefreshInv
  <2>5. \A s \in Stages : Rank[s] \in Nat
    BY DEF Stages, PendingStages, Rank
  <2>6. BeganInv'
    <3> SUFFICES ASSUME at # "idle"
                 PROVE  /\ knew \subseteq cache
                        /\ \A d \in Channels : Rank[began[d]] <= Rank[stage'[d]]
      BY <2>0 DEF BeganInv
    <3>1. ASSUME NEW d \in Channels PROVE Rank[began[d]] <= Rank[stage'[d]]
      <4>1. began[d] \in Stages /\ stage[d] \in Stages /\ stage'[d] \in Stages
        BY <2>1 DEF TypeOK
      <4>2. Rank[began[d]] <= Rank[stage[d]]
        BY DEF BeganInv
      <4>3. Rank[stage[d]] <= Rank[stage'[d]]
        BY <2>1, <2>5, <4>1
      <4> QED BY <2>5, <4>1, <4>2, <4>3
    <3> QED BY <3>1 DEF BeganInv
  <2>7. ASSUME at # "idle" PROVE began[c] # stage'[c]
    <3>1. Rank[began[c]] <= Rank[stage[c]]
      BY <2>7 DEF BeganInv
    <3>2. began[c] \in Stages /\ stage[c] \in Stages /\ stage'[c] \in Stages
      BY <2>1 DEF TypeOK
    <3> QED BY <2>1, <2>5, <3>1, <3>2
  <2>8. ListedInv'
    BY <2>0, <2>1, <2>7 DEF ListedInv, Listed, Closing
  <2>9. PendingInv'
    BY <2>0, <2>1, <2>7 DEF PendingInv, PendingListed
  <2>10. ReadInv'
    BY <2>0, <2>2 DEF ReadInv, Complete
  <2> QED BY <2>3, <2>4, <2>6, <2>8, <2>9, <2>10
<1>2. CASE Fetch
  BY <1>2 DEF Fetch, collected, outcome, exported, history, TypeOK, RefreshInv,
              BeganInv, ListedInv, PendingInv, ReadInv, Listed, PendingListed,
              Complete, In, Closing
<1>3. CASE FetchFails
  BY <1>3 DEF FetchFails, collected, outcome, exported, history, TypeOK, RefreshInv,
              BeganInv, ListedInv, PendingInv, ReadInv, Listed, PendingListed,
              Complete, In, Closing
<1>4. CASE Write
  BY <1>4 DEF Write, collected, outcome, exported, history, TypeOK, RefreshInv,
              BeganInv, ListedInv, PendingInv, ReadInv, Listed, PendingListed,
              Complete, In, Closing
<1>5. CASE Raise \/ Tick \/ RefresherQuits \/ Quit
  BY <1>5 DEF Raise, Tick, RefresherQuits, Quit, refreshed, collected,
              outcome, exported, history, TypeOK, RefreshInv, BeganInv,
              ListedInv, PendingInv, ReadInv, Listed, PendingListed, Complete,
              In, Closing
<1>6. CASE Begin
  <2>1. \A c \in Channels : Rank[stage[c]] <= Rank[stage[c]]
    BY DEF TypeOK, Stages, PendingStages, Rank
  <2> QED
    BY <1>6, <2>1 DEF Begin, Nothing, Calls, refreshed, TypeOK, RefreshInv,
                      BeganInv, ListedInv, PendingInv, ReadInv, Listed,
                      PendingListed, Complete, In, Closing
<1>7. CASE ChannelBalance \/ GetInfo
  <2>1. /\ at \in {"ChannelBalance", "GetInfo"}
        /\ at' \in {"GetInfo", "ListChannels"}
        /\ emitted' \subseteq Collect!All(Collect!ChannelsCalls)
        /\ UNCHANGED <<stage, refresher, fetched, cache, quit, cause, raised,
                       open, pending, closed, began, knew>>
    BY <1>7, EmitsOK DEF ChannelBalance, GetInfo, Answer, Following, refreshed,
                         outcome, exported, history, TypeOK
  <2> QED
    BY <2>1 DEF TypeOK, RefreshInv, BeganInv, ListedInv, PendingInv, ReadInv,
                Listed, PendingListed, Complete, In, Calls, Closing
<1>8. CASE ListChannels
  <2>0. /\ at = "ListChannels" /\ at' = "PendingChannels"
        /\ open' = In("open")
        /\ emitted' \subseteq Collect!All(Collect!ChannelsCalls)
        /\ UNCHANGED <<stage, refresher, fetched, cache, quit, cause, raised,
                       pending, closed, began, knew>>
    BY <1>8, EmitsOK DEF ListChannels, Answer, Following, refreshed, outcome,
                         history, TypeOK
  <2>1. ListedInv'
    <3> SUFFICES ASSUME NEW c \in Channels
                 PROVE  /\ began[c] = stage[c] =>
                             (c \in open' <=> stage[c] = "open")
                        /\ began[c] = "open" => c \in open' \/ Closing(c)
      BY <2>0 DEF ListedInv, Listed, Closing
    <3>1. c \in open' <=> stage[c] = "open"
      BY <2>0 DEF In
    <3>2. Rank[began[c]] <= Rank[stage[c]] /\ stage[c] \in Stages
      BY <2>0 DEF BeganInv, TypeOK
    <3> QED BY <3>1, <3>2 DEF Rank, Stages, PendingStages, Closing
  <2> QED
    BY <2>0, <2>1 DEF TypeOK, RefreshInv, BeganInv, PendingInv, ReadInv,
                      PendingListed, Complete, In, Calls
<1>9. CASE PendingChannels
  <2>0. /\ at = "PendingChannels" /\ at' = "ReadCache"
        /\ pending' = [st \in PendingStages |-> In(st)]
        /\ emitted' \subseteq Collect!All(Collect!ChannelsCalls)
        /\ UNCHANGED <<stage, refresher, fetched, cache, quit, cause, raised,
                       open, closed, began, knew>>
    BY <1>9, EmitsOK DEF PendingChannels, Answer, Following, refreshed, outcome,
                         history, TypeOK
  <2>1. PendingInv'
    <3> SUFFICES ASSUME NEW c \in Channels
                 PROVE  /\ \A st \in PendingStages :
                             c \in pending'[st] <=> stage[c] = st
                        /\ began[c] = "open" =>
                             \/ c \in open
                             \/ \E st \in PendingStages : c \in pending'[st]
                             \/ stage[c] = "closed"
      BY <2>0 DEF PendingInv
    <3>1. \A st \in PendingStages : c \in pending'[st] <=> stage[c] = st
      BY <2>0 DEF In
    <3>2. began[c] = "open" => c \in open \/ Closing(c)
      BY <2>0 DEF ListedInv, Listed
    <3> QED BY <3>1, <3>2 DEF Closing, PendingStages
  <2>2. TypeOK'
    BY <2>0 DEF TypeOK, In, Calls
  <2> QED
    BY <2>0, <2>1, <2>2 DEF RefreshInv, BeganInv, ListedInv, ReadInv, Listed,
                            Complete, In, Closing
<1>10. CASE ReadCache
  <2>0. /\ at = "ReadCache" /\ at' = "GetNodeInfo"
        /\ closed' = cache
        /\ emitted' \subseteq Collect!All(Collect!ChannelsCalls)
        /\ UNCHANGED <<stage, refresher, fetched, cache, quit, cause, raised,
                       open, pending, began, knew>>
    BY <1>10, EmitsOK DEF ReadCache, Answer, Following, refreshed, outcome,
                          history, TypeOK
  <2> QED
    BY <2>0 DEF TypeOK, RefreshInv, BeganInv, ListedInv, PendingInv, ReadInv,
                Listed, PendingListed, Complete, In, Calls, Closing
<1>11. ASSUME GetNodeInfo \/ \E err \in Failures : CallFails(err) PROVE IInv'
  <2>0. /\ at' = "idle"
        /\ open' = {} /\ pending' = Nothing /\ closed' = {}
        /\ began' = [c \in Channels |-> "none"] /\ knew' = {}
        /\ emitted' \subseteq Collect!All(Collect!ChannelsCalls)
        /\ cause' \in Failures \cup {"none"} /\ raised' \in BOOLEAN
        /\ UNCHANGED <<stage, refresher, fetched, cache, quit>>
    <3>1. CASE GetNodeInfo
      BY <3>1, EmitsOK DEF GetNodeInfo, Answer, Following, Forget, refreshed,
                           outcome, TypeOK
    <3>2. ASSUME NEW err \in Failures, CallFails(err) PROVE <2>0!:
      BY <3>2 DEF CallFails, Forget, refreshed, TypeOK
    <3> QED BY <1>11, <3>1, <3>2
  <2> QED
    BY <2>0 DEF TypeOK, RefreshInv, BeganInv, ListedInv, PendingInv, ReadInv,
                Listed, PendingListed, Complete, In, Nothing, Stages
<1>12. CASE UNCHANGED vars
  BY <1>12 DEF vars, outcome, exported, history, TypeOK, RefreshInv, BeganInv,
               ListedInv, PendingInv, ReadInv, Listed, PendingListed, Complete,
               In, Closing
<1> QED
  BY <1>1, <1>2, <1>3, <1>4, <1>5, <1>6, <1>7, <1>8, <1>9, <1>10, <1>11, <1>12
     DEF Next

LEMMA Invariance == Spec => []IInv
BY InitInv, NextInv, PTL DEF Spec

-----------------------------------------------------------------------------
(* The variables keep their types, and the cache and what is about to be   *)
(* written to it hold closed channels only.                                *)
THEOREM TypeCorrect == Spec => []TypeOK
BY Invariance, PTL DEF IInv

(* No channel that is open when Collect begins falls between its calls.    *)
THEOREM OpenChannelsAreNotLost == Spec => []NoOpenChannelLost
<1>1. IInv => NoOpenChannelLost
  BY DEF IInv, NoOpenChannelLost, PendingInv, PendingListed, Complete
<1> QED BY <1>1, Invariance, PTL

(* What does not change while Collect runs is exported exactly.            *)
THEOREM QuietChannelsAreExact == Spec => []QuietChannelsExact
<1>1. IInv => QuietChannelsExact
  <2> SUFFICES ASSUME IInv, Complete, NEW c \in Channels, began[c] = stage[c]
               PROVE  /\ c \in open <=> stage[c] = "open"
                      /\ \A st \in PendingStages :
                           c \in pending[st] <=> stage[c] = st
                      /\ c \in closed => stage[c] = "closed"
                      /\ c \in knew => c \in closed
    BY DEF QuietChannelsExact
  <2> QED
    BY DEF IInv, ListedInv, PendingInv, ReadInv, Listed, PendingListed,
           Complete, In
<1> QED BY <1>1, Invariance, PTL

(* The cache never loses a channel.                                        *)
THEOREM CacheNeverShrinks == Spec => CacheGrows
<1>1. IInv /\ [Next]_vars => [cache \subseteq cache']_cache
  <2> SUFFICES ASSUME IInv, Next PROVE cache \subseteq cache'
    BY DEF vars
  <2>1. CASE Write
    BY <2>1 DEF Write, IInv, RefreshInv
  <2>2. CASE ~Write
    BY <2>2 DEF Next, Lives, Fetch, FetchFails, Raise, Tick, RefresherQuits,
                Quit, Begin, ChannelBalance, GetInfo, ListChannels, PendingChannels,
                ReadCache, GetNodeInfo, CallFails, Answer, refreshed, collected
  <2> QED BY <2>1, <2>2
<1> QED BY <1>1, Invariance, PTL DEF Spec, CacheGrows
-----------------------------------------------------------------------------
(* Collect as a Collect of module Scrape                                   *)

(* Which metrics the answers give                                          *)
LEMMA Emits ==
  /\ \A i \in 1..3 : Collect!ChannelsCalls[i].emits \cap PendingEmits = {}
  /\ Collect!ChannelsCalls[4].emits = PendingEmits \cup {"numClosedChannels"}
  /\ Collect!ChannelsCalls[5].emits = {"inboundFee"}
  /\ "numClosedChannels" \notin PendingEmits
BY DEF Collect!ChannelsCalls, Collect!Call, PendingEmits

LEMMA EmittedInvariant == Spec => []EmittedInv
<1>1. Init => EmittedInv
  BY DEF Init, EmittedInv
<1>2. EmittedInv /\ [Next]_vars => EmittedInv'
  <2> SUFFICES ASSUME EmittedInv, [Next]_vars PROVE EmittedInv'
    OBVIOUS
  <2>1. CASE UNCHANGED <<at, emitted>>
    BY <2>1 DEF EmittedInv
  <2>2. CASE Begin
    BY <2>2 DEF Begin, EmittedInv
  <2>3. CASE ChannelBalance \/ GetInfo \/ ListChannels
    BY <2>3, Emits DEF ChannelBalance, GetInfo, ListChannels, Answer, Following,
                       EmittedInv
  <2>4. CASE PendingChannels \/ ReadCache \/ GetNodeInfo
    BY <2>4 DEF PendingChannels, ReadCache, GetNodeInfo, Answer, Following,
                EmittedInv
  <2>5. CASE \E err \in Failures : CallFails(err)
    BY <2>5 DEF CallFails, EmittedInv
  <2> QED
    BY <2>1, <2>2, <2>3, <2>4, <2>5
    DEF Next, vars, Lives, Fetch, FetchFails, Write, Raise, Tick,
        RefresherQuits, Quit, collected
<1> QED BY <1>1, <1>2, PTL DEF Spec

LEMMA CallsOfCollect ==
  /\ Collect!Calls["channels"] = Collect!ChannelsCalls
  /\ Len(Collect!ChannelsCalls) = 5
  /\ \A i \in 1..5 : Collect!ChannelsCalls[i].rpc # "ListTowers"
<1>1. Collect!Calls["channels"] = Collect!ChannelsCalls
  BY DEF Collect!Calls
<1>2. Len(Collect!ChannelsCalls) = 5
  BY DEF Collect!ChannelsCalls
<1>3. \A i \in 1..5 : Collect!ChannelsCalls[i].rpc # "ListTowers"
  BY DEF Collect!ChannelsCalls, Collect!Call
<1> QED BY <1>1, <1>2, <1>3

(* The number of the call that Collect is at                               *)
Number == CASE at = "idle" -> 0
            [] at = "ChannelBalance" -> 1
            [] at = "GetInfo" -> 2
            [] at = "ListChannels" -> 3
            [] at \in {"PendingChannels", "ReadCache"} -> 4
            [] at = "GetNodeInfo" -> 5

Visible == IF at = "ReadCache" THEN emitted \ PendingEmits ELSE emitted

Ran == at # "idle" \/ emitted # {} \/ cause # "none"

(* A call that is answered, with all that its answer gives                 *)
LEMMA AnswerStep ==
  ASSUME Number \in 1..5,
         Visible' = Visible \cup Collect!ChannelsCalls[Number].emits,
         Number' = IF Number = 5 THEN 0 ELSE Number + 1,
         cause' = cause, raised' = raised, Ran' = Ran
  PROVE  Collect!Answered("channels")
<1> DEFINE Only == {"channels"}
<1>1. Collect!Now("channels") = Collect!ChannelsCalls[Number]
  BY CallsOfCollect DEF Collect!Now, Number
<1>2. Collect!Now("channels").rpc # "ListTowers"
  BY <1>1, CallsOfCollect
<1>3. [c \in Only |-> Visible]' =
        [[c \in Only |-> Visible] EXCEPT
           !["channels"] = [c \in Only |-> Visible]["channels"]
                             \cup Collect!Now("channels").emits]
  BY <1>1
<1>4. [c \in Only |-> Number]' =
        [[c \in Only |-> Number] EXCEPT
           !["channels"] =
             IF [c \in Only |-> Number]["channels"]
                  = Len(Collect!Calls["channels"])
             THEN 0 ELSE [c \in Only |-> Number]["channels"] + 1]
  BY CallsOfCollect
<1>5. /\ [c \in Only |-> Number]["channels"] # 0
      /\ [c \in Only |-> cause]' = [c \in Only |-> cause]
      /\ [c \in Only |-> raised]' = [c \in Only |-> raised]
      /\ [c \in Only |-> Ran]' = [c \in Only |-> Ran]
  OBVIOUS
<1> QED
  BY <1>2, <1>3, <1>4, <1>5
  DEF Collect!Answered, Number, Visible, Ran

(* A call that fails                                                       *)
LEMMA FailStep ==
  ASSUME NEW err \in Failures, Number \in 1..5, Number' = 0,
         Visible' = Visible, cause' = err, Ran' = Ran,
         raised' = (err \notin Collect!ChannelsCalls[Number].quiet)
  PROVE  Collect!Failed("channels", err)
<1> DEFINE Only == {"channels"}
<1>1. Collect!Now("channels") = Collect!ChannelsCalls[Number]
  BY CallsOfCollect DEF Collect!Now, Number
<1>2. err # "inactive"
  BY DEF Failures
<1>3. [c \in Only |-> Number]' = [[c \in Only |-> Number] EXCEPT !["channels"] = 0]
  OBVIOUS
<1>4. [c \in Only |-> cause]' = [[c \in Only |-> cause] EXCEPT !["channels"] = err]
  OBVIOUS
<1>5. [c \in Only |-> raised]' =
        [[c \in Only |-> raised] EXCEPT
           !["channels"] = err \notin Collect!Now("channels").quiet]
  BY <1>1
<1>6. /\ [c \in Only |-> Number]["channels"] # 0
      /\ [c \in Only |-> Visible]' = [c \in Only |-> Visible]
      /\ [c \in Only |-> Ran]' = [c \in Only |-> Ran]
  OBVIOUS
<1> QED
  BY <1>2, <1>3, <1>4, <1>5, <1>6
  DEF Collect!Failed, Collect!MayFail, Number, Visible, Ran

(* Collect is called.                                                      *)
LEMMA BeginStep ==
  ASSUME Number = 0, Number' = 1, Visible' = {}, cause' = "none",
         raised' = FALSE, Ran' = TRUE
  PROVE  Collect!Begin("channels")
<1> DEFINE Only == {"channels"}
<1>1. [c \in Only |-> Number]' = [[c \in Only |-> Number] EXCEPT !["channels"] = 1]
  OBVIOUS
<1>2. [c \in Only |-> Visible]' =
        [[c \in Only |-> Visible] EXCEPT !["channels"] = {}]
  OBVIOUS
<1>3. [c \in Only |-> cause]' =
        [[c \in Only |-> cause] EXCEPT !["channels"] = "none"]
  OBVIOUS
<1>4. [c \in Only |-> raised]' =
        [[c \in Only |-> raised] EXCEPT !["channels"] = FALSE]
  OBVIOUS
<1>5. [c \in Only |-> Ran]' = [[c \in Only |-> Ran] EXCEPT !["channels"] = TRUE]
  OBVIOUS
<1>6. [c \in Only |-> Number]["channels"] = 0
  OBVIOUS
<1> QED
  BY <1>1, <1>2, <1>3, <1>4, <1>5, <1>6
  DEF Collect!Begin, Number, Visible, Ran

(* What happens to the others is nothing to Collect. Reading the cache adds*)
(* the last metric of the answer before.                                   *)
LEMMA ScrapeStep ==
  TypeOK /\ EmittedInv /\ [Next]_vars => [Collect!Next]_(Collect!vars)
<1> SUFFICES ASSUME TypeOK, EmittedInv, [Next]_vars
             PROVE  [Collect!Next]_(Collect!vars)
  OBVIOUS
<1>1. ASSUME UNCHANGED <<at, emitted, cause, raised>>
      PROVE  UNCHANGED Collect!vars
  <2>1. Number' = Number /\ Visible' = Visible /\ Ran' = Ran
    BY <1>1 DEF Number, Visible, Ran
  <2> QED BY <1>1, <2>1 DEF Collect!vars, Number, Visible, Ran
<1>2. ASSUME Begin PROVE Collect!Begin("channels")
  <2>1. at = "idle" /\ at' = "ChannelBalance"
    BY <1>2 DEF Begin
  <2>2. Number = 0 /\ Number' = 1 /\ Ran' = TRUE
    BY <2>1 DEF Number, Ran
  <2>3. Visible' = {} /\ cause' = "none" /\ raised' = FALSE
    BY <1>2 DEF Begin, Visible
  <2> QED BY <2>2, <2>3, BeginStep
<1>3. ASSUME NEW k \in {1, 2, 3}, Number = k, Number' = k + 1, at # "ReadCache",
             at' # "ReadCache", at # "idle", at' # "idle",
             emitted' = emitted \cup Collect!ChannelsCalls[k].emits,
             cause' = cause, raised' = raised
      PROVE  Collect!Answered("channels")
  <2>1. Visible' = Visible \cup Collect!ChannelsCalls[k].emits
    BY <1>3 DEF Visible
  <2>2. Ran' = Ran
    BY <1>3 DEF Ran
  <2> QED BY <1>3, <2>1, <2>2, AnswerStep
<1>4. ASSUME ChannelBalance \/ GetInfo \/ ListChannels
      PROVE  Collect!Answered("channels")
  <2> USE DEF Answer, Following, outcome, Number
  <2>1. CASE ChannelBalance
    BY <2>1, <1>3 DEF ChannelBalance
  <2>2. CASE GetInfo
    BY <2>2, <1>3 DEF GetInfo
  <2>3. CASE ListChannels
    BY <2>3, <1>3 DEF ListChannels
  <2> QED BY <1>4, <2>1, <2>2, <2>3
<1>5. ASSUME PendingChannels PROVE UNCHANGED Collect!vars
  <2>1. /\ at = "PendingChannels" /\ at' = "ReadCache"
        /\ emitted' = emitted \cup PendingEmits
        /\ cause' = cause /\ raised' = raised
    BY <1>5 DEF PendingChannels, Answer, Following, outcome
  <2>2. emitted \cap PendingEmits = {}
    BY <2>1 DEF EmittedInv
  <2>3. Visible' = Visible
    BY <2>1, <2>2 DEF Visible
  <2>4. Number' = Number /\ Ran' = Ran
    BY <2>1 DEF Number, Ran
  <2> QED BY <2>1, <2>3, <2>4 DEF Collect!vars, Number, Visible, Ran
<1>6. ASSUME ReadCache PROVE Collect!Answered("channels")
  <2>1. /\ at = "ReadCache" /\ at' = "GetNodeInfo"
        /\ emitted' = emitted \cup {"numClosedChannels"}
        /\ cause' = cause /\ raised' = raised
    BY <1>6 DEF ReadCache, Answer, Following, outcome
  <2>2. PendingEmits \subseteq emitted
    BY <2>1 DEF EmittedInv
  <2>3. Visible' = Visible \cup Collect!ChannelsCalls[4].emits
    BY <2>1, <2>2, Emits DEF Visible
  <2>4. Number = 4 /\ Number' = 5 /\ Ran' = Ran
    BY <2>1 DEF Number, Ran
  <2> QED BY <2>1, <2>3, <2>4, AnswerStep
<1>7. ASSUME GetNodeInfo PROVE Collect!Answered("channels")
  <2>1. /\ at = "GetNodeInfo" /\ at' = "idle"
        /\ emitted' = emitted \cup Collect!ChannelsCalls[5].emits
        /\ cause' = cause /\ raised' = raised
    BY <1>7 DEF GetNodeInfo, Answer, Following, outcome
  <2>2. Number = 5 /\ Number' = 0
    BY <2>1 DEF Number
  <2>3. Ran' = Ran
    BY <2>1, Emits DEF Ran
  <2>4. Visible' = Visible \cup Collect!ChannelsCalls[5].emits
    BY <2>1 DEF Visible
  <2> QED BY <2>1, <2>2, <2>3, <2>4, AnswerStep
<1>8. ASSUME NEW err \in Failures, CallFails(err)
      PROVE  Collect!Failed("channels", err)
  <2>1. /\ at \in Calls \ {"ReadCache"} /\ at' = "idle"
        /\ emitted' = emitted /\ cause' = err
        /\ raised' = (at = "GetInfo" =>
                      ~Collect!IsDeadlineExceeded(Collect!Arriving[err]))
    BY <1>8 DEF CallFails
  <2>2. err \in Collect!Causes /\ err # "none"
    BY DEF Failures, Collect!Causes
  <2>3. Number \in 1..5 /\ Number' = 0 /\ (at = "GetInfo" <=> Number = 2)
    BY <2>1 DEF Number, Calls
  <2>4. Visible' = Visible /\ Ran' = Ran
    BY <2>1, <2>2 DEF Visible, Ran, Calls
  <2>5. /\ \A k \in 1..5 : k # 2 => Collect!ChannelsCalls[k].quiet = {}
        /\ Collect!ChannelsCalls[2].quiet = Collect!OnTimeout
    BY DEF Collect!ChannelsCalls, Collect!Call, Collect!Never
  <2>6. raised' = (err \notin Collect!ChannelsCalls[Number].quiet)
    BY <2>1, <2>2, <2>3, <2>5 DEF Collect!OnTimeout
  <2> QED BY <2>1, <2>3, <2>4, <2>6, FailStep
<1>9. (\/ Collect!Begin("channels") \/ Collect!Answered("channels")
       \/ \E err \in Failures : Collect!Failed("channels", err))
        => Collect!Next
  BY DEF Collect!Next, Failures
<1> QED
  BY <1>1, <1>2, <1>4, <1>5, <1>6, <1>7, <1>8, <1>9
  DEF Next, vars, Lives, Fetch, FetchFails, Write, Raise, Tick, RefresherQuits,
      Quit, collected, outcome

(* Every behaviour of the channels collector is one of module Scrape: what *)
(* Collect exports is what the calls give that were answered, and it stops *)
(* at the call that fails with an error, unless GetInfo was late.          *)
THEOREM ScrapeImplemented == Spec => ImplementsScrape
<1>1. Init => Collect!Init
  <2> SUFFICES ASSUME Init PROVE Collect!Init
    OBVIOUS
  <2>1. Number = 0 /\ Visible = {} /\ cause = "none" /\ raised = FALSE /\ Ran = FALSE
    BY DEF Init, Number, Visible, Ran
  <2>2. Collect!Cardinality({"channels"}) = Cardinality({"channels"})
    BY DEF Cardinality, Collect!Cardinality
  <2>3. Cardinality({"channels"}) = 1
    BY FS_Singleton
  <2> QED BY <2>1, <2>2, <2>3 DEF Collect!Init, Number, Visible, Ran
<1> QED
  BY <1>1, ScrapeStep, TypeCorrect, EmittedInvariant, PTL
  DEF Spec, ImplementsScrape, Collect!Spec
=============================================================================
