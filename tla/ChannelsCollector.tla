-------------------------- MODULE ChannelsCollector -------------------------
(***************************************************************************)
(* The channels collector (collectors/channels_collector.go): one Collect  *)
(* call, which learns of the node's channels from three places at three    *)
(* moments (ListChannels, PendingChannels, and the cache of the closed     *)
(* channels), the goroutine that refreshes the cache every ten minutes,    *)
(* and lnd, where channels go on living all the while.                     *)
(*                                                                         *)
(* Collect calls that overlap share only the cache, which they do not      *)
(* write, so one call stands for all. The other data of the call, balances,*)
(* counts of the node and the types of the closed channels, are exported   *)
(* as they come and left out; the inbound fees, computed at its end, are   *)
(* in module InboundFee.                                                   *)
(***************************************************************************)
EXTENDS Naturals, FiniteSets

CONSTANT Channels

VARIABLES
  stage,     \* lnd: where each channel is in its life
  refresher, \* where the goroutine that refreshes the cache is
  fetched,   \* the closed channels lnd has answered the refresher with
  cache,     \* closedChannelsCache
  quit,      \* the quit channel is closed
  at,        \* the next call of Collect, or "idle"
  emitted,   \* the descriptors of the metrics it has exported
  cause,     \* why the call failed that ended it, or "none"
  raised,    \* whether it has sent an error
  open,      \* what ListChannels answered
  pending,   \* what PendingChannels answered, in three lists
  closed,    \* what Collect has read from the cache
  began,     \* history: stage when Collect was called
  knew       \* history: cache when Collect was called

vars == <<stage, refresher, fetched, cache, quit, at, emitted, cause, raised,
          open, pending, closed, began, knew>>
outcome == <<cause, raised>>
exported == <<open, pending, closed>>
history == <<began, knew>>
collected == <<at, emitted, outcome, exported, history>>
refreshed == <<refresher, fetched, cache>>

(* "waitingClose": a closing transaction is broadcast; "forceClose": one   *)
(* that is no agreement is confirmed, and its outputs are not spent yet.   *)
PendingStages == {"pendingOpen", "waitingClose", "forceClose"}
Stages == PendingStages \cup {"none", "open", "closed"}
In(st) == {c \in Channels : stage[c] = st}

Nothing == [st \in PendingStages |-> {}]

Calls == {"ChannelBalance", "GetInfo", "ListChannels", "PendingChannels",
          "ReadCache", "GetNodeInfo"}

PendingEmits == {"numPendingChansDesc", "pendingForceCloseBalanceDesc",
                 "waitingCloseBalanceDesc"}

(* Collect as module Scrape has it, where the cache is read with the       *)
(* answer of PendingChannels, the call before.                             *)
Collect == INSTANCE Scrape WITH
  Collectors <- {"channels"}, MaxBeside <- 1,
  lnd <- "up", wtOn <- TRUE, beside <- {"channels"},
  step <- [c \in {"channels"} |->
             CASE at = "idle" -> 0
               [] at = "ChannelBalance" -> 1
               [] at = "GetInfo" -> 2
               [] at = "ListChannels" -> 3
               [] at \in {"PendingChannels", "ReadCache"} -> 4
               [] at = "GetNodeInfo" -> 5],
  emitted <- [c \in {"channels"} |->
                IF at = "ReadCache" THEN emitted \ PendingEmits ELSE emitted],
  cause <- [c \in {"channels"} |-> cause],
  raised <- [c \in {"channels"} |-> raised],
  ran <- [c \in {"channels"} |-> at # "idle" \/ emitted # {} \/ cause # "none"]

Failures == Collect!Causes \ {"inactive"}

(* The types; what the refresher holds and the cache are closed channels.  *)
TypeOK ==
  /\ stage \in [Channels -> Stages]
  /\ refresher \in {"fetching", "writing", "raising", "waiting", "done"}
  /\ fetched \subseteq In("closed") /\ cache \subseteq In("closed")
  /\ quit \in BOOLEAN
  /\ at \in Calls \cup {"idle"}
  /\ emitted \subseteq Collect!All(Collect!ChannelsCalls)
  /\ cause \in Failures \cup {"none"} /\ raised \in BOOLEAN
  /\ open \subseteq Channels /\ pending \in [PendingStages -> SUBSET Channels]
  /\ closed \subseteq Channels
  /\ began \in [Channels -> Stages] /\ knew \subseteq Channels

(* lndmon starts when the node has any channels in any stage.              *)
Init ==
  /\ stage \in [Channels -> Stages]
  /\ refresher = "fetching"
  /\ fetched = {} /\ cache = {}
  /\ quit = FALSE
  /\ at = "idle"
  /\ emitted = {} /\ cause = "none" /\ raised = FALSE
  /\ open = {} /\ pending = Nothing /\ closed = {}
  /\ began = [c \in Channels |-> "none"] /\ knew = {}

-----------------------------------------------------------------------------
(* lnd: a channel is opened, after a while, and closed, in agreement or by *)
(* force, which the other side may do without this one's knowing before;   *)
(* it may be given up at any time that it is no longer wanted.             *)
After ==
  [none |-> {"pendingOpen"}, pendingOpen |-> {"open", "closed"},
   open |-> {"waitingClose", "forceClose", "closed"},
   waitingClose |-> {"forceClose", "closed"}, forceClose |-> {"closed"},
   closed |-> {}]

Lives(c) ==
  /\ \E next \in After[stage[c]] :
       stage' = [stage EXCEPT ![c] = next]
  /\ UNCHANGED <<refreshed, quit, collected>>

-----------------------------------------------------------------------------
(* The refresher                                                           *)
(* mutant: channels that wait for their closing transaction count too      *)
FetchWaiting ==
  /\ refresher = "fetching"
  /\ refresher' = "writing"
  /\ fetched' = In("closed") \cup In("waitingClose")
  /\ UNCHANGED <<stage, cache, quit, collected>>

(* lnd answers, which is stored later than it was true.                   *)
Fetch ==
  /\ refresher = "fetching"
  /\ refresher' = "writing"
  /\ fetched' = In("closed")
  /\ UNCHANGED <<stage, cache, quit, collected>>

(* mutant: the answer is stored before the error is looked at              *)
FetchFailsStores ==
  /\ refresher = "fetching"
  /\ refresher' = "raising"
  /\ cache' = {}
  /\ UNCHANGED <<stage, fetched, quit, collected>>

(* The error is sent, and the old contents are kept until the next tick.   *)
FetchFails ==
  /\ refresher = "fetching"
  /\ refresher' = "raising"
  /\ UNCHANGED <<stage, fetched, cache, quit, collected>>

(* mutant: the cache is filled once                                        *)
WriteOnce ==
  /\ refresher = "writing"
  /\ refresher' = "done"
  /\ cache' = fetched
  /\ UNCHANGED <<stage, fetched, quit, collected>>

Write ==
  /\ refresher = "writing"
  /\ refresher' = "waiting"
  /\ cache' = fetched
  /\ UNCHANGED <<stage, fetched, quit, collected>>

(* The first error also ends the process, which goes on until it is out:   *)
(* module Exporter says when. The send itself may wait for ever there, so  *)
(* nothing here relies on this step.                                       *)
Raise ==
  /\ refresher = "raising"
  /\ refresher' = "waiting"
  /\ UNCHANGED <<stage, fetched, cache, quit, collected>>

Tick ==
  /\ refresher = "waiting"
  /\ refresher' = "fetching"
  /\ UNCHANGED <<stage, fetched, cache, quit, collected>>

RefresherQuits ==
  /\ refresher = "waiting"
  /\ quit
  /\ refresher' = "done"
  /\ UNCHANGED <<stage, fetched, cache, quit, collected>>

Quit ==
  /\ ~quit
  /\ quit' = TRUE
  /\ UNCHANGED <<stage, refreshed, collected>>

-----------------------------------------------------------------------------
(* Collect: its calls in their order                                       *)
Begin ==
  /\ at = "idle"
  /\ at' = "ChannelBalance"
  /\ began' = stage /\ knew' = cache
  /\ emitted' = {} /\ cause' = "none" /\ raised' = FALSE
  /\ open' = {} /\ pending' = Nothing /\ closed' = {}
  /\ UNCHANGED <<stage, refreshed, quit>>

(* mutant: pending channels first                                          *)
FollowingSwapped ==
  [ChannelBalance |-> "GetInfo", GetInfo |-> "PendingChannels",
   PendingChannels |-> "ListChannels", ListChannels |-> "ReadCache",
   ReadCache |-> "GetNodeInfo", GetNodeInfo |-> "idle"]

(* The order of the calls                                                  *)
Following ==
  [ChannelBalance |-> "GetInfo", GetInfo |-> "ListChannels",
   ListChannels |-> "PendingChannels", PendingChannels |-> "ReadCache",
   ReadCache |-> "GetNodeInfo", GetNodeInfo |-> "idle"]

(* A call is answered, and metrics of the answer are exported.             *)
Answer(call, descs) ==
  /\ at = call /\ at' = Following[call]
  /\ emitted' = emitted \cup descs
  /\ UNCHANGED <<stage, refreshed, quit, outcome>>

ChannelBalance ==
  /\ Answer("ChannelBalance", Collect!ChannelsCalls[1].emits)
  /\ UNCHANGED <<exported, history>>

GetInfo ==
  /\ Answer("GetInfo", Collect!ChannelsCalls[2].emits)
  /\ UNCHANGED <<exported, history>>

ListChannels ==
  /\ Answer("ListChannels", Collect!ChannelsCalls[3].emits)
  /\ open' = In("open")
  /\ UNCHANGED <<pending, closed, history>>

(* mutant: channels with a closing transaction to wait for are left out    *)
PendingChannelsNotWaiting ==
  /\ Answer("PendingChannels", PendingEmits)
  /\ pending' = [pending EXCEPT !["pendingOpen"] = In("pendingOpen"),
                                !["forceClose"] = In("forceClose")]
  /\ UNCHANGED <<open, closed, history>>

PendingChannels ==
  /\ Answer("PendingChannels", PendingEmits)
  /\ pending' = [st \in PendingStages |-> In(st)]
  /\ UNCHANGED <<open, closed, history>>

ReadCache ==
  /\ Answer("ReadCache", {"numClosedChannels"})
  /\ closed' = cache
  /\ UNCHANGED <<open, pending, history>>

(* Collect returns, and its variables are gone.                            *)
Forget ==
  /\ open' = {} /\ pending' = Nothing /\ closed' = {}
  /\ began' = [c \in Channels |-> "none"] /\ knew' = {}

GetNodeInfo ==
  /\ Answer("GetNodeInfo", Collect!ChannelsCalls[5].emits)
  /\ Forget

(* mutant: every timeout is tolerated                                      *)
CallFailsLate(err) ==
  /\ at \in Calls \ {"ReadCache"}
  /\ at' = "idle"
  /\ cause' = err
  /\ raised' = ~Collect!IsDeadlineExceeded(Collect!Arriving[err])
  /\ Forget
  /\ UNCHANGED <<stage, refreshed, quit, emitted>>

(* A call fails: what was exported before stays exported, nothing follows, *)
(* and the error is sent, unless GetInfo was late.                         *)
CallFails(err) ==
  /\ at \in Calls \ {"ReadCache"}
  /\ at' = "idle"
  /\ cause' = err
  /\ raised' = (at = "GetInfo" =>
                ~Collect!IsDeadlineExceeded(Collect!Arriving[err]))
  /\ Forget
  /\ UNCHANGED <<stage, refreshed, quit, emitted>>

Next ==
  \/ \E c \in Channels : Lives(c)
  \/ Fetch \/ FetchFails \/ Write \/ Raise \/ Tick \/ RefresherQuits \/ Quit
  \/ Begin \/ ChannelBalance \/ GetInfo \/ ListChannels \/ PendingChannels
  \/ ReadCache \/ GetNodeInfo \/ \E err \in Failures : CallFails(err)

Spec == Init /\ [][Next]_vars

(* The ticker ticks, lnd answers or the call fails, and the goroutine, when*)
(* it can go on, does.                                                     *)
FairSpec == Spec /\ WF_vars(Tick) /\ WF_vars(Write)
                 /\ WF_vars(Fetch \/ FetchFails) /\ WF_vars(RefresherQuits)

-----------------------------------------------------------------------------
(* Properties                                                              *)

(* Collect has read its three sources and exports them.                    *)
Complete == at = "GetNodeInfo"

(* A channel that was open when Collect began is not lost between its      *)
(* calls: it is exported as open or as pending, or it is closed by now.    *)
(* Collect asks for the open channels before the pending ones, in the      *)
(* order in which a channel lives.                                         *)
NoOpenChannelLost ==
  Complete =>
    \A c \in Channels :
      began[c] = "open" =>
        \/ c \in open \/ \E st \in PendingStages : c \in pending[st]
        \/ stage[c] = "closed"

(* A channel that does not change while Collect runs is exported exactly   *)
(* where it is, and as closed only if it is. Only a closed channel may be  *)
(* missing, and then the cache did not know it when Collect began.         *)
QuietChannelsExact ==
  Complete =>
    \A c \in Channels :
      began[c] = stage[c] =>
        /\ c \in open <=> stage[c] = "open"
        /\ \A st \in PendingStages : c \in pending[st] <=> stage[c] = st
        /\ c \in closed => stage[c] = "closed"
        /\ c \in knew => c \in closed

(* The cache only grows: a failed refresh does not empty it, and a count   *)
(* of closed channels that has been exported never goes back.              *)
CacheGrows == [][cache \subseteq cache']_cache

(* A closed channel gets into the cache in the end, unless the refresher   *)
(* is told to quit or has an error to send, on which the process ends.     *)
ClosedIsCounted ==
  \A c \in Channels :
    (stage[c] = "closed") ~> (c \in cache \/ quit \/ refresher = "raising")

(* Collect does what Scrape says of it: it exports all that an answer      *)
(* gives or stops at the call that fails, with an error, but without one   *)
(* if it is GetInfo that was late, and nowhere else.                       *)
ImplementsScrape == Collect!Spec
=============================================================================
