------------------------------- MODULE Scrape -------------------------------
(***************************************************************************)
(* The collectors that ask lnd anew at every scrape: chain, channels,      *)
(* wallet, peers, info, watchtower client and graph. Each Collect makes    *)
(* its calls one after the other and exports what each answer says; a call *)
(* that fails ends it, with an error for the process or, for some causes,  *)
(* without. The registry runs the collectors of a scrape side by side.     *)
(*                                                                         *)
(* Of a metric only its descriptor is kept, by the name of its field. A    *)
(* name in TimelockDelta etc. of the graph stands for the four fields of   *)
(* its min, max, avg and median. Metrics of which there is one per channel,*)
(* peer, tower or account are taken to be there; what the values are is in *)
(* other modules, or left out. The end of the process on an error is in    *)
(* module Exporter.                                                        *)
(***************************************************************************)
EXTENDS Naturals, Sequences, FiniteSets

CONSTANTS
  Collectors,  \* all of them, or all but graph, which may be disabled
  MaxBeside    \* bound: how many collectors are at work side by side

ASSUME CollectorsAssumption ==
  Collectors \subseteq {"chain", "channels", "wallet", "peers", "info",
                        "wtclient", "graph"}

VARIABLES
  lnd,     \* "up" or "down"
  wtOn,    \* lnd's watchtower client is active, as lnd is configured
  beside,  \* the collectors that are at work; the others do not matter
  step,    \* the call a Collect is at, or 0 if it does not run
  emitted, \* the descriptors of the metrics it has exported
  cause,   \* why the call failed that ended it, or "none"
  raised,  \* whether it has sent an error
  ran      \* history: Collect has been called

vars == <<lnd, wtOn, beside, step, emitted, cause, raised, ran>>

-----------------------------------------------------------------------------
(* Why a call fails: the client's deadline or the server's, a deadline the *)
(* server reports within an error of its own, an lnd that could not be     *)
(* reached in time, a watchtower client that is not active, or else.       *)
Causes == {"clientDeadline", "serverDeadline", "innerDeadline",
           "unreachable", "inactive", "other"}

(* An error as it arrives: the context error in its chain, the code of its *)
(* status, and its description, a part for each error it was wrapped in.   *)
(* Only the client's own deadline arrives as a context error; from lnd it  *)
(* comes as text.                                                          *)
Error(context, code, desc) ==
  [context |-> context, code |-> code, desc |-> desc]

DeadlineText == "context deadline exceeded"
InactiveText == "watchtower client not active"
LndText == "text of lnd"
ConnectionText == "text of the connection"

Arriving ==
  [clientDeadline |-> Error("DeadlineExceeded", "none", <<DeadlineText>>),
   serverDeadline |-> Error("none", "DeadlineExceeded", <<DeadlineText>>),
   innerDeadline  |-> Error("none", "DeadlineExceeded",
                            <<LndText, DeadlineText>>),
   unreachable    |-> Error("none", "Unavailable",
                            <<ConnectionText, DeadlineText>>),
   inactive       |-> Error("none", "Unknown", <<InactiveText>>),
   other          |-> Error("none", "Unknown", <<LndText>>)]

(* mutant: only the error of the context is recognized                     *)
IsContextDeadline(err) == err.context = "DeadlineExceeded"

(* status.FromContextError knows a context error; the text that is looked  *)
(* for is a status with this code whose description begins with the        *)
(* context's text.                                                         *)
IsDeadlineExceeded(err) ==
  \/ err.context = "DeadlineExceeded"
  \/ err.code = "DeadlineExceeded" /\ err.desc[1] = DeadlineText

IsInactive(err) == \E i \in DOMAIN err.desc : err.desc[i] = InactiveText

(* Causes on which a Collect returns without an error                      *)
Never == {}
OnTimeout == {c \in Causes : IsDeadlineExceeded(Arriving[c])}
OnInactive == {c \in Causes : IsInactive(Arriving[c])}

Call(rpc, quiet, emits) == [rpc |-> rpc, quiet |-> quiet, emits |-> emits]

ChainCalls ==
  <<Call("GetInfo", OnTimeout,
         {"bestBlockHeight", "bestBlockTimestamp", "syncedToChain",
          "syncedToGraph"})>>

ChannelsCalls ==
  <<Call("ChannelBalance", Never,
         {"channelBalanceDesc", "pendingChannelBalanceDesc"}),
    Call("GetInfo", OnTimeout, {"numActiveChansDesc", "numInactiveChansDesc"}),
    Call("ListChannels", Never,
         {"incomingChanSatDesc", "outgoingChanSatDesc", "numPendingHTLCsDesc",
          "satsSentDesc", "satsRecvDesc", "numUpdatesDesc", "csvDelayDesc",
          "unsettledBalanceDesc", "feePerKwDesc", "commitWeightDesc",
          "commitFeeDesc", "channelUptimeDesc"}),
    Call("PendingChannels", Never,
         {"numPendingChansDesc", "pendingForceCloseBalanceDesc",
          "waitingCloseBalanceDesc", "numClosedChannels"}),
    Call("GetNodeInfo", Never, {"inboundFee"})>>

(* mutant: an error of the last call is taken for an empty wallet          *)
WalletCallsLenient ==
  <<Call("ListUnspent", Never,
         {"numUtxosConfDesc", "numUtxosUnconfDesc", "minUtxoSizeDesc",
          "maxUtxoSizeDesc", "avgUtxoSizeDesc"}),
    Call("WalletBalance", Never,
         {"confirmedBalanceDesc", "unconfirmedBalanceDesc"}),
    Call("ListAccounts", Causes, {"keyCountDesc"})>>

WalletCalls ==
  <<Call("ListUnspent", Never,
         {"numUtxosConfDesc", "numUtxosUnconfDesc", "minUtxoSizeDesc",
          "maxUtxoSizeDesc", "avgUtxoSizeDesc"}),
    Call("WalletBalance", Never,
         {"confirmedBalanceDesc", "unconfirmedBalanceDesc"}),
    Call("ListAccounts", Never, {"keyCountDesc"})>>

PeersCalls ==
  <<Call("ListPeers", Never,
         {"peerCountDesc", "pingTimeDesc", "satSentDesc", "satRecvDesc",
          "bytesSentDesc", "bytesRecvDesc"})>>

InfoCalls == <<Call("GetInfo", Never, {"info"})>>

WtClientCalls ==
  <<Call("ListTowers", OnInactive,
         {"numBackupsDesc", "numPendingBackupsDesc"})>>

Policies == {"TimelockDelta", "MinHtlcMsat", "MaxHtlcMsat", "FeeBaseMsat",
             "FeeRateMsat", "inboundFeeBaseMsatDesc", "inboundFeeRateMsatDesc"}

GraphCalls ==
  <<Call("DescribeGraph", Never, {"numEdgesDesc", "numNodesDesc"} \cup Policies),
    Call("NetworkInfo", Never,
         {"numZombiesDesc", "avgOutDegreeDesc", "maxOutDegreeDesc",
          "graphDiameterDesc", "networkCapacityDesc", "ChanSize"})>>

Calls == [chain |-> ChainCalls, channels |-> ChannelsCalls,
          wallet |-> WalletCalls, peers |-> PeersCalls, info |-> InfoCalls,
          wtclient |-> WtClientCalls, graph |-> GraphCalls]

All(calls) == UNION {calls[i].emits : i \in DOMAIN calls}

-----------------------------------------------------------------------------
(* The types; a Collect that still runs has not failed.                    *)
TypeOK ==
  /\ lnd \in {"up", "down"} /\ wtOn \in BOOLEAN /\ beside \subseteq Collectors
  /\ step \in [Collectors -> Nat]
  /\ emitted \in [Collectors -> SUBSET UNION {All(Calls[c]) : c \in Collectors}]
  /\ cause \in [Collectors -> Causes \cup {"none"}]
  /\ raised \in [Collectors -> BOOLEAN] /\ ran \in [Collectors -> BOOLEAN]
  /\ \A c \in Collectors :
       /\ step[c] <= Len(Calls[c])
       /\ emitted[c] \subseteq All(Calls[c])
       /\ step[c] # 0 => cause[c] = "none" /\ ~raised[c]

Init ==
  /\ lnd = "up"
  /\ wtOn \in BOOLEAN
  /\ beside \in {s \in SUBSET Collectors : Cardinality(s) = MaxBeside}
  /\ step = [c \in Collectors |-> 0]
  /\ emitted = [c \in Collectors |-> {}]
  /\ cause = [c \in Collectors |-> "none"]
  /\ raised = [c \in Collectors |-> FALSE]
  /\ ran = [c \in Collectors |-> FALSE]

Begin(c) ==
  /\ c \in beside /\ step[c] = 0
  /\ step' = [step EXCEPT ![c] = 1]
  /\ emitted' = [emitted EXCEPT ![c] = {}]
  /\ cause' = [cause EXCEPT ![c] = "none"]
  /\ raised' = [raised EXCEPT ![c] = FALSE]
  /\ ran' = [ran EXCEPT ![c] = TRUE]
  /\ UNCHANGED <<lnd, wtOn, beside>>

Now(c) == Calls[c][step[c]]

Answered(c) ==
  /\ step[c] # 0 /\ lnd = "up"
  /\ Now(c).rpc = "ListTowers" => wtOn
  /\ emitted' = [emitted EXCEPT ![c] = @ \cup Now(c).emits]
  /\ step' = [step EXCEPT ![c] = IF @ = Len(Calls[c]) THEN 0 ELSE @ + 1]
  /\ UNCHANGED <<lnd, wtOn, beside, cause, raised, ran>>

(* A call that lnd is not up for fails; one that it is up for may fail all *)
(* the same, and may be late in either case.                               *)
MayFail(c, err) ==
  /\ step[c] # 0
  /\ err = "inactive" =>
       Now(c).rpc = "ListTowers" /\ lnd = "up" /\ ~wtOn

(* Collect returns, and has sent an error unless the cause is one on which *)
(* it keeps quiet.                                                         *)
Failed(c, err) ==
  /\ MayFail(c, err)
  /\ step' = [step EXCEPT ![c] = 0]
  /\ cause' = [cause EXCEPT ![c] = err]
  /\ raised' = [raised EXCEPT ![c] = err \notin Now(c).quiet]
  /\ UNCHANGED <<lnd, wtOn, beside, emitted, ran>>

(* lnd goes away, or comes back, perhaps configured in another way.        *)
LndChanges ==
  /\ lnd' = IF lnd = "up" THEN "down" ELSE "up"
  /\ wtOn' \in IF lnd = "up" THEN {wtOn} ELSE BOOLEAN
  /\ UNCHANGED <<beside, step, emitted, cause, raised, ran>>

Next ==
  \/ LndChanges
  \/ \E c \in Collectors :
       \/ Begin(c) \/ Answered(c)
       \/ \E err \in Causes : Failed(c, err)

Spec == Init /\ [][Next]_vars

-----------------------------------------------------------------------------
(* Properties                                                              *)

Finished(c) == step[c] = 0 /\ ran[c]

(* GetInfo was late: lndclient's deadline has passed, or lnd's had. Not so *)
(* a connection that could not be made in time, and not an error in which  *)
(* lnd speaks of a deadline of its own.                                    *)
TimedOut(c) == cause[c] \in {"clientDeadline", "serverDeadline"}

(* What a Collect may miss without an error: everything if GetInfo is late *)
(* for chain, everything but the two balances if it is late for channels,  *)
(* and the towers if there is no watchtower client.                        *)
Tolerable(c) ==
  \/ c = "chain" /\ TimedOut(c) /\ emitted[c] = {}
  \/ c = "channels" /\ TimedOut(c) /\ emitted[c] = ChannelsCalls[1].emits
  \/ c = "wtclient" /\ cause[c] = "inactive" /\ emitted[c] = {}

(* Metrics that a finished Collect has left out are missing for a reason   *)
(* somebody can see: an error was sent, on which the process ends, or the  *)
(* gap is tolerable. An lnd that cannot be reached is never taken for one  *)
(* that is slow, whatever its error says of deadlines.                     *)
GapsAreExplained ==
  \A c \in Collectors :
    Finished(c) /\ emitted[c] # All(Calls[c]) => raised[c] \/ Tolerable(c)

(* A tolerable gap does not make the process end: a slow GetInfo of chain  *)
(* or channels is recognized from whichever side the timeout comes, and a  *)
(* timeout of any other call of channels is not taken for one.             *)
ToleratedIsNotRaised ==
  \A c \in Collectors : Finished(c) /\ Tolerable(c) => ~raised[c]
=============================================================================
