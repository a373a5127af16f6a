-------------------------- MODULE WtClientCollector -------------------------
(***************************************************************************)
(* The watchtower client collector (collectors/wt_client_collector.go):    *)
(* one call, which fails without an error if lnd has no watchtower client, *)
(* and a loop over the towers that adds up the backups of the sessions of  *)
(* each.                                                                   *)
(*                                                                         *)
(* lnd lists the sessions of a tower in groups, which the loop runs over   *)
(* one after the other: here they are one list. The sums are taken to fit  *)
(* 32 bits.                                                                *)
(***************************************************************************)
EXTENDS Naturals, Sequences, Functions

CONSTANTS
  Sessions,    \* [done, pending]: the backups of a session
  Nil,         \* an entry of the list that is no tower
  MaxTowers,   \* bound: the towers in the list
  MaxSessions  \* bound: the sessions of a tower

(* What is assumed of the constants: MCReports evaluates it.               *)
SessionsAssumption ==
  /\ Sessions \subseteq [done : Nat, pending : Nat]
  /\ Nil \notin Seq(Sessions)
  /\ MaxTowers \in Nat /\ MaxSessions \in Nat

VARIABLES
  wtOn,    \* lnd's watchtower client is active
  at,      \* the call Collect waits for, "loop", or "idle"
  towers,  \* ListTowers' answer: for each tower its sessions
  next,    \* the place of the tower the loop is at, 0 without an answer
  session, \* ... and of its session
  numBackups, numPendingBackups,
  backups, \* what is exported of the towers, by place
  cause,   \* why the call failed that ended Collect, or "none"
  raised   \* whether it has sent an error

vars == <<wtOn, at, towers, next, session, numBackups, numPendingBackups, backups,
          cause, raised>>
local == <<towers, next, session, numBackups, numPendingBackups, backups>>
Finished == at = "idle" /\ next # 0

(* Collect as module Scrape has it, which takes it that there is a tower.  *)
Collect == INSTANCE Scrape WITH
  Collectors <- {"wtclient"}, MaxBeside <- 1,
  lnd <- "up", wtOn <- wtOn, beside <- {"wtclient"},
  step <- [c \in {"wtclient"} |-> IF at = "idle" THEN 0 ELSE 1],
  emitted <- [c \in {"wtclient"} |->
                IF Finished THEN {"numBackupsDesc", "numPendingBackupsDesc"}
                ELSE {}],
  cause <- [c \in {"wtclient"} |-> cause],
  raised <- [c \in {"wtclient"} |-> raised],
  ran <- [c \in {"wtclient"} |-> at # "idle" \/ Finished \/ cause # "none"]

-----------------------------------------------------------------------------
Init ==
  /\ wtOn \in BOOLEAN
  /\ at = "idle"
  /\ towers = <<>> /\ next = 0 /\ session = 1
  /\ numBackups = 0 /\ numPendingBackups = 0 /\ backups = <<>>
  /\ cause = "none" /\ raised = FALSE

Begin ==
  /\ at = "idle"
  /\ at' = "ListTowers"
  /\ towers' = <<>> /\ next' = 0 /\ session' = 1
  /\ numBackups' = 0 /\ numPendingBackups' = 0 /\ backups' = <<>>
  /\ cause' = "none" /\ raised' = FALSE
  /\ UNCHANGED wtOn

ListTowers ==
  /\ at = "ListTowers" /\ wtOn
  /\ at' = "loop"
  /\ LET Lists(S, bound) == UNION {[1..m -> S] : m \in 0..bound} IN
       towers' \in Lists(Lists(Sessions, MaxSessions) \cup {Nil}, MaxTowers)
  /\ next' = 1
  /\ UNCHANGED <<wtOn, session, numBackups, numPendingBackups, backups, cause,
                 raised>>

SkipNil ==
  /\ at = "loop" /\ next \in DOMAIN towers /\ towers[next] = Nil
  /\ next' = next + 1
  /\ backups' = Append(backups, Nil)
  /\ UNCHANGED <<wtOn, at, towers, session, numBackups, numPendingBackups, cause,
                 raised>>

AddSession ==
  /\ at = "loop" /\ next \in DOMAIN towers /\ towers[next] # Nil
  /\ session \in DOMAIN towers[next]
  /\ numBackups' = numBackups + towers[next][session].done
  /\ numPendingBackups' = numPendingBackups + towers[next][session].pending
  /\ session' = session + 1
  /\ UNCHANGED <<wtOn, at, towers, next, backups, cause, raised>>

(* mutant: the sums go on from tower to tower                              *)
ExportTowerGoesOn ==
  /\ at = "loop" /\ next \in DOMAIN towers /\ towers[next] # Nil
  /\ session \notin DOMAIN towers[next]
  /\ backups' = Append(backups, [done |-> numBackups,
                                 pending |-> numPendingBackups])
  /\ next' = next + 1 /\ session' = 1
  /\ UNCHANGED <<wtOn, at, towers, numBackups, numPendingBackups, cause, raised>>

(* The sums of a tower go out; those of the next one begin at 0.           *)
ExportTower ==
  /\ at = "loop" /\ next \in DOMAIN towers /\ towers[next] # Nil
  /\ session \notin DOMAIN towers[next]
  /\ backups' = Append(backups, [done |-> numBackups,
                                 pending |-> numPendingBackups])
  /\ next' = next + 1 /\ session' = 1
  /\ numBackups' = 0 /\ numPendingBackups' = 0
  /\ UNCHANGED <<wtOn, at, towers, cause, raised>>

End ==
  /\ at = "loop" /\ next \notin DOMAIN towers
  /\ at' = "idle"
  /\ UNCHANGED <<wtOn, local, cause, raised>>

(* The call fails: the error is sent, unless it is that lnd has no active  *)
(* watchtower client.                                                      *)
Fails(err) ==
  /\ at = "ListTowers"
  /\ err = "inactive" => ~wtOn
  /\ at' = "idle" /\ cause' = err
  /\ raised' = ~Collect!IsInactive(Collect!Arriving[err])
  /\ UNCHANGED <<wtOn, local>>

Next ==
  \/ Begin \/ ListTowers \/ SkipNil \/ AddSession \/ ExportTower \/ End
  \/ \E err \in Collect!Causes : Fails(err)

Spec == Init /\ [][Next]_vars

-----------------------------------------------------------------------------
(* Properties                                                              *)

(* The types; the sums are of the tower the loop is at.                    *)
TypeOK ==
  /\ wtOn \in BOOLEAN
  /\ at \in {"idle", "ListTowers", "loop"}
  /\ next \in 0..Len(towers) + 1
  /\ numBackups \in Nat /\ numPendingBackups \in Nat
  /\ session = 1 => numBackups = 0 /\ numPendingBackups = 0
  /\ next # 0 => Len(backups) = next - 1
  /\ cause \in Collect!Causes \cup {"none"} /\ raised \in BOOLEAN

(* Each tower is exported with the backups of its own sessions, done and   *)
(* pending ones apart, whatever towers without sessions or entries that    *)
(* are none lie between, and by the end every one of them has been.        *)
BackupsAreRight ==
  /\ \A i \in DOMAIN backups :
       IF towers[i] = Nil THEN backups[i] = Nil
       ELSE LET Own(field) ==
                  SumFunction([j \in DOMAIN towers[i] |-> towers[i][j][field]]) IN
            backups[i] = [done |-> Own("done"), pending |-> Own("pending")]
  /\ Finished => Len(backups) = Len(towers)

(* The collector does what Scrape says of it: it keeps quiet about a       *)
(* client that is not active, and of no other failure.                     *)
ImplementsScrape == Collect!Spec
=============================================================================
