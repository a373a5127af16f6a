----------------------------- MODULE Lifecycle -----------------------------
(***************************************************************************)
(* What the lndmon process promises whoever supervises it, without the     *)
(* channels, goroutines and error buffer that implement it:                *)
(*   - it stops only for a cause, a signal or a failure, and the cause it  *)
(*     reports is the one it stopped for;                                  *)
(*   - once it has started to stop it starts no monitor;                   *)
(*   - after a stop, no monitor is left that could read from a connection  *)
(*     to lnd that is being closed, or be cut off by the exit.             *)
(***************************************************************************)

CONSTANT Monitors       \* the stream monitors the process may run

VARIABLES
  phase,                \* where the process is in its life
  cause,                \* why it stops: "none" while it does not
  live                  \* the monitors that are running

vars == <<phase, cause, live>>

Init == phase = "starting" /\ cause = "none" /\ live = {}

StartMonitor(m) ==
  /\ phase = "starting"
  /\ live' = live \cup {m}
  /\ UNCHANGED <<phase, cause>>

(* A monitor whose stream has failed ends by itself, in any phase.         *)
EndMonitor(m) ==
  /\ m \in live
  /\ live' = live \ {m}
  /\ UNCHANGED <<phase, cause>>

Started ==
  /\ phase = "starting"
  /\ phase' = "running"
  /\ UNCHANGED <<cause, live>>

(* A process that cannot start closes the connection, if it has one, and   *)
(* exits: nothing is stopped first.                                        *)
AbortStart ==
  /\ phase = "starting"
  /\ phase' \in {"closing", "exited"}
  /\ cause' = "startErr"
  /\ UNCHANGED live

BeginStop(c) ==
  /\ phase = "running"
  /\ phase' = "stopping"
  /\ cause' = c
  /\ UNCHANGED live

FinishStop ==
  /\ phase = "stopping"
  /\ live = {}
  /\ phase' = "closing"
  /\ UNCHANGED <<cause, live>>

Exit ==
  /\ phase = "closing"
  /\ phase' = "exited"
  /\ UNCHANGED <<cause, live>>

Next ==
  \/ \E m \in Monitors : StartMonitor(m) \/ EndMonitor(m)
  \/ Started
  \/ AbortStart
  \/ \E c \in {"signal", "stopErr"} : BeginStop(c)
  \/ FinishStop
  \/ Exit

Spec == Init /\ [][Next]_vars
=============================================================================
