-------------------------- MODULE MCStateCollector --------------------------
(* MaxTime bounds the clock; every event may fall on any of its instants. *)
EXTENDS StateCollector
=============================================================================
