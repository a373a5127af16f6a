-------------------------- MODULE MCPaymentsMonitor -------------------------
(* Payments that succeed, or are in a state that is not expected of a final *)
(* update, with no or two attempts.                                         *)
EXTENDS PaymentsMonitor
=============================================================================
