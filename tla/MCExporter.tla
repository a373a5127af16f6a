---------------------------- MODULE MCExporter ------------------------------
(* The exporter with two monitors, checked by TLC. *)
EXTENDS Exporter
=============================================================================
