------------------------- MODULE MCChannelsCollector ------------------------
(* Two channels, whose lives cross each other and the calls of Collect. *)
EXTENDS ChannelsCollector
=============================================================================
