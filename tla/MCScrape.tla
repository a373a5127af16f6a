------------------------------ MODULE MCScrape ------------------------------
(* The collectors share nothing but lnd: any three of them side by side. *)
EXTENDS Scrape
=============================================================================
