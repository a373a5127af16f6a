---------------------------- MODULE MCHtlcMonitor ---------------------------
(* Two forwards and a receive; the forwards share their channels, and the  *)
(* failure strings of the links differ only in the case of a letter. Nothing*)
(* tells the two forwards apart.                                           *)
EXTENDS HtlcMonitor, TLC

CONSTANTS f1, f2, r1

MCKeys == {f1, f2, r1}
MCKeyType == [k \in MCKeys |-> IF k = r1 THEN "receive" ELSE "forward"]
MCChans == [k \in MCKeys |-> IF k = r1 THEN "A" ELSE "AB"]
MCReasons == {"No Route", "no route"}
MCReasonLabel == [r \in MCReasons \cup {"", "failed_back"} |->
                    IF r \in MCReasons THEN "no_route" ELSE r]

Symmetric == Permutations({f1, f2})
=============================================================================
