---------------------------- MODULE MCInboundFee ----------------------------
(* Balances around the first amounts of the series, channels that may not  *)
(* be used, fees by rate and by base with ties among them, channels that   *)
(* only one of the two answers knows, and a channel of other nodes. The    *)
(* product of the highest rate and the highest balance does not fit.       *)
EXTENDS InboundFee

Listing(a, p, b) == [active |-> a, primary |-> p, remoteBalance |-> b]
MCListings == {Listing(TRUE, FALSE, 0), Listing(TRUE, FALSE, 3),
               Listing(TRUE, FALSE, 8), Listing(FALSE, FALSE, 5),
               Listing(TRUE, TRUE, 5)}

Policy(b, r) == [base |-> b, rate |-> r, disabled |-> FALSE]
Disabled == [base |-> 0, rate |-> 0, disabled |-> TRUE]
Edge(s, n1, n2) == [self |-> s, node1 |-> n1, node2 |-> n2]
MCEdges == {Edge(2, Policy(0, 400000), Disabled),
            Edge(2, Policy(0, 1100000), Disabled),
            Edge(2, Policy(8000, 0), Disabled),
            Edge(1, Policy(1000, 200000), Policy(0, 400000)),
            Edge(2, Disabled, Policy(0, 0)),
            Edge(0, Policy(0, 0), Policy(0, 0))}
=============================================================================
