------------------------------ MODULE MCReports -----------------------------
(* The three collectors of module Reports: TLC takes one of them at a time. *)
(* Every graph of up to three edges whose policies are equal, unknown,      *)
(* without an inbound fee, with a discount or with a surcharge, every       *)
(* wallet of up to four outputs, every list of up to three towers.          *)
EXTENDS Reports

Pol(value, known, base, rate) ==
  [value |-> value, known |-> known, base |-> base, rate |-> rate]

MCPolicies == {Pol(0, FALSE, 0, 0), Pol(1, TRUE, -2, 0), Pol(4, TRUE, 0, 3),
               Pol(5, TRUE, 1, -1)}

MCSessions == {[done |-> 0, pending |-> 1], [done |-> 2, pending |-> 0]}

VARIABLE which

Init ==
  /\ which \in {"graph", "wallet", "towers"}
  /\ Graph!Init /\ Wallet!Init /\ Towers!Init
  /\ which # "towers" => tWtOn

Next ==
  \/ which = "graph" /\ Graph!Next /\ UNCHANGED <<which, wVars, tVars>>
  \/ which = "wallet" /\ Wallet!Next /\ UNCHANGED <<which, gVars, tVars>>
  \/ which = "towers" /\ Towers!Next /\ UNCHANGED <<which, gVars, wVars>>

Spec == Init /\ [][Next]_<<which, gVars, wVars, tVars>>
=============================================================================
