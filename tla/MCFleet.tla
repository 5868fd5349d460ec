------------------------------ MODULE MCFleet ------------------------------
(* Two seats on one host, each on its own board; re-roling the first asks   *)
(* for the template, and so the principal, of the second.                   *)
EXTENDS FleetExecutor
MCHome == [s \in Seats |-> IF s = "a" THEN "ta" ELSE "tb"]
MCTarget == [t \in Templates |-> "tb"]
MCPrincipal == [t \in Templates |-> t]
MCBoard == [s \in Seats |-> IF s = "a" THEN "x" ELSE "y"]
MCBoardCap == [b \in {"x", "y"} |-> IF b = "x" THEN 2 ELSE 1]
=============================================================================
