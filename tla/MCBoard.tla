------------------------------ MODULE MCBoard ------------------------------
(* Small instances of Board for TLC. *)
EXTENDS Board

CONSTANTS a1, a2, a3, t1, t2

OneTicket == <<t1>>
TwoTickets == <<t1, t2>>
Backwards == <<t2, t1>>

(* a3 creates the tickets. *)
OwnPrincipals == [a \in Agents |-> a]
SharedPrincipal == [a \in Agents |-> IF a = a2 THEN a1 ELSE a]
CreatedByFirst == [t \in Tickets |-> a1]
CreatedByThird == [t \in Tickets |-> a3]

(* The sort puts one seat first, the same for every ticket of the call. *)
SameFirst == {[t \in Tickets |-> a] : a \in Explicit}
=============================================================================
