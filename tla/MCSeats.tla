------------------------------ MODULE MCSeats ------------------------------
(* Small instances of SeatRuntime for TLC. *)
EXTENDS SeatRuntime

(* Every seat has a principal of its own. *)
OwnPrincipals == {p \in Agents \X Agents : p[1] # p[2]}
=============================================================================
