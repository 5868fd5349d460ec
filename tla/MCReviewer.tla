----------------------------- MODULE MCReviewer -----------------------------
(* A small instance of ReviewerSeat for TLC. *)
EXTENDS ReviewerSeat

(* Every seat has a principal of its own. *)
OwnPrincipals == {p \in Agents \X Agents : p[1] # p[2]}
=============================================================================
