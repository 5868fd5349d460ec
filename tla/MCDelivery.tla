----------------------------- MODULE MCDelivery -----------------------------
(* Small instances of BatchDelivery for TLC. *)
EXTENDS BatchDelivery, TLC

(* The pull request of a rolling batch is moved, not replaced. *)
OneOrTwo == [p \in AllPolicies |-> IF p = "frozen" THEN 2 ELSE 1]

(* Nothing tells the tickets apart. *)
AnyTicket == Permutations(Tickets)
=============================================================================
