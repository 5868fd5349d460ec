------------------------------ MODULE MCButler ------------------------------
(* A small instance of ButlerAnswers for TLC. *)
EXTENDS ButlerAnswers
=============================================================================
