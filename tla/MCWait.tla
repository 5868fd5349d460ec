------------------------------- MODULE MCWait -------------------------------
(* A small instance of WaitBridge for TLC. *)
EXTENDS WaitBridge
=============================================================================
