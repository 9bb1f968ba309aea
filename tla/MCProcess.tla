------------------------------ MODULE MCProcess ------------------------------
(* A small instance of Process: the monitors of MCScheduler. *)
EXTENDS Process, MCScheduler
=============================================================================
