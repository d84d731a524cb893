------------------------------ MODULE MCWorker ------------------------------
(* A small instance of VllmWorker for TLC. *)
EXTENDS VllmWorker, TLC

=============================================================================
