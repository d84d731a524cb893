------------------------------- MODULE MCLocal -------------------------------
(* Instances of LocalBackend for TLC: a shared policy, and Main and Sub forked from it. *)
EXTENDS LocalBackend

CONSTANTS shared, main, sub, b1, l1

=============================================================================
