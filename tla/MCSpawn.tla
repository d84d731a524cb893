------------------------------- MODULE MCSpawn -------------------------------
(* Instances of ApiPilot for TLC. *)
EXTENDS ApiPilot

\* A task that is repeated, with a judge; and two tasks without.
MCPilots == {[tasks |-> 1, repeats |-> 2, judge |-> TRUE],
             [tasks |-> 2, repeats |-> 1, judge |-> FALSE]}

=============================================================================
