---------------------------- MODULE MCDrainSpool ----------------------------
(* Instances of DrainSpool for TLC: every job has an EventDrainer of its own. *)
EXTENDS DrainSpool, TLC

OwnDrainer == [p \in Passes |-> p]
=============================================================================
