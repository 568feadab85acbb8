--------------------------- MODULE MCTimerDrainer ---------------------------
(* The timer of EventDrainer: all ticks run on the same instance. *)
EXTENDS EventDrainer

OneDrainer == [p \in Passes |-> CHOOSE d \in Drainers : TRUE]
=============================================================================
