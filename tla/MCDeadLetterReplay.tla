------------------------- MODULE MCDeadLetterReplay -------------------------
(***************************************************************************)
(* DeadLetterReplay with a worker, a replay in a container of its own, and  *)
(* an event of each of two tenants.                                        *)
(***************************************************************************)
EXTENDS DeadLetterReplay

CONSTANTS w1, r1, e1, e2

MCInstances == {w1, r1}
MCWorkers == {w1}
MCTableOf == [p \in MCInstances |-> IF p = w1 THEN "worker" ELSE "replay"]
MCEvents == {e1, e2}
MCTenantOf == [e \in MCEvents |-> IF e = e1 THEN "a" ELSE "b"]
=============================================================================
