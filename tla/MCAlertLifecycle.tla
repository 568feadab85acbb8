-------------------------- MODULE MCAlertLifecycle --------------------------
(***************************************************************************)
(* AlertLifecycle with one worker process, two ticks of its polling loop   *)
(* and two kinds of alert.                                                 *)
(***************************************************************************)
EXTENDS AlertLifecycle, TLC

CONSTANTS t1, t2, i1, k1, k2

MCTicks == {t1, t2}
MCInstances == {i1}
MCInstanceOf == [t \in MCTicks |-> i1]
MCKinds == {k1, k2}
MCFaults == {"lock", "send", "database", "crash"}

Symmetry == Permutations(MCTicks) \cup Permutations(MCKinds)
=============================================================================
