------------------------- MODULE MCInvestigationRun -------------------------
(* Instances of InvestigationRun for TLC. *)
EXTENDS InvestigationRun, TLC

\* Requests and executors are interchangeable.
Symmetry == Permutations(Requests) \cup Permutations(Executors)
=============================================================================
