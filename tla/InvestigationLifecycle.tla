----------------------- MODULE InvestigationLifecycle -----------------------
(***************************************************************************)
(* The life of an incident's investigation, as packages/investigations     *)
(* documents it (complete.ts:4-17): one attempt in flight at a time, each  *)
(* with a number of its own; a result makes the run ready only while its   *)
(* attempt is in flight, and later it is kept as history.                  *)
(* InvestigationRun implements it.                                         *)
(***************************************************************************)
EXTENDS Naturals

VARIABLES
    status,   \* "none" before the first attempt
    attempt,  \* the attempt in flight, or the last one
    kept      \* attempts whose result is saved

lifeVars == <<status, attempt, kept>>

Init == status = "none" /\ attempt = 0 /\ kept = {}

Start ==
    /\ status # "pending"
    /\ status' = "pending" /\ attempt' = attempt + 1
    /\ UNCHANGED kept

Succeed ==
    /\ status = "pending" /\ attempt \notin kept
    /\ status' = "ready" /\ kept' = kept \cup {attempt}
    /\ UNCHANGED attempt

GiveUp ==
    /\ status = "pending"
    /\ status' \in {"failed", "expired"}
    /\ UNCHANGED <<attempt, kept>>

\* The result of an attempt that is no longer in flight.
KeepLate ==
    /\ \E a \in 1..attempt :
          /\ a \notin kept
          /\ status = "pending" => a # attempt
          /\ kept' = kept \cup {a}
    /\ UNCHANGED <<status, attempt>>

Next == Start \/ Succeed \/ GiveUp \/ KeepLate

Spec == Init /\ [][Next]_lifeVars
=============================================================================
