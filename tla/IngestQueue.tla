---------------------------- MODULE IngestQueue -----------------------------
(***************************************************************************)
(* What the durable ingest path promises to whoever hands it an event      *)
(* (packages/ingest/src/ingest.ts:6-12): once accepted, an event waits     *)
(* until it is a row of DeviceEvent or a record of the dead letter.        *)
(* DrainSpool implements it.                                               *)
(***************************************************************************)
CONSTANT Events

VARIABLES accepted, waiting, stored, quarantined

queueVars == <<accepted, waiting, stored, quarantined>>

Init ==
    accepted = {} /\ waiting = {} /\ stored = {} /\ quarantined = {}

Accept(e) ==
    /\ e \notin accepted
    /\ accepted' = accepted \cup {e}
    /\ waiting' = waiting \cup {e}
    /\ UNCHANGED <<stored, quarantined>>

\* Waiting events become rows, all those of one insert at once.
Store ==
    /\ \E S \in SUBSET waiting : stored' = stored \cup S
    /\ UNCHANGED <<accepted, waiting, quarantined>>

\* Waiting events get a dead letter, and resolved ones stop waiting.
Resolve ==
    /\ \E Q \in SUBSET waiting : quarantined' = quarantined \cup Q
    /\ \E R \in SUBSET waiting :
          /\ R \subseteq stored \cup quarantined'
          /\ waiting' = waiting \ R
    /\ UNCHANGED <<accepted, stored>>

Next == (\E e \in Events : Accept(e)) \/ Store \/ Resolve

Spec == Init /\ [][Next]_queueVars
=============================================================================
