----------------------------- MODULE DrainSpool -----------------------------
(***************************************************************************)
(* packages/ingest/src/ingest.ts, drainSpool(): the body of the            *)
(* 'ingest-drain' job of the worker (services/worker/src/registry.ts).     *)
(* Each job runs passes of drainOnce() on an EventDrainer of its own, over *)
(* the one spool of the process.  A pass id of EventDrainer is a job here. *)
(***************************************************************************)
EXTENDS EventDrainer

CONSTANT MaxBatches  \* maxBatches: passes a job runs at most

ASSUME JobAssumption ==
    /\ MaxBatches \in Nat \ {0}
    /\ \A p, q \in Passes : DrainerOf[p] = DrainerOf[q] => p = q

VARIABLES
    running,  \* the job is in drainSpool()
    batches,  \* result.batches of the job
    ended     \* how its last run ended for BullMQ

jobVars == <<running, batches, ended>>
vars == <<drainVars, jobVars>>

Init ==
    /\ DrainInit
    /\ running = [p \in Passes |-> FALSE]
    /\ batches = [p \in Passes |-> 0]
    /\ ended = [p \in Passes |-> "none"]

\* Between the passes of a job only promise continuations run, so no callback
\* of the receivers or of the health server comes in between.
NoContinuationDue == \A p \in Passes : running[p] => pc[p] # "idle"

\* The job takes the spool and builds its EventDrainer.  Jobs come from the
\* receivers and, every 30 s, from the periodic drain.
StartJob(p) ==
    LET d == DrainerOf[p] IN
    /\ up /\ ~running[p]
    /\ NoContinuationDue
    /\ running' = [running EXCEPT ![p] = TRUE]
    /\ batches' = [batches EXCEPT ![p] = 0]
    /\ ended' = [ended EXCEPT ![p] = "none"]
    /\ result' = [result EXCEPT ![p] = "none"]
    /\ draining' = [draining EXCEPT ![d] = FALSE]
    /\ backoff' = [backoff EXCEPT ![d] = FALSE]
    /\ attempts' = [attempts EXCEPT ![d] = [e \in Events |-> 0]]
    /\ UNCHANGED <<spoolVars, storeVars, pc, entries, next, reply, outcome>>

\* A loop without the bound on the number of batches.
LoopsWithoutBound(p) == result[p] \in {"none", "drained"}

\* The loop goes on after a pass that drained something, up to MaxBatches.
LoopsOn(p) ==
    \/ result[p] = "none"
    \/ result[p] = "drained" /\ batches[p] + 1 < MaxBatches

NextBatch(p) ==
    /\ running[p] /\ pc[p] = "idle"
    /\ LoopsOn(p)
    /\ BeginPass(p) \/ EmptyPass(p)
    /\ batches' = [batches EXCEPT ![p] =
                     IF result[p] = "drained" THEN batches[p] + 1 ELSE batches[p]]
    /\ UNCHANGED <<running, ended>>

\* Out of the loop: stats() for backlogRemains, and the handler throws when
\* result.failed > 0.  A deferred outcome breaks before it is counted.
EndJob(p) ==
    /\ up /\ running[p] /\ pc[p] = "idle"
    /\ ~LoopsOn(p)
    /\ running' = [running EXCEPT ![p] = FALSE]
    /\ ended' = [ended EXCEPT ![p] =
                   IF result[p] = "failed" THEN "threw" ELSE "completed"]
    /\ stats
    /\ UNCHANGED <<passVars, drainerVars, storeVars, batches>>

JobStep(p) ==
    \/ StartJob(p) \/ NextBatch(p) \/ EndJob(p)
    \/ PassStep(p) /\ UNCHANGED jobVars

\* The jobs in flight are lost with the process.
LoseJobs ==
    /\ running' = [p \in Passes |-> FALSE]
    /\ batches' = [p \in Passes |-> 0]
    /\ ended' = [p \in Passes |-> "none"]

Next ==
    \/ Receive /\ NoContinuationDue /\ UNCHANGED jobVars
    \/ ReadStats /\ NoContinuationDue /\ UNCHANGED jobVars
    \/ Reboot /\ UNCHANGED jobVars
    \/ Crash /\ LoseJobs
    \/ StoreChanges /\ UNCHANGED jobVars
    \/ \E p \in Passes : JobStep(p)

\* The supervisor restarts the process, the periodic drain enqueues a job
\* every 30 s (schedules.ts, INGEST_DRAIN_LOOP) and every insert is answered.
Fairness ==
    /\ WF_vars(Reboot /\ UNCHANGED jobVars)
    /\ \A p \in Passes : WF_vars(JobStep(p))

Spec == Init /\ [][Next]_vars /\ Fairness

-----------------------------------------------------------------------------
(* Properties *)

JobTypeOK ==
    /\ DrainTypeOK
    /\ running \in [Passes -> BOOLEAN]
    /\ batches \in [Passes -> 0..(MaxBatches - 1)]
    /\ ended \in [Passes -> {"none", "completed", "threw"}]

\* The whole path implements the abstract queue: an event leaves the spool
\* only when it is a row or a dead letter, and rows and dead letters are only
\* made of events that wait (drainer.ts:111-112).
Queue == INSTANCE IngestQueue
             WITH waiting <- Waiting(ReadPosition), quarantined <- dlq

QueueSpec == Queue!Spec

\* A crash, wherever it strikes, costs at most one accepted event: the one
\* appended behind the fragment it left (spool.ts:32-33).  A second crash can
\* make of the offset the first one left a larger gap.
LossBoundedByCrashes ==
    Cardinality(accepted \ (Resolved \cup Waiting(ReadPosition))) <= crashes

\* A drain that fails has to be seen (ingest.ts:160-161): the job that ran the
\* failed pass fails too.
FailedPassFailsTheJob ==
    [][\A p \in Passes :
         up' /\ running[p] /\ ~running'[p] /\ result[p] \in {"failed", "partial"}
         => ended'[p] = "threw"]_vars

=============================================================================
