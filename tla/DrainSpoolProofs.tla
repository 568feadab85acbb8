-------------------------- MODULE DrainSpoolProofs --------------------------
(***************************************************************************)
(* Proofs about DrainSpool for every value of its constants: its type      *)
(* invariant, and, for a deployment that avoids the recorded hazards, that *)
(* no accepted event is lost.  The lemmas about the steps it shares with   *)
(* the timer are those of EventDrainerProofs.                              *)
(***************************************************************************)
EXTENDS DrainSpool, EventDrainerProofs

-----------------------------------------------------------------------------
(* Jobs *)

\* A step of DrainSpool is a step of the drainer, or a job that takes a fresh
\* EventDrainer; the end of a job is a call of stats() for the drainer.
LEMMA JobStepIsDrainerStep ==
    ASSUME [Next]_vars
    PROVE  [TimerNext]_drainVars \/ \E p \in Passes : StartJob(p)
<1>1. CASE UNCHANGED vars
  BY <1>1 DEF vars
<1>2. CASE \/ Receive \/ ReadStats \/ Reboot \/ Crash \/ StoreChanges
  BY <1>2 DEF TimerNext
<1>3. ASSUME NEW p \in Passes, JobStep(p)
      PROVE  TimerNext \/ StartJob(p)
  <2>1. CASE NextBatch(p)
    BY <2>1 DEF NextBatch, TimerNext, Tick
  <2>2. CASE EndJob(p)
    BY <2>2 DEF EndJob, ReadStats, TimerNext
  <2>3. CASE PassStep(p)
    BY <2>3 DEF TimerNext
  <2> QED BY <1>3, <2>1, <2>2, <2>3 DEF JobStep
<1> QED BY <1>1, <1>2, <1>3 DEF Next

\* A fresh EventDrainer is well typed.
LEMMA StartJobType ==
    ASSUME DrainTypeOK, NEW p \in Passes, StartJob(p)
    PROVE  DrainTypeOK'
<1> USE DEF DrainTypeOK
<1>1. PassTypeOK'
  BY DEF StartJob, PassTypeOK, Batch
<1>2. DrainerTypeOK'
  <2>1. draining' \in [Drainers -> BOOLEAN]
    BY DEF StartJob, DrainerTypeOK
  <2>2. backoff' \in [Drainers -> BOOLEAN]
    BY DEF StartJob, DrainerTypeOK
  <2>3. [e \in Events |-> 0] \in [Events -> 0..MaxAttempts]
    BY DrainerAssumption
  <2>4. attempts' \in [Drainers -> [Events -> 0..MaxAttempts]]
    BY <2>3 DEF StartJob, DrainerTypeOK
  <2> QED BY <2>1, <2>2, <2>4 DEF DrainerTypeOK
<1> QED BY <1>1, <1>2, UnchangedTypes DEF StartJob

\* The jobs' own variables keep their types, whatever the pass under them does.
LEMMA JobsType ==
    ASSUME JobTypeOK, [Next]_vars
    PROVE  /\ running' \in [Passes -> BOOLEAN]
           /\ batches' \in [Passes -> 0..(MaxBatches - 1)]
           /\ ended' \in [Passes -> {"none", "completed", "threw"}]
<1> USE DEF JobTypeOK
<1>1. CASE UNCHANGED jobVars
  BY <1>1 DEF jobVars
<1>2. CASE LoseJobs
  BY <1>2, JobAssumption DEF LoseJobs
<1>3. ASSUME NEW p \in Passes, StartJob(p) \/ NextBatch(p) \/ EndJob(p)
      PROVE  /\ running' \in [Passes -> BOOLEAN]
             /\ batches' \in [Passes -> 0..(MaxBatches - 1)]
             /\ ended' \in [Passes -> {"none", "completed", "threw"}]
  <2>1. CASE StartJob(p)
    BY <2>1, JobAssumption DEF StartJob
  <2>2. CASE NextBatch(p)
    BY <2>2, JobAssumption DEF NextBatch, LoopsOn
  <2>3. CASE EndJob(p)
    BY <2>3 DEF EndJob
  <2> QED BY <1>3, <2>1, <2>2, <2>3
<1> QED BY <1>1, <1>2, <1>3 DEF Next, JobStep, vars

\* Every step of DrainSpool preserves its type invariant.
LEMMA JobTypeStep ==
    ASSUME JobTypeOK, [Next]_vars
    PROVE  JobTypeOK'
<1>1. DrainTypeOK'
  BY JobStepIsDrainerStep, DrainTypeStep, StartJobType DEF JobTypeOK
<1> QED BY <1>1, JobsType DEF JobTypeOK

\* The initial state is well typed.
LEMMA JobTypeInit == Init => JobTypeOK
BY DrainTypeInit, JobAssumption DEF Init, JobTypeOK

\* Every value the spool, the passes, the drainers, the jobs and the store take
\* is one the code expects, with any number of jobs and any crash.
THEOREM JobTypeCorrect == Spec => []JobTypeOK
BY JobTypeInit, JobTypeStep, PTL DEF Spec

-----------------------------------------------------------------------------
(* No accepted event is lost *)

\* Every step of a safe deployment preserves SafeInv.
LEMMA JobSafeStep ==
    ASSUME SafeDeployment, SafeInv, [Next]_vars
    PROVE  SafeInv'
<1>1. ASSUME NEW p \in Passes, StartJob(p) PROVE SafeInv'
  <2>1. DrainTypeOK'
    BY <1>1, StartJobType DEF SafeInv
  <2>2. UNCHANGED <<data, offsetFile, dlq, up, size, offset, accepted,
                    pc, entries, next, reply, outcome, stored>>
    BY <1>1 DEF StartJob, spoolVars, storeVars
  <2>3. DiskInv' /\ PassInv'
    BY <2>2, DiskFrame, PassFrame DEF SafeInv, Resolved
  <2> QED BY <2>1, <2>3 DEF SafeInv
<1> QED BY <1>1, JobStepIsDrainerStep, SafeStep

\* With one drain job at a time and no death inside a write or a rotation, an
\* accepted event is a row, a dead letter or still to be read: whatever the
\* number of events, the batch size, the order of outages, rejections, lost
\* answers and other deaths.
THEOREM NoEventIsLost ==
    ASSUME SafeDeployment
    PROVE  Spec => []NoEventLost
<1>1. Init => SafeInv
  BY SafeInit DEF Init
<1>2. SafeInv /\ [Next]_vars => SafeInv'
  BY JobSafeStep
<1>3. SafeInv => NoEventLost
  BY SafeInvSuffices
<1> QED BY <1>1, <1>2, <1>3, PTL DEF Spec

=============================================================================
