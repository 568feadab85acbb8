--------------------------- MODULE DrainQueueProofs ---------------------------
(***************************************************************************)
(* What follows from the invariant of DrainSpoolProofs: the ingest path    *)
(* implements the abstract queue, and the backlog that health reports is   *)
(* what a reader would still find.  And, whatever the deployment, only     *)
(* events the store cannot keep are dead letters.  The steps are those of  *)
(* the timer; the jobs of DrainSpool only add StartJob.                    *)
(***************************************************************************)
EXTENDS DrainSpoolProofs

-----------------------------------------------------------------------------
(* Only unstorable events become dead letters *)

\* Every answer a pass holds for a single event says the truth about it.
OutcomeInv ==
    \A p \in Passes : \A i \in DOMAIN outcome[p] :
        /\ outcome[p][i] # NoTable
        /\ outcome[p][i] = BadRow => entries[p][i] \in Unstorable
        /\ outcome[p][i] = Unlisted => entries[p][i] \in Odd

\* The inductive invariant behind the dead letters.
DeadInv ==
    /\ DrainTypeOK /\ OutcomeInv
    /\ OnlyUnstorableDeadLettered
    /\ stored \cap (Unstorable \cup Odd) = {}

\* The answers differ from one another.
LEMMA Answers ==
    /\ Ok # BadRow /\ Ok # Unlisted /\ Ok # NoTable
    /\ Reset # BadRow /\ Reset # Unlisted /\ Reset # NoTable
    /\ Refused # BadRow /\ Refused # Unlisted /\ Refused # NoTable
    /\ BadRow # Unlisted /\ BadRow # NoTable /\ Unlisted # NoTable
BY DEF Ok, Reset, Refused, BadRow, Unlisted, NoTable, Code

\* An outage says so: it is neither permanent nor unrecognised.
LEMMA OutageIsTransient ==
    ASSUME NEW code \in {Refused, Reset}
    PROVE  classifyWriteErrorDetailed(code) = StoreOutage
<1>1. CASE code = Refused
  BY <1>1 DEF Refused, Code, classifyWriteErrorDetailed, DataPrismaCodes,
              SchemaPrismaCodes, TransientSocketCodes
<1>2. CASE code = Reset
  BY <1>2 DEF Reset, Code, classifyWriteErrorDetailed, DataPrismaCodes,
              SchemaPrismaCodes, TransientSocketCodes
<1> QED BY <1>1, <1>2

\* What phase 2 sends to the dead letter the store cannot keep.
LEMMA DeadIsUnstorable ==
    ASSUME DeadInv, NEW p \in Passes, Untried(p) = {}
    PROVE  {entries[p][i] : i \in Dead(p)} \subseteq Unstorable \cup Odd
<1> SUFFICES ASSUME NEW i \in Dead(p)
             PROVE  entries[p][i] \in Unstorable \cup Odd
  OBVIOUS
<1>1. /\ i \in DOMAIN outcome[p] /\ outcome[p][i] # Ok
      /\ Why(p, i).class = "permanent" \/ ~Why(p, i).recognized
  BY DEF Dead, Settled, Untried, Doomed, Failures
<1>2. outcome[p][i] \in Replies
  BY <1>1 DEF DeadInv, DrainTypeOK, PassTypeOK
<1>3. outcome[p][i] \notin {Refused, Reset}
  <2> SUFFICES ASSUME outcome[p][i] \in {Refused, Reset} PROVE FALSE
    OBVIOUS
  <2>1. Why(p, i) = StoreOutage
    BY OutageIsTransient DEF Why
  <2> QED BY <1>1, <2>1 DEF StoreOutage
<1>4. outcome[p][i] \in {BadRow, Unlisted}
  BY <1>1, <1>2, <1>3 DEF Replies, DeadInv, OutcomeInv
<1> QED BY <1>1, <1>4 DEF DeadInv, OutcomeInv

\* A pass that keeps its entries and its answers keeps their truth.
LEMMA OutcomeFrame ==
    ASSUME OutcomeInv, UNCHANGED <<entries, outcome>>
    PROVE  OutcomeInv'
BY DEF OutcomeInv

\* A pass that ends has no answers left.
LEMMA EndsOutcome ==
    ASSUME PassTypeOK, OutcomeInv, NEW p \in Passes, NEW res, Ends(p, res)
    PROVE  OutcomeInv'
<1>1. \A q \in Passes \ {p} : outcome'[q] = outcome[q] /\ entries'[q] = entries[q]
  BY DEF Ends, PassTypeOK
<1>2. DOMAIN outcome'[p] = {}
  BY DEF Ends, PassTypeOK
<1> QED BY <1>1, <1>2 DEF OutcomeInv

\* A read replaces the entries of a pass that has no answers.
LEMMA ReadOutcome ==
    ASSUME PassTypeOK, OutcomeInv, NEW p \in Passes, NEW es, pc[p] # "probe",
           entries' = [entries EXCEPT ![p] = es], UNCHANGED outcome
    PROVE  OutcomeInv'
<1>1. \A q \in Passes \ {p} : entries'[q] = entries[q]
  BY DEF PassTypeOK
<1>2. DOMAIN outcome[p] = {}
  BY DEF PassTypeOK
<1> QED BY <1>1, <1>2 DEF OutcomeInv

\* The answer to the insert of one event blames it rightly, as long as the
\* schema stays.
LEMMA ProbeOutcome ==
    ASSUME "unmigrated" \notin StoreStates, DeadInv, NEW p \in Passes, Probe(p)
    PROVE  OutcomeInv'
<1> USE DEF DeadInv, DrainTypeOK
<1>1. PICK i \in Untried(p), r \in Replies :
          /\ write({entries[p][i]}, r)
          /\ outcome' = [outcome EXCEPT ![p] =
                [k \in DOMAIN outcome[p] \cup {i} |->
                    IF k = i THEN r ELSE outcome[p][k]]]
  BY DEF Probe
<1>2. store # "unmigrated"
  BY DEF StoreTypeOK
<1>3. /\ r # NoTable
      /\ r = BadRow => entries[p][i] \in Unstorable
      /\ r = Unlisted => entries[p][i] \in Odd
  BY <1>1, <1>2, Answers DEF write
<1>4. /\ \A q \in Passes \ {p} : outcome'[q] = outcome[q]
      /\ outcome'[p] = [k \in DOMAIN outcome[p] \cup {i} |->
                            IF k = i THEN r ELSE outcome[p][k]]
      /\ entries' = entries
  BY <1>1 DEF PassTypeOK, Probe
<1> QED BY <1>3, <1>4 DEF OutcomeInv

\* The store only makes rows of events it can keep.
LEMMA RowsStep ==
    ASSUME DeadInv, [TimerNext]_drainVars
    PROVE  stored' \cap (Unstorable \cup Odd) = {}
<1>1. ASSUME NEW w, NEW r, write(w, r)
      PROVE  stored' \cap (Unstorable \cup Odd) = {}
  BY <1>1 DEF write, DeadInv
<1>2. ASSUME stored' = stored
      PROVE  stored' \cap (Unstorable \cup Odd) = {}
  BY <1>2 DEF DeadInv
<1>3. ASSUME NEW p \in Passes, PassStep(p)
      PROVE  stored' \cap (Unstorable \cup Odd) = {}
  <2>1. CASE StoreHandlesBatch(p)
    BY <1>1, <2>1 DEF StoreHandlesBatch
  <2>2. CASE Probe(p)
    BY <1>1, <2>2 DEF Probe
  <2>3. CASE ~StoreHandlesBatch(p) /\ ~Probe(p)
    BY <1>2, <1>3, <2>3
       DEF PassStep, BatchStored, BatchUnavailable, BatchRejected,
           SharedFailure, Settle, storeVars
  <2> QED BY <2>1, <2>2, <2>3
<1>4. ASSUME NEW p \in Passes, Tick(p) PROVE stored' = stored
  BY <1>4 DEF Tick, BeginPass, EmptyPass, storeVars
<1>5. CASE \/ Receive \/ ReadStats \/ Reboot \/ Crash \/ StoreChanges
           \/ \E d \in Drainers : BackoffOver(d)
           \/ UNCHANGED drainVars
  BY <1>2, <1>5 DEF Receive, ReadStats, Reboot, Crash, LosePasses,
                    StoreChanges, BackoffOver, drainVars, storeVars
<1> QED BY <1>2, <1>3, <1>4, <1>5 DEF TimerNext

\* Every step keeps what the answers say true and the dead letters unstorable.
LEMMA DeadStep ==
    ASSUME "unmigrated" \notin StoreStates, DeadInv, [TimerNext]_drainVars
    PROVE  DeadInv'
<1>1. DrainTypeOK' /\ PassTypeOK
  BY DrainTypeStep DEF DeadInv, DrainTypeOK
<1>2. OutcomeInv /\ dlq \subseteq Unstorable \cup Odd
  BY DEF DeadInv, OnlyUnstorableDeadLettered
<1>3. OutcomeInv' /\ dlq' \subseteq Unstorable \cup Odd
  <2>1. ASSUME UNCHANGED <<entries, outcome, dlq>>
        PROVE  OutcomeInv' /\ dlq' \subseteq Unstorable \cup Odd
    BY <1>2, <2>1, OutcomeFrame
  <2>2. CASE Receive
    BY <2>1, <2>2 DEF Receive, append, passVars
  <2>3. CASE ReadStats
    BY <2>1, <2>3 DEF ReadStats, stats, passVars
  <2>4. CASE Reboot
    BY <2>1, <2>4 DEF Reboot, Restart, passVars
  <2>5. CASE Crash
    <3>1. OutcomeInv'
      BY <2>5 DEF Crash, LosePasses, OutcomeInv
    <3>2. CASE CrashIdle \/ CrashInAppend \/ CrashInRotateOnAppend
      BY <1>2, <3>1, <3>2
         DEF CrashIdle, CrashInAppend, CrashInRotateOnAppend, diskVars
    <3>3. ASSUME NEW p \in Passes, CrashOfPass(p)
          PROVE  dlq' \subseteq Unstorable \cup Odd
      <4>1. CASE CrashInBatchCommit(p)
        BY <1>2, <4>1 DEF CrashInBatchCommit
      <4>2. CASE CrashInSettle(p) \/ CrashInSettleRotate(p)
        <5>1. Untried(p) = {}
          BY <4>2 DEF CrashInSettle, CrashInSettleRotate
        <5>2. dlq' \subseteq dlq \cup {entries[p][i] : i \in Dead(p)}
          BY <4>2 DEF CrashInSettle, CrashInSettleRotate
        <5> QED BY <1>2, <5>1, <5>2, DeadIsUnstorable
      <4> QED BY <3>3, <4>1, <4>2 DEF CrashOfPass
    <3> QED BY <2>5, <3>1, <3>2, <3>3 DEF Crash
  <2>6. CASE StoreChanges \/ \E d \in Drainers : BackoffOver(d)
    BY <2>1, <2>6 DEF StoreChanges, BackoffOver, spoolVars, passVars
  <2>7. ASSUME NEW p \in Passes, Tick(p)
        PROVE  OutcomeInv' /\ dlq' \subseteq Unstorable \cup Odd
    <3>1. CASE BeginPass(p)
      <4>1. dlq' = dlq
        BY <3>1 DEF BeginPass, spoolVars
      <4> QED BY <1>1, <1>2, <3>1, <4>1, ReadOutcome DEF BeginPass
    <3>2. CASE EmptyPass(p)
      BY <2>1, <3>2 DEF EmptyPass, spoolVars
    <3> QED BY <2>7, <3>1, <3>2 DEF Tick
  <2>8. ASSUME NEW p \in Passes, PassStep(p)
        PROVE  OutcomeInv' /\ dlq' \subseteq Unstorable \cup Odd
    <3>1. CASE StoreHandlesBatch(p)
      BY <2>1, <3>1 DEF StoreHandlesBatch, spoolVars
    <3>2. CASE BatchStored(p)
      BY <1>1, <1>2, <3>2, EndsOutcome DEF BatchStored
    <3>3. CASE BatchUnavailable(p) \/ SharedFailure(p)
      <4>1. Ends(p, "failed") /\ dlq' = dlq
        BY <3>3 DEF BatchUnavailable, SharedFailure, spoolVars
      <4> QED BY <1>1, <1>2, <4>1, EndsOutcome
    <3>4. CASE BatchRejected(p)
      <4>1. dlq' = dlq /\ pc[p] # "probe"
        BY <3>4 DEF BatchRejected, spoolVars
      <4>2. CASE Ends(p, "nothing")
        BY <1>1, <1>2, <4>1, <4>2, EndsOutcome
      <4>3. CASE \E es : /\ entries' = [entries EXCEPT ![p] = es]
                         /\ UNCHANGED outcome
        BY <1>1, <1>2, <4>1, <4>3, ReadOutcome
      <4> QED BY <3>4, <4>2, <4>3 DEF BatchRejected
    <3>5. CASE Probe(p)
      BY <1>2, <3>5, ProbeOutcome DEF Probe, spoolVars
    <3>6. CASE Settle(p)
      <4>1. /\ Ends(p, ResultOf(p)) /\ Untried(p) = {}
            /\ dlq' = dlq \cup {entries[p][i] : i \in Dead(p)}
        BY <3>6 DEF Settle
      <4>2. OutcomeInv'
        BY <1>1, <1>2, <4>1, EndsOutcome
      <4> QED BY <1>2, <4>1, <4>2, DeadIsUnstorable
    <3> QED BY <2>8, <3>1, <3>2, <3>3, <3>4, <3>5, <3>6 DEF PassStep
  <2>9. CASE UNCHANGED drainVars
    BY <2>1, <2>9 DEF drainVars, spoolVars, passVars
  <2> QED BY <2>2, <2>3, <2>4, <2>5, <2>6, <2>7, <2>8, <2>9 DEF TimerNext
<1> QED BY <1>1, <1>3, RowsStep DEF DeadInv, OnlyUnstorableDeadLettered

\* A job that starts touches none of this.
LEMMA JobDeadStep ==
    ASSUME "unmigrated" \notin StoreStates, DeadInv, [Next]_vars
    PROVE  DeadInv'
<1>1. ASSUME NEW p \in Passes, StartJob(p) PROVE DeadInv'
  <2>1. UNCHANGED <<entries, outcome, dlq, stored>>
    BY <1>1 DEF StartJob, spoolVars, storeVars
  <2>2. DrainTypeOK'
    BY <1>1, StartJobType DEF DeadInv
  <2> QED BY <2>1, <2>2, OutcomeFrame DEF DeadInv, OnlyUnstorableDeadLettered
<1> QED BY <1>1, DeadStep, JobStepIsDrainerStep

\* At first there are neither rows nor dead letters.
LEMMA DeadInit == DrainInit => DeadInv
BY DrainTypeInit
   DEF DrainInit, SpoolInit, DeadInv, OutcomeInv, OnlyUnstorableDeadLettered

\* As long as the schema of the store stays, an event the store could keep is
\* never a dead letter (errors.ts:4-7): whatever the outages, lost answers and
\* deaths, with any number of drain jobs at once.
THEOREM OnlyUnstorableDie ==
    ASSUME "unmigrated" \notin StoreStates
    PROVE  Spec => []OnlyUnstorableDeadLettered
<1>1. Init => DeadInv
  BY DeadInit DEF Init
<1>2. DeadInv /\ [Next]_vars => DeadInv'
  BY JobDeadStep
<1>3. DeadInv => OnlyUnstorableDeadLettered
  BY DEF DeadInv
<1> QED BY <1>1, <1>2, <1>3, PTL DEF Spec

\* The same for the timer, with any number of overlapping ticks.
THEOREM TimerOnlyUnstorableDie ==
    ASSUME "unmigrated" \notin StoreStates
    PROVE  TimerSpec => []OnlyUnstorableDeadLettered
<1>1. DrainInit => DeadInv
  BY DeadInit
<1>2. DeadInv /\ [TimerNext]_drainVars => DeadInv'
  BY DeadStep
<1>3. DeadInv => OnlyUnstorableDeadLettered
  BY DEF DeadInv
<1> QED BY <1>1, <1>2, <1>3, PTL DEF TimerSpec

\* An event whose insert was applied and whose answer was lost is a row
\* (packages/soc/src/ingest.ts:54-59): no retry of it, by whichever job, ends
\* in the dead letter as well.
THEOREM ResolvedOnce ==
    ASSUME "unmigrated" \notin StoreStates
    PROVE  Spec => [](stored \cap dlq = {})
<1>1. Init => DeadInv
  BY DeadInit DEF Init
<1>2. DeadInv /\ [Next]_vars => DeadInv'
  BY JobDeadStep
<1>3. DeadInv => stored \cap dlq = {}
  BY DEF DeadInv, OnlyUnstorableDeadLettered
<1> QED BY <1>1, <1>2, <1>3, PTL DEF Spec

-----------------------------------------------------------------------------
(* The path implements the abstract queue *)

\* What is on disk was accepted.
AcceptedInv == \A i \in 1..Len(data) : data[i] \in accepted

\* In a file of whole lines the reader still hands out the cells after the
\* committed offset.
LEMMA WaitingWhole ==
    SafeInv => Waiting(ReadPosition) = {data[i] : i \in (offsetFile + 1)..Len(data)}
<1> SUFFICES ASSUME SafeInv
             PROVE  Waiting(ReadPosition) =
                        {data[i] : i \in (offsetFile + 1)..Len(data)}
  OBVIOUS
<1>1. /\ data \in Seq(Events) /\ offsetFile \in Nat /\ offsetFile <= Len(data)
      /\ up => offset = offsetFile
  BY DEF SafeInv, DiskInv, DrainTypeOK, SpoolTypeOK
<1>2. ReadPosition = offsetFile
  BY <1>1 DEF ReadPosition, RestartOffset
<1>3. Lines(offsetFile) = (offsetFile + 1)..Len(data)
  BY <1>1, SpoolAssumption DEF Lines
<1> QED BY <1>2, <1>3 DEF Waiting

\* The same after a step.
LEMMA WaitingWholeNext ==
    ASSUME SafeInv'
    PROVE  Waiting(ReadPosition)' =
               {data'[i] : i \in (offsetFile' + 1)..Len(data')}
<1>1. /\ data' \in Seq(Events) /\ offsetFile' \in Nat /\ offsetFile' <= Len(data')
      /\ up' => offset' = offsetFile'
  BY DEF SafeInv, DiskInv, DrainTypeOK, SpoolTypeOK
<1>2. ReadPosition' = offsetFile'
  BY <1>1 DEF ReadPosition, RestartOffset
<1>3. Lines(offsetFile)' = (offsetFile' + 1)..Len(data')
  BY <1>1, SpoolAssumption DEF Lines
<1> QED BY <1>2, <1>3 DEF Waiting, Lines

\* Nothing waits that was not accepted, and a file only ever grows by what
\* append accepts.
LEMMA AcceptedStep ==
    ASSUME SafeDeployment, SafeInv, AcceptedInv, [TimerNext]_drainVars
    PROVE  AcceptedInv'
<1>1. data \in Seq(Events)
  BY DEF SafeInv, DiskInv
<1>2. ASSUME data' = data \/ data' = <<>>, accepted' = accepted
      PROVE  AcceptedInv'
  BY <1>2, EmptyFile DEF AcceptedInv
<1>3. CASE Receive
  <2>1. PICK e \in Events : append(e)
    BY <1>3 DEF Receive
  <2>2. data' = Append(data, e) \/ data' = <<e>>
    BY <2>1 DEF append, writeEntry
  <2>3. accepted' = accepted \cup {e}
    BY <2>1 DEF append
  <2> QED BY <1>1, <2>2, <2>3 DEF AcceptedInv
<1>4. CASE Crash
  <2>1. \A point : Dies(point) => point \notin {"append", "rotate"}
                                  /\ accepted' = accepted
    BY DEF Dies, SafeDeployment
  <2> QED BY <1>2, <1>4, <2>1
          DEF Crash, CrashIdle, CrashInAppend, CrashInRotateOnAppend,
              CrashOfPass, CrashInBatchCommit, CrashInSettle,
              CrashInSettleRotate, CrashAfterCommit, CrashInRotateOf, diskVars
<1>5. ASSUME NEW p \in Passes, Tick(p) \/ PassStep(p) PROVE AcceptedInv'
  <2>1. \A to, n : commit(to, n) => data' = data \/ data' = <<>>
    BY DEF commit, Rotate
  <2>2. data' = data \/ data' = <<>>
    <3>1. CASE BatchStored(p)
      BY <2>1, <3>1 DEF BatchStored
    <3>2. CASE Settle(p)
      BY <2>1, <3>2 DEF Settle
    <3>3. CASE ~BatchStored(p) /\ ~Settle(p)
      BY <1>5, <3>3
         DEF Tick, BeginPass, EmptyPass, PassStep, StoreHandlesBatch,
             BatchUnavailable, BatchRejected, Probe, SharedFailure, spoolVars
    <3> QED BY <3>1, <3>2, <3>3
  <2>3. accepted' = accepted
    BY <1>5
       DEF Tick, BeginPass, EmptyPass, PassStep, StoreHandlesBatch, BatchStored,
           BatchUnavailable, BatchRejected, Probe, SharedFailure, Settle,
           spoolVars
  <2> QED BY <1>2, <2>2, <2>3
<1>6. CASE \/ ReadStats \/ Reboot \/ StoreChanges
           \/ \E d \in Drainers : BackoffOver(d)
           \/ UNCHANGED drainVars
  BY <1>2, <1>6 DEF ReadStats, stats, Reboot, Restart, StoreChanges,
                    BackoffOver, drainVars, spoolVars
<1> QED BY <1>3, <1>4, <1>5, <1>6 DEF TimerNext

\* A step that only gives waiting events a dead letter or moves past events is
\* a Resolve of the queue, because nothing is lost by it.
LEMMA ResolveStep ==
    ASSUME SafeInv', AcceptedInv, SafeInv,
           Waiting(ReadPosition)' \subseteq Waiting(ReadPosition),
           dlq \subseteq dlq', dlq' \subseteq dlq \cup Waiting(ReadPosition),
           UNCHANGED <<accepted, stored>>
    PROVE  Queue!Resolve
<1>1. NoEventLost'
  BY SafeInvSuffices, PTL
<1>2. Waiting(ReadPosition) \subseteq accepted
  <2>1. offsetFile \in Nat
    BY DEF SafeInv, DrainTypeOK, SpoolTypeOK
  <2> QED BY <2>1, WaitingWhole DEF AcceptedInv
<1> DEFINE Q == dlq' \ dlq
           R == Waiting(ReadPosition) \ Waiting(ReadPosition)'
<1>3. Q \in SUBSET Waiting(ReadPosition) /\ dlq' = dlq \cup Q
  OBVIOUS
<1>4. /\ R \in SUBSET Waiting(ReadPosition)
      /\ R \subseteq stored \cup dlq'
      /\ Waiting(ReadPosition)' = Waiting(ReadPosition) \ R
  BY <1>1, <1>2 DEF NoEventLost, Resolved
<1> QED BY <1>3, <1>4 DEF Queue!Resolve

\* An offset that grows over the same file, or a new file, leaves fewer events
\* waiting.
LEMMA WaitingShrinks ==
    ASSUME SafeInv, SafeInv',
           \/ data' = data /\ offsetFile <= offsetFile'
           \/ data' = <<>>
    PROVE  Waiting(ReadPosition)' \subseteq Waiting(ReadPosition)
<1>1. Waiting(ReadPosition) = {data[i] : i \in (offsetFile + 1)..Len(data)}
  BY WaitingWhole
<1>2. Waiting(ReadPosition)' =
          {data'[i] : i \in (offsetFile' + 1)..Len(data')}
  BY WaitingWholeNext
<1>3. offsetFile \in Nat /\ offsetFile' \in Nat /\ Len(data) \in Nat
  BY DEF SafeInv, DrainTypeOK, SpoolTypeOK
<1>4. CASE data' = data /\ offsetFile <= offsetFile'
  <2>1. (offsetFile' + 1)..Len(data) \subseteq (offsetFile + 1)..Len(data)
    BY <1>3, <1>4
  <2> QED BY <1>1, <1>2, <1>4, <2>1
<1>5. CASE data' = <<>>
  <2>1. Len(data') = 0
    BY <1>5, EmptyFile
  <2>2. (offsetFile' + 1)..Len(data') = {}
    <3>1. ASSUME NEW k \in Nat, NEW i \in (k + 1)..0 PROVE FALSE
      OBVIOUS
    <3>2. ~\E i : i \in (offsetFile' + 1)..0
      BY <1>3, <3>1
    <3> QED BY <2>1, <3>2
  <2> QED BY <1>2, <2>2
<1> QED BY <1>4, <1>5

\* What a pass holds still waits.
LEMMA HeldWaits ==
    ASSUME SafeInv, NEW p \in Passes, pc[p] # "idle", NEW i \in DOMAIN entries[p]
    PROVE  entries[p][i] \in Waiting(ReadPosition)
<1>1. /\ up /\ offset = offsetFile /\ offset \in Nat /\ Len(data) \in Nat
      /\ pc[p] = "batch" \/ pc[p] = "probe"
  BY DEF SafeInv, PassInv, DiskInv, DrainTypeOK, SpoolTypeOK, PassTypeOK
<1>2. i \in (offset + 1)..Len(data) /\ entries[p][i] = data[i]
  <2>1. CASE pc[p] = "batch"
    <3>1. BatchInv(p) /\ next[p] \in Nat
      BY <2>1 DEF SafeInv, PassInv, DrainTypeOK, PassTypeOK
    <3> QED BY <1>1, <3>1 DEF BatchInv
  <2>2. CASE pc[p] = "probe"
    <3>1. ProbeInv(p)
      BY <2>2 DEF SafeInv, PassInv
    <3> QED BY <3>1 DEF ProbeInv
  <2> QED BY <1>1, <2>1, <2>2
<1> QED BY <1>1, <1>2, WaitingWhole

\* commit drops the file or moves on in it.
LEMMA CommitShrinks ==
    ASSUME SafeInv, SafeInv', up, NEW to \in Nat, NEW n, commit(to, n)
    PROVE  Waiting(ReadPosition)' \subseteq Waiting(ReadPosition)
<1>1. offsetFile = offset /\ offset \in Nat
  BY DEF SafeInv, DiskInv, DrainTypeOK, SpoolTypeOK
<1>2. \/ data' = data /\ offsetFile <= offsetFile'
      \/ data' = <<>>
  BY <1>1 DEF commit, Rotate
<1> QED BY <1>2, WaitingShrinks

\* An event that append accepts joins those that wait.
LEMMA ReceiveAccepts ==
    ASSUME SafeInv, SafeInv', Receive
    PROVE  \E e \in Events : Queue!Accept(e)
<1>1. PICK e \in Events : append(e)
  BY DEF Receive
<1>2. /\ size = Len(data) /\ offset = offsetFile /\ offset \in Nat
      /\ Len(data) \in Nat /\ data \in Seq(Events)
  BY <1>1 DEF append, SafeInv, DiskInv, DrainTypeOK, SpoolTypeOK
<1>3. Waiting(ReadPosition) = {data[i] : i \in (offsetFile + 1)..Len(data)}
  BY WaitingWhole
<1>4. Waiting(ReadPosition)' =
          {data'[i] : i \in (offsetFile' + 1)..Len(data')}
  BY WaitingWholeNext
<1>5. Waiting(ReadPosition)' = Waiting(ReadPosition) \cup {e}
  <2>1. CASE RotatesFirst
    <3>1. data' = <<e>> /\ offsetFile' = 0 /\ offsetFile = Len(data)
      BY <1>1, <1>2, <2>1 DEF append, writeEntry, RotatesFirst
    <3>2. Waiting(ReadPosition) = {}
      BY <1>2, <1>3, <3>1
    <3>3. Waiting(ReadPosition)' = {e}
      BY <1>4, <3>1
    <3> QED BY <3>2, <3>3
  <2>2. CASE ~RotatesFirst
    <3>1. data' = Append(data, e) /\ offsetFile' = offsetFile
      BY <1>1, <2>2 DEF append, writeEntry
    <3>2. /\ Len(data') = Len(data) + 1 /\ data'[Len(data) + 1] = e
          /\ \A i \in 1..Len(data) : data'[i] = data[i]
      BY <1>2, <3>1
    <3>3. offsetFile <= Len(data)
      BY DEF SafeInv, DiskInv
    <3> DEFINE old == (offsetFile + 1)..Len(data)
    <3>4. (offsetFile' + 1)..Len(data') = old \cup {Len(data) + 1}
      BY <1>2, <3>1, <3>2, <3>3
    <3>5. \A i \in old : data'[i] = data[i]
      BY <1>2, <3>2
    <3> QED BY <1>3, <1>4, <3>2, <3>4, <3>5
  <2> QED BY <2>1, <2>2
<1>6. e \notin accepted /\ accepted' = accepted \cup {e} /\ dlq' = dlq
  BY <1>1 DEF append
<1>7. stored' = stored
  BY DEF Receive, storeVars
<1> QED BY <1>5, <1>6, <1>7 DEF Queue!Accept

\* The insert of events a pass holds is a Store of the queue.
LEMMA WriteStores ==
    ASSUME SafeInv, SafeInv', NEW p \in Passes, NEW w, NEW r, write(w, r),
           pc[p] # "idle", w \subseteq Batch(p), UNCHANGED spoolVars
    PROVE  Queue!Store
<1>1. w \subseteq Waiting(ReadPosition)
  BY HeldWaits DEF Batch
<1>2. stored' = stored \/ stored' = stored \cup w
  BY DEF write
<1>3. \E S \in SUBSET Waiting(ReadPosition) : stored' = stored \cup S
  <2>1. CASE stored' = stored
    <3>1. {} \in SUBSET Waiting(ReadPosition) /\ stored' = stored \cup {}
      BY <2>1
    <3> QED BY <3>1
  <2>2. CASE stored' = stored \cup w
    BY <1>1, <2>2
  <2> QED BY <1>2, <2>1, <2>2
<1>4. Waiting(ReadPosition)' = Waiting(ReadPosition)
  <2>1. Waiting(ReadPosition) = {data[i] : i \in (offsetFile + 1)..Len(data)}
    BY WaitingWhole
  <2>2. Waiting(ReadPosition)' =
            {data'[i] : i \in (offsetFile' + 1)..Len(data')}
    BY WaitingWholeNext
  <2> QED BY <2>1, <2>2 DEF spoolVars
<1>5. dlq' = dlq /\ accepted' = accepted
  BY DEF spoolVars
<1> QED BY <1>3, <1>4, <1>5 DEF Queue!Store

\* A death loses no event, and at most quarantines some that waited.
LEMMA CrashResolves ==
    ASSUME SafeDeployment, SafeInv, SafeInv', AcceptedInv, Crash
    PROVE  Queue!Resolve
<1>1. \A point : Dies(point) => /\ point \notin {"append", "rotate"}
                               /\ up /\ accepted' = accepted
  BY DEF Dies, SafeDeployment
<1>2. stored' = stored
  BY DEF Crash, LosePasses, storeVars
<1>3. up => /\ size = Len(data) /\ offset = offsetFile /\ offset <= Len(data)
            /\ offset \in Nat /\ Len(data) \in Nat
  BY DEF SafeInv, DiskInv, DrainTypeOK, SpoolTypeOK
<1>4. /\ data' = data /\ offsetFile <= offsetFile' /\ accepted' = accepted
      /\ dlq \subseteq dlq' /\ dlq' \subseteq dlq \cup Waiting(ReadPosition)
  <2>1. CASE CrashIdle
    <3>1. offsetFile \in Nat
      BY DEF SafeInv, DrainTypeOK, SpoolTypeOK
    <3> QED BY <1>1, <2>1, <3>1 DEF CrashIdle, diskVars
  <2>2. CASE CrashInAppend \/ CrashInRotateOnAppend
    BY <1>1, <2>2 DEF CrashInAppend, CrashInRotateOnAppend
  <2>3. ASSUME NEW p \in Passes, CrashInBatchCommit(p)
        PROVE  /\ data' = data /\ offsetFile <= offsetFile' /\ accepted' = accepted
               /\ dlq' = dlq
    <3>1. /\ Dies("commit") /\ data' = data /\ dlq' = dlq
          /\ next[p] > offset
          /\ offsetFile' = IF next[p] < size THEN next[p] ELSE size
      BY <1>1, <2>3 DEF CrashInBatchCommit, CrashAfterCommit, CrashInRotateOf
    <3>2. next[p] \in Nat
      BY DEF SafeInv, DrainTypeOK, PassTypeOK
    <3> QED BY <1>1, <1>3, <3>1, <3>2
  <2>4. ASSUME NEW p \in Passes, CrashInSettle(p)
        PROVE  /\ data' = data /\ offsetFile <= offsetFile' /\ accepted' = accepted
               /\ dlq \subseteq dlq' /\ dlq' \subseteq dlq \cup Waiting(ReadPosition)
    <3>1. Dies("settle") /\ data' = data /\ pc[p] = "probe"
      BY <2>4 DEF CrashInSettle
    <3>2. PICK to \in Settled(p) \cup {0} :
              offsetFile' = IF to <= offset THEN offsetFile
                            ELSE IF to < size THEN to ELSE size
      BY <2>4 DEF CrashInSettle
    <3>3. to \in Nat
      BY <3>1 DEF Settled, SafeInv, DrainTypeOK, PassTypeOK
    <3>4. offsetFile <= offsetFile'
      BY <1>1, <1>3, <3>1, <3>2, <3>3
    <3>5. /\ dlq \subseteq dlq'
          /\ dlq' \subseteq dlq \cup {entries[p][i] : i \in Dead(p)}
      BY <2>4 DEF CrashInSettle
    <3>6. {entries[p][i] : i \in Dead(p)} \subseteq Waiting(ReadPosition)
      BY <3>1, HeldWaits DEF Dead, Settled
    <3> QED BY <1>1, <3>1, <3>4, <3>5, <3>6
  <2>5. ASSUME NEW p \in Passes, CrashInSettleRotate(p) PROVE FALSE
    BY <1>1, <2>5 DEF CrashInSettleRotate, CrashInRotateOf
  <2> QED BY <2>1, <2>2, <2>3, <2>4, <2>5 DEF Crash, CrashOfPass
<1>5. Waiting(ReadPosition)' \subseteq Waiting(ReadPosition)
  BY <1>4, WaitingShrinks
<1> QED BY <1>2, <1>4, <1>5, ResolveStep

\* Every step of a safe deployment is a step of the queue or changes nothing
\* of it.
LEMMA QueueStep ==
    ASSUME SafeDeployment, SafeInv, SafeInv', AcceptedInv, [TimerNext]_drainVars
    PROVE  [Queue!Next]_Queue!queueVars
<1>1. SpoolTypeOK /\ PassTypeOK /\ PassInv
  BY DEF SafeInv, DrainTypeOK
<1>2. offsetFile \in Nat
  BY <1>1 DEF SpoolTypeOK
<1>3. ASSUME UNCHANGED <<data, offsetFile, dlq, accepted, stored>>
      PROVE  Queue!Resolve
  <2>1. Waiting(ReadPosition)' \subseteq Waiting(ReadPosition)
    BY <1>2, <1>3, WaitingShrinks
  <2> QED BY <1>3, <2>1, ResolveStep
<1>4. CASE Receive
  BY <1>4, ReceiveAccepts DEF Queue!Next
<1>5. CASE \/ ReadStats \/ Reboot \/ StoreChanges
           \/ \E d \in Drainers : BackoffOver(d)
           \/ UNCHANGED drainVars
  <2>1. UNCHANGED <<data, offsetFile, dlq, accepted, stored>>
    BY <1>5 DEF ReadStats, stats, Reboot, Restart, StoreChanges, BackoffOver,
                drainVars, spoolVars, storeVars
  <2> QED BY <1>3, <2>1 DEF Queue!Next
<1>6. CASE Crash
  BY <1>6, CrashResolves DEF Queue!Next
<1>7. ASSUME NEW p \in Passes, Tick(p) \/ PassStep(p) PROVE Queue!Next
  <2>1. CASE \/ BeginPass(p) \/ EmptyPass(p) \/ BatchUnavailable(p)
             \/ BatchRejected(p) \/ SharedFailure(p)
    <3>1. UNCHANGED <<data, offsetFile, dlq, accepted, stored>>
      BY <2>1 DEF BeginPass, EmptyPass, BatchUnavailable, BatchRejected,
                  SharedFailure, spoolVars, storeVars
    <3> QED BY <1>3, <3>1 DEF Queue!Next
  <2>2. CASE StoreHandlesBatch(p)
    <3>1. PICK r \in Replies : write(Batch(p), r)
      BY <2>2 DEF StoreHandlesBatch
    <3>2. pc[p] # "idle" /\ UNCHANGED spoolVars
      BY <2>2 DEF StoreHandlesBatch
    <3> QED BY <3>1, <3>2, WriteStores DEF Queue!Next
  <2>3. CASE Probe(p)
    <3>1. PICK i \in Untried(p), r \in Replies : write({entries[p][i]}, r)
      BY <2>3 DEF Probe
    <3>2. pc[p] # "idle" /\ UNCHANGED spoolVars
      BY <2>3 DEF Probe
    <3>3. {entries[p][i]} \subseteq Batch(p)
      BY <3>1 DEF Untried, Batch
    <3> QED BY <3>1, <3>2, <3>3, WriteStores DEF Queue!Next
  <2>4. CASE BatchStored(p)
    <3>1. up /\ next[p] \in Nat
      BY <1>1, <2>4 DEF BatchStored, PassInv, PassTypeOK
    <3>2. commit(next[p], Cardinality(DOMAIN entries[p]))
      BY <2>4 DEF BatchStored
    <3>3. UNCHANGED <<dlq, accepted, stored>>
      BY <2>4 DEF BatchStored, storeVars
    <3>4. Waiting(ReadPosition)' \subseteq Waiting(ReadPosition)
      BY <3>1, <3>2, CommitShrinks
    <3> QED BY <3>3, <3>4, ResolveStep DEF Queue!Next
  <2>5. CASE Settle(p)
    <3>1. /\ up /\ pc[p] = "probe"
          /\ dlq' = dlq \cup {entries[p][i] : i \in Dead(p)}
          /\ UNCHANGED <<accepted, stored>>
      BY <1>1, <2>5 DEF Settle, PassInv, storeVars
    <3>2. {entries[p][i] : i \in Dead(p)} \subseteq Waiting(ReadPosition)
      BY <3>1, HeldWaits DEF Dead, Settled
    <3>3. Waiting(ReadPosition)' \subseteq Waiting(ReadPosition)
      <4>1. CASE UNCHANGED <<data, offsetFile>>
        BY <1>2, <4>1, WaitingShrinks
      <4>2. ASSUME NEW last \in Settled(p), NEW n, commit(last, n)
            PROVE  Waiting(ReadPosition)' \subseteq Waiting(ReadPosition)
        <5>1. last \in Nat
          BY <1>1 DEF Settled, PassTypeOK
        <5> QED BY <3>1, <4>2, <5>1, CommitShrinks
      <4> QED BY <2>5, <4>1, <4>2 DEF Settle
    <3> QED BY <3>1, <3>2, <3>3, ResolveStep DEF Queue!Next
  <2> QED BY <1>7, <2>1, <2>2, <2>3, <2>4, <2>5 DEF Tick, PassStep
<1> QED BY <1>4, <1>5, <1>6, <1>7 DEF TimerNext

\* A job that starts changes nothing of the queue.
LEMMA StartJobStutters ==
    ASSUME SafeInv, AcceptedInv, NEW p \in Passes, StartJob(p)
    PROVE  AcceptedInv' /\ UNCHANGED Queue!queueVars
<1>1. UNCHANGED <<spoolVars, stored>>
  BY DEF StartJob, storeVars
<1>2. Waiting(ReadPosition)' = Waiting(ReadPosition)
  BY <1>1 DEF spoolVars, Waiting, Lines, ReadPosition, RestartOffset
<1> QED BY <1>1, <1>2 DEF AcceptedInv, spoolVars, Queue!queueVars

\* At first nothing waits.
LEMMA QueueInit == DrainInit => SafeInv /\ AcceptedInv /\ Queue!Init
<1> SUFFICES ASSUME DrainInit PROVE SafeInv /\ AcceptedInv /\ Queue!Init
  OBVIOUS
<1>1. SafeInv
  BY SafeInit
<1>2. AcceptedInv
  BY DEF DrainInit, SpoolInit, AcceptedInv
<1>3. Waiting(ReadPosition) = {data[i] : i \in (offsetFile + 1)..Len(data)}
  BY <1>1, WaitingWhole
<1>4. Waiting(ReadPosition) = {}
  BY <1>3, EmptyFile DEF DrainInit, SpoolInit
<1> QED BY <1>1, <1>2, <1>4 DEF DrainInit, SpoolInit, Queue!Init

\* With one drain job at a time and no death inside a write or a rotation, the
\* ingest path is the abstract queue (ingest.ts:6-12): events become rows or
\* dead letters only while they wait, and stop waiting only then.
THEOREM ImplementsQueue ==
    ASSUME SafeDeployment
    PROVE  Spec => QueueSpec
<1>1. Init => SafeInv /\ AcceptedInv /\ Queue!Init
  BY QueueInit DEF Init
<1>2. SafeInv /\ AcceptedInv /\ [Next]_vars
          => /\ SafeInv' /\ AcceptedInv'
             /\ [Queue!Next]_Queue!queueVars
  BY JobSafeStep, AcceptedStep, QueueStep, StartJobStutters,
     JobStepIsDrainerStep
<1> QED BY <1>1, <1>2, PTL DEF Spec, QueueSpec, Queue!Spec

\* So is the timer, while its ticks do not overlap.
THEOREM TimerImplementsQueue ==
    ASSUME SafeDeployment
    PROVE  TimerSpec => QueueSpec
<1>1. DrainInit => SafeInv /\ AcceptedInv /\ Queue!Init
  BY QueueInit
<1>2. SafeInv /\ AcceptedInv /\ [TimerNext]_drainVars
          => /\ SafeInv' /\ AcceptedInv'
             /\ [Queue!Next]_Queue!queueVars
  BY SafeStep, AcceptedStep, QueueStep
<1> QED BY <1>1, <1>2, PTL DEF TimerSpec, QueueSpec, Queue!Spec

-----------------------------------------------------------------------------
(* The backlog is exact *)

\* The count that append and commit keep up to date is what lies behind the
\* offset.
PendingInv == up /\ pending # Uncounted => pending = Len(data) - offset

\* An interval has as many members as it is long.
LEMMA IntervalCount ==
    ASSUME NEW a \in Nat, NEW b \in Nat, a <= b
    PROVE  Cardinality((a + 1)..b) = b - a
<1>1. a + 1 \in Int /\ b \in Int
  OBVIOUS
<1>2. Cardinality((a + 1)..b) = IF a + 1 > b THEN 0 ELSE b - (a + 1) + 1
  BY <1>1, FS_Interval
<1> QED BY <1>2

\* The lines behind the offset, counted.
LEMMA BacklogCount ==
    ASSUME SafeInv, up
    PROVE  /\ Lines(offset) = (offset + 1)..Len(data)
           /\ Cardinality(Lines(offset)) = Len(data) - offset
           /\ countBacklog = Len(data) - offset
<1>1. /\ data \in Seq(Events) /\ offset \in Nat /\ Len(data) \in Nat
      /\ offset <= Len(data)
  BY DEF SafeInv, DiskInv, DrainTypeOK, SpoolTypeOK
<1>2. \A i \in (offset + 1)..Len(data) : data[i] # Torn
  BY <1>1, SpoolAssumption
<1>3. Lines(offset) = (offset + 1)..Len(data)
  BY <1>1, <1>2 DEF Lines
<1>4. {i \in (offset + 1)..Len(data) : data[i] # Torn \/ i = Len(data)}
          = (offset + 1)..Len(data)
  BY <1>2
<1>5. Cardinality((offset + 1)..Len(data)) = Len(data) - offset
  BY <1>1, IntervalCount
<1> QED BY <1>3, <1>4, <1>5 DEF countBacklog

\* A commit that reports as many entries as it skips lines keeps the count.
LEMMA CommitPending ==
    ASSUME SafeInv, PendingInv, up, UNCHANGED up, NEW to \in Nat, offset < to,
           to <= Len(data), commit(to, to - offset)
    PROVE  PendingInv'
<1>1. /\ size = Len(data) /\ offset \in Nat /\ Len(data) \in Nat
      /\ pending \in Nat \cup {Uncounted}
  BY DEF SafeInv, DiskInv, DrainTypeOK, SpoolTypeOK
<1>2. /\ pending' = IF pending = Uncounted THEN Uncounted
                    ELSE IF pending > to - offset THEN pending - (to - offset)
                         ELSE 0
      /\ \/ to < size /\ offset' = to /\ data' = data
         \/ to >= size /\ data' = <<>> /\ offset' = 0
  BY <1>1 DEF commit, Rotate
<1>3. CASE pending = Uncounted
  BY <1>2, <1>3 DEF PendingInv
<1>4. CASE pending # Uncounted
  <2>1. pending = Len(data) - offset
    BY <1>4 DEF PendingInv
  <2>2. CASE to < size
    <3>1. pending' = Len(data) - to /\ offset' = to /\ data' = data
      BY <1>1, <1>2, <1>4, <2>1, <2>2
    <3> QED BY <3>1 DEF PendingInv
  <2>3. CASE to >= size
    <3>1. pending' = 0 /\ offset' = 0 /\ data' = <<>>
      BY <1>1, <1>2, <1>4, <2>1, <2>3
    <3>2. Len(data') = 0
      BY <3>1, EmptyFile
    <3> QED BY <3>1, <3>2 DEF PendingInv
  <2> QED BY <1>1, <2>2, <2>3
<1> QED BY <1>3, <1>4

\* An append counts the line it writes.
LEMMA AppendPending ==
    ASSUME SafeInv, PendingInv, NEW e \in Events, append(e)
    PROVE  PendingInv'
<1>1. /\ up /\ size = Len(data) /\ offset \in Nat /\ Len(data) \in Nat
      /\ pending \in Nat \cup {Uncounted} /\ data \in Seq(Events)
      /\ up' = up
      /\ pending' = IF pending = Uncounted THEN Uncounted ELSE pending + 1
  BY DEF append, writeEntry, SafeInv, DiskInv, DrainTypeOK, SpoolTypeOK
<1>2. CASE pending = Uncounted
  BY <1>1, <1>2 DEF PendingInv
<1>3. CASE pending # Uncounted
  <2>1. pending = Len(data) - offset /\ pending' = pending + 1
    BY <1>1, <1>3 DEF PendingInv
  <2>2. CASE RotatesFirst
    <3>1. data' = <<e>> /\ offset' = 0 /\ offset = Len(data)
      BY <1>1, <2>2 DEF append, writeEntry, RotatesFirst
    <3>2. Len(data') = 1
      BY <3>1
    <3> QED BY <1>1, <2>1, <3>1, <3>2 DEF PendingInv
  <2>3. CASE ~RotatesFirst
    <3>1. data' = Append(data, e) /\ offset' = offset
      BY <2>3 DEF append, writeEntry
    <3>2. Len(data') = Len(data) + 1
      BY <1>1, <3>1
    <3> QED BY <1>1, <2>1, <3>1, <3>2 DEF PendingInv
  <2> QED BY <2>2, <2>3
<1> QED BY <1>2, <1>3

\* The first stats() counts, the later ones only read.
LEMMA StatsPending ==
    ASSUME SafeInv, PendingInv, stats
    PROVE  PendingInv'
<1>1. up /\ UNCHANGED <<data, offset, up>>
  BY DEF stats
<1>2. CASE pending = Uncounted
  <2>1. pending' = Len(data) - offset
    BY <1>1, <1>2, BacklogCount DEF stats
  <2> QED BY <1>1, <2>1 DEF PendingInv
<1>3. CASE pending # Uncounted
  BY <1>1, <1>3 DEF stats, PendingInv
<1> QED BY <1>2, <1>3

\* Every step of a safe deployment keeps the count.
LEMMA PendingStep ==
    ASSUME SafeDeployment, SafeInv, PendingInv, [TimerNext]_drainVars
    PROVE  PendingInv'
<1>1. SpoolTypeOK /\ PassTypeOK /\ PassInv
  BY DEF SafeInv, DrainTypeOK
<1>2. ASSUME UNCHANGED <<data, offset, up, pending>> PROVE PendingInv'
  BY <1>2 DEF PendingInv
<1>3. CASE Receive
  BY <1>3, AppendPending DEF Receive
<1>4. CASE ReadStats
  BY <1>4, StatsPending DEF ReadStats
<1>5. CASE Reboot
  BY <1>5 DEF Reboot, Restart, PendingInv
<1>6. CASE Crash
  <2>1. \A point : Dies(point) => up' = FALSE
    BY DEF Dies
  <2>2. up' = FALSE
    BY <1>6, <2>1 DEF Crash, CrashIdle, CrashInAppend, CrashInRotateOnAppend,
                      CrashOfPass, CrashInBatchCommit, CrashInSettle,
                      CrashInSettleRotate, CrashAfterCommit, CrashInRotateOf
  <2> QED BY <2>2 DEF PendingInv
<1>7. CASE \/ StoreChanges \/ \E d \in Drainers : BackoffOver(d)
           \/ UNCHANGED drainVars
  BY <1>2, <1>7 DEF StoreChanges, BackoffOver, drainVars, spoolVars
<1>8. ASSUME NEW p \in Passes, Tick(p) \/ PassStep(p) PROVE PendingInv'
  <2>1. CASE \/ BeginPass(p) \/ EmptyPass(p) \/ StoreHandlesBatch(p)
             \/ BatchUnavailable(p) \/ BatchRejected(p)
             \/ Probe(p) \/ SharedFailure(p)
    BY <1>2, <2>1 DEF BeginPass, EmptyPass, StoreHandlesBatch,
                      BatchUnavailable, BatchRejected, Probe, SharedFailure,
                      spoolVars
  <2>2. CASE BatchStored(p)
    <3>1. /\ up /\ UNCHANGED up /\ next[p] \in Nat /\ BatchInv(p)
          /\ commit(next[p], Cardinality(DOMAIN entries[p]))
      BY <1>1, <2>2 DEF BatchStored, PassInv, PassTypeOK
    <3>2. offset \in Nat /\ Len(data) \in Nat
      BY <1>1 DEF SpoolTypeOK
    <3>3. Cardinality(DOMAIN entries[p]) = next[p] - offset
      BY <3>1, <3>2, IntervalCount DEF BatchInv
    <3>4. offset < next[p] /\ next[p] <= Len(data)
      BY <3>1 DEF BatchInv
    <3> QED BY <3>1, <3>3, <3>4, CommitPending
  <2>3. CASE Settle(p)
    <3>1. pc[p] = "probe" /\ Untried(p) = {} /\ up /\ UNCHANGED up
      BY <1>1, <2>3 DEF Settle, PassInv
    <3>2. CASE UNCHANGED <<data, offset, pending>>
      BY <1>2, <3>1, <3>2
    <3>3. ASSUME NEW last \in Settled(p), \A i \in Settled(p) : i <= last,
                 commit(last, Cardinality({i \in Settled(p) : i > offset}))
          PROVE  PendingInv'
      <4>1. /\ last \in Nat /\ offset < last /\ last <= Len(data)
            /\ (offset + 1)..last \subseteq Settled(p)
        BY <3>1, <3>3, SettledResolved
      <4>2. offset \in Nat /\ Len(data) \in Nat /\ Settled(p) \subseteq Nat
        BY <1>1 DEF SpoolTypeOK, Settled, PassTypeOK
      <4>3. {i \in Settled(p) : i > offset} = (offset + 1)..last
        BY <3>3, <4>1, <4>2
      <4>4. Cardinality((offset + 1)..last) = last - offset
        BY <4>1, <4>2, IntervalCount
      <4> QED BY <3>1, <3>3, <4>1, <4>3, <4>4, CommitPending
    <3> QED BY <2>3, <3>2, <3>3 DEF Settle
  <2> QED BY <1>8, <2>1, <2>2, <2>3 DEF Tick, PassStep
<1> QED BY <1>3, <1>4, <1>5, <1>6, <1>7, <1>8 DEF TimerNext

\* The same for the jobs.
LEMMA JobPendingStep ==
    ASSUME SafeDeployment, SafeInv, PendingInv, [Next]_vars
    PROVE  PendingInv'
<1>1. ASSUME NEW p \in Passes, StartJob(p) PROVE PendingInv'
  BY <1>1 DEF StartJob, spoolVars, PendingInv
<1> QED BY <1>1, PendingStep, JobStepIsDrainerStep

\* With one drain job at a time and no death inside a write or a rotation, the
\* backlog that health reports is exactly what a reader would still find
\* (spool.ts:218-221), over any number of appends, commits and rotations.
THEOREM BacklogIsExact ==
    ASSUME SafeDeployment
    PROVE  Spec => []BacklogIsWhatWaits
<1>1. Init => SafeInv /\ PendingInv
  BY SafeInit DEF Init, DrainInit, SpoolInit, PendingInv
<1>2. SafeInv /\ PendingInv /\ [Next]_vars => SafeInv' /\ PendingInv'
  BY JobSafeStep, JobPendingStep
<1>3. SafeInv /\ PendingInv => BacklogIsWhatWaits
  BY BacklogCount DEF PendingInv, BacklogIsWhatWaits
<1> QED BY <1>1, <1>2, <1>3, PTL DEF Spec

\* And while ticks do not overlap the timer keeps it exact too.
THEOREM TimerBacklogIsExact ==
    ASSUME SafeDeployment
    PROVE  TimerSpec => []BacklogIsWhatWaits
<1>1. DrainInit => SafeInv /\ PendingInv
  BY SafeInit DEF DrainInit, SpoolInit, PendingInv
<1>2. SafeInv /\ PendingInv /\ [TimerNext]_drainVars => SafeInv' /\ PendingInv'
  BY SafeStep, PendingStep
<1>3. SafeInv /\ PendingInv => BacklogIsWhatWaits
  BY BacklogCount DEF PendingInv, BacklogIsWhatWaits
<1> QED BY <1>1, <1>2, <1>3, PTL DEF TimerSpec

=============================================================================
