-------------------------- MODULE InvestigationRun --------------------------
(***************************************************************************)
(* The investigation of one incident: requests of the web app claim an     *)
(* attempt, the queue hands it to the worker, an executor runs the         *)
(* pipeline and closes the attempt, and a sweep expires what nobody        *)
(* closed (packages/investigations, packages/db/src/investigation-store.ts *)
(* and the investigate route).                                             *)
(*                                                                         *)
(* Every transaction is one step where it commits; what it read before is  *)
(* a step of its own, as Postgres runs it at READ COMMITTED.  Attempts are *)
(* numbered in the order they are claimed (the code draws a versionId).    *)
(***************************************************************************)
EXTENDS Naturals, Sequences, FiniteSets

CONSTANTS
    Requests,   \* POST requests in flight
    Executors,  \* job slots of the worker processes
    MaxClaims,  \* bound: attempts claimed in a behaviour
    MaxTries,   \* INVESTIGATION_JOB_ATTEMPTS
    MaxStalls,  \* maxStalledCount of BullMQ
    Faults,     \* what may go wrong: see FaultKinds
    Free        \* no request holds the advisory lock

FaultKinds ==
    {"refuse",     \* Redis refuses a job
     "unanswered", \* Redis takes a job and its answer is lost
     "web",        \* the web process dies while it serves a request
     "incident",   \* the incident is gone when the job runs
     "query",      \* a read before the pipeline throws
     "transient", "permanent",  \* the pipeline throws
     "commit",     \* the transaction that closes with a result is lost
     "close",      \* the transaction that closes with a failure is lost
     "death",      \* the executor dies
     "stall"}      \* an executor that lives loses its job

ASSUME InvestigationAssumption ==
    /\ MaxClaims \in Nat \ {0} /\ MaxTries \in Nat \ {0} /\ MaxStalls \in Nat
    /\ Faults \subseteq FaultKinds
    /\ Free \notin Requests \cup Executors

VARIABLES
    runs,      \* rows of investigation_runs of the incident, by createdAt
    versions,  \* rows of investigation_versions
    claims,    \* attempts claimed so far
    lock,      \* holder of pg_advisory_xact_lock for the incident
    req,       \* each request: where it is, what it read, its attempt
    jobs,      \* the BullMQ job of each attempt
    exec,      \* each executor: where it is, its attempt, the index it read
    told,      \* history: what the request that owns an attempt answered
    results    \* history: the attempts whose pipeline returned a result

runVars == <<runs, versions>>
webVars == <<claims, lock, req, told>>
workerVars == <<jobs, exec, results>>
vars == <<runVars, webVars, workerVars>>

Attempts == 1..MaxClaims
NoAttempt == 0
Statuses == {"pending", "ready", "failed", "expired"}

IdleRequest == [pc |-> "idle", saw |-> "none", attempt |-> NoAttempt]
IdleExecutor == [pc |-> "idle", attempt |-> NoAttempt, index |-> 0]
NoJob == [state |-> "none", made |-> 0, stalls |-> 0, by |-> Free, run |-> 1,
          threw |-> FALSE]

Init ==
    /\ runs = <<>> /\ versions = {}
    /\ claims = 0 /\ lock = Free
    /\ req = [q \in Requests |-> IdleRequest]
    /\ jobs = [a \in Attempts |-> NoJob]
    /\ exec = [x \in Executors |-> IdleExecutor]
    /\ told = [a \in Attempts |-> "nothing"]
    /\ results = {}

-----------------------------------------------------------------------------
(* Transitions of the run row *)

\* A guard that forgets which attempt is in flight.
AnyPendingRun(run, a) == run.status = "pending"

\* A guard that forgets that the attempt may have been closed.
SameAttempt(run, a) == run.current = a

\* attemptInFlight: the only row a closing transaction may change.
attemptInFlight(run, a) == run.status = "pending" /\ run.current = a

\* The updateMany of a closing transaction of attempt a.
CloseRun(a, status) ==
    runs' = [r \in DOMAIN runs |->
                IF attemptInFlight(runs[r], a)
                THEN [runs[r] EXCEPT !.status = status] ELSE runs[r]]

-----------------------------------------------------------------------------
(* The request: claimInvestigationAttempt *)

\* Mutual exclusion dropped: the transaction does not ask for the lock.
NoLock == TRUE

LockIsFree == lock = Free

ClaimReads(q) ==
    /\ req[q].pc = "idle"
    /\ claims < MaxClaims
    /\ LockIsFree
    /\ lock' = q
    /\ req' = [req EXCEPT ![q] =
          [pc |-> "claiming", attempt |-> NoAttempt,
           saw |-> IF runs = <<>> THEN "none" ELSE runs[1].status]]
    /\ UNCHANGED <<runVars, workerVars, claims, told>>

Answered(q) == req' = [req EXCEPT ![q] = IdleRequest]

\* One in course, or a result and no refresh asked for.
ClaimAnswersExisting(q) ==
    /\ req[q].pc = "claiming" /\ req[q].saw \in {"pending", "ready"}
    /\ lock' = Free
    /\ Answered(q)
    /\ UNCHANGED <<runVars, workerVars, claims, told>>

\* A row that is written before its attempt has a versionId.
UnnamedRun(a) == [status |-> "pending", current |-> NoAttempt, stale |-> FALSE]

FreshRun(a) == [status |-> "pending", current |-> a, stale |-> FALSE]

\* Anything else starts an attempt (a ready run because of refresh).
ClaimStarts(q) ==
    LET a == claims + 1
    IN  /\ req[q].pc = "claiming" /\ req[q].saw # "pending"
        /\ claims < MaxClaims
        /\ claims' = a
        /\ runs' = IF req[q].saw = "none" THEN Append(runs, FreshRun(a))
                   ELSE [runs EXCEPT ![1] = FreshRun(a)]
        /\ jobs' = [jobs EXCEPT ![a].run =
                       IF req[q].saw = "none" THEN Len(runs) + 1 ELSE 1]
        /\ lock' = Free
        /\ req' = [req EXCEPT ![q].pc = "enqueue", ![q].attempt = a]
        /\ UNCHANGED <<versions, exec, told, results>>

-----------------------------------------------------------------------------
(* The request: enqueue the attempt and wait for its outcome *)

Enqueue(q) ==
    /\ req[q].pc = "enqueue"
    /\ jobs' = [jobs EXCEPT ![req[q].attempt].state = "waiting"]
    /\ req' = [req EXCEPT ![q].pc = "awaiting"]
    /\ UNCHANGED <<runVars, claims, lock, told, exec, results>>

EnqueueFails(q) ==
    /\ req[q].pc = "enqueue"
    /\ \/ "refuse" \in Faults /\ UNCHANGED jobs
       \/ /\ "unanswered" \in Faults
          /\ jobs' = [jobs EXCEPT ![req[q].attempt].state = "waiting"]
    /\ req' = [req EXCEPT ![q].pc = "closing"]
    /\ UNCHANGED <<runVars, claims, lock, told, exec, results>>

\* failInvestigation of the route; its own failure is logged and swallowed.
CloseUnqueued(q) ==
    /\ req[q].pc = "closing"
    /\ \/ CloseRun(req[q].attempt, "failed")
       \/ "close" \in Faults /\ UNCHANGED runs
    /\ told' = [told EXCEPT ![req[q].attempt] = "failed"]
    /\ Answered(q)
    /\ UNCHANGED <<versions, claims, lock, workerVars>>

HasVersion(a) == \E v \in versions : v.attempt = a

\* awaitAttemptOutcome: the version first, then the run, then the clock.
AwaitSeesVersion(q) ==
    /\ req[q].pc = "awaiting" /\ HasVersion(req[q].attempt)
    /\ told' = [told EXCEPT ![req[q].attempt] = "ready"]
    /\ Answered(q)
    /\ UNCHANGED <<runVars, claims, lock, workerVars>>

AwaitSeesNoVersion(q) ==
    /\ req[q].pc = "awaiting" /\ ~HasVersion(req[q].attempt)
    /\ req' = [req EXCEPT ![q].pc = "looking"]
    /\ UNCHANGED <<runVars, claims, lock, told, workerVars>>

AwaitSeesRun(q) ==
    LET a == req[q].attempt
        run == runs[jobs[a].run]
    IN  /\ req[q].pc = "looking"
        /\ \/ /\ run.current = a /\ run.status = "failed"
              /\ told' = [told EXCEPT ![a] = "failed"]
              /\ Answered(q)
           \/ /\ ~(run.current = a /\ run.status = "failed")
              /\ \/ /\ told' = [told EXCEPT ![a] = "pending"]
                    /\ Answered(q)
                 \/ /\ req' = [req EXCEPT ![q].pc = "awaiting"]
                    /\ UNCHANGED told
        /\ UNCHANGED <<runVars, claims, lock, workerVars>>

\* The process that serves the request dies: a claim rolls back, and whatever
\* was committed stays.
WebDies(q) ==
    /\ "web" \in Faults
    /\ req[q].pc # "idle"
    /\ lock' = IF lock = q THEN Free ELSE lock
    /\ Answered(q)
    /\ UNCHANGED <<runVars, claims, told, workerVars>>

-----------------------------------------------------------------------------
(* The worker: executeInvestigationAttempt inside an investigation-run job *)

Owns(x) == exec[x].attempt # NoAttempt /\ jobs[exec[x].attempt].by = x

\* What the end of the handler makes of its job: the job of an executor that
\* lost it is not its own to move.  `threw' is a history: the last try ended on
\* a query that executeInvestigationAttempt does not catch.
EndJob(x, state, made, threw) ==
    /\ exec' = [exec EXCEPT ![x] = IdleExecutor]
    /\ jobs' = IF Owns(x)
               THEN [jobs EXCEPT ![exec[x].attempt].state = state,
                                 ![exec[x].attempt].made = made,
                                 ![exec[x].attempt].by = Free,
                                 ![exec[x].attempt].threw = threw]
               ELSE jobs

Tried(x) == jobs[exec[x].attempt].made + 1

JobDone(x) == EndJob(x, "done", jobs[exec[x].attempt].made, FALSE)

\* BullMQ counts the attempt and gives the job up after MaxTries.
JobThrows(x, threw) ==
    EndJob(x, IF Tried(x) < MaxTries THEN "waiting" ELSE "failed", Tried(x), threw)

Deliver(x, a) ==
    /\ exec[x].pc = "idle" /\ jobs[a].state = "waiting"
    /\ jobs' = [jobs EXCEPT ![a].state = "active", ![a].by = x]
    /\ exec' = [exec EXCEPT ![x] =
                   [pc |-> "checking", attempt |-> a, index |-> 0]]
    /\ UNCHANGED <<runVars, webVars, results>>

\* The incident, then the run: an attempt that is not in flight is skipped.  Both
\* reads are outside the try: what they throw is the job's.
CheckAttempt(x) ==
    LET a == exec[x].attempt IN
    /\ exec[x].pc = "checking"
    /\ \/ /\ "incident" \in Faults
          /\ exec' = [exec EXCEPT ![x].pc = "failing"]
          /\ UNCHANGED jobs
       \/ /\ attemptInFlight(runs[jobs[a].run], a)
          /\ exec' = [exec EXCEPT ![x].pc = "running"]
          /\ UNCHANGED jobs
       \/ /\ ~attemptInFlight(runs[jobs[a].run], a)
          /\ JobDone(x)
       \/ "query" \in Faults /\ JobThrows(x, TRUE)
    /\ UNCHANGED <<runVars, webVars, results>>

\* One attempt too many.
OffByOne(x) == Tried(x) <= MaxTries

AttemptsLeft(x) == Tried(x) < MaxTries

\* Retry while there are attempts left and the error is transient.
Errs(x, retryable) ==
    \/ /\ retryable /\ AttemptsLeft(x)
       /\ JobThrows(x, FALSE)
    \/ /\ ~(retryable /\ AttemptsLeft(x))
       /\ exec' = [exec EXCEPT ![x].pc = "failing"]
       /\ UNCHANGED jobs

PipelineReturns(x) ==
    /\ exec[x].pc = "running"
    /\ exec' = [exec EXCEPT ![x].pc = "saving"]
    /\ results' = results \cup {exec[x].attempt}
    /\ UNCHANGED <<runVars, webVars, jobs>>

PipelineThrows(x) ==
    /\ exec[x].pc = "running"
    /\ \E kind \in Faults \cap {"transient", "permanent"} :
          Errs(x, kind = "transient")
    /\ UNCHANGED <<runVars, webVars, results>>

VersionsOf(r) == {v \in versions : v.run = r}

\* The latest version of a run, as getLatestInvestigationVersion finds it too.
IsLatest(v, r) == v \in VersionsOf(r) /\ \A w \in VersionsOf(r) : w.index <= v.index

\* insertValidatedVersion reads the latest versionIndex of the run.
ReadLatestIndex(x) ==
    LET r == jobs[exec[x].attempt].run IN
    /\ exec[x].pc = "saving"
    /\ \E n \in 0..MaxClaims :
          /\ \/ VersionsOf(r) = {} /\ n = 0
             \/ \E v \in versions : IsLatest(v, r) /\ n = v.index + 1
          /\ exec' = [exec EXCEPT ![x].pc = "inserting", ![x].index = n]
    /\ UNCHANGED <<runVars, webVars, jobs, results>>

\* The unique keys (runId, versionIndex) and (versionId).
Collides(a, index) ==
    \E v \in versions :
        v.attempt = a \/ (v.run = jobs[a].run /\ v.index = index)

\* A close that inserts the version and leaves the run to a later statement.
InsertsOnly(a, status) == UNCHANGED runs

\* The transition to ready in the transaction that inserts the version.
CompleteRun(a, status) == CloseRun(a, status)

\* The transaction of completeInvestigation.
Commits(x) ==
    LET a == exec[x].attempt IN
    /\ ~Collides(a, exec[x].index)
    /\ versions' = versions \cup
          {[run |-> jobs[a].run, attempt |-> a, index |-> exec[x].index]}
    /\ CompleteRun(a, "ready")

Complete(x) ==
    /\ exec[x].pc = "inserting"
    /\ Commits(x)
    /\ JobDone(x)
    /\ UNCHANGED <<webVars, results>>

\* A duplicate key (P2002) is not retryable.  A lost connection is, whether the
\* transaction was lost with it or only the answer.
CompleteErrs(x) ==
    /\ exec[x].pc = "inserting"
    /\ \/ /\ Collides(exec[x].attempt, exec[x].index)
          /\ Errs(x, FALSE) /\ UNCHANGED runVars
       \/ /\ "commit" \in Faults
          /\ Errs(x, TRUE) /\ (Commits(x) \/ UNCHANGED runVars)
    /\ UNCHANGED <<webVars, results>>

\* failInvestigation of the executor; when it throws, the job throws.
FailAttempt(x) ==
    /\ exec[x].pc = "failing"
    /\ \/ CloseRun(exec[x].attempt, "failed") /\ JobDone(x)
       \/ /\ "close" \in Faults
          /\ CloseRun(exec[x].attempt, "failed") \/ UNCHANGED runs
          /\ JobThrows(x, TRUE)
    /\ UNCHANGED <<versions, webVars, results>>

ExecutorDies(x) ==
    /\ "death" \in Faults
    /\ exec[x].pc # "idle"
    /\ exec' = [exec EXCEPT ![x] = IdleExecutor]
    /\ UNCHANGED <<runVars, webVars, jobs, results>>

StallsLeft(a) == jobs[a].stalls < MaxStalls

\* BullMQ takes back a job whose lock expired, once; then it gives it up.  Its
\* executor is dead, or alive and too busy to renew the lock.
Stall(a) ==
    /\ jobs[a].state = "active"
    /\ \/ "stall" \in Faults
       \/ ~\E x \in Executors : x = jobs[a].by /\ exec[x].attempt = a
    /\ \/ /\ StallsLeft(a)
          /\ jobs' = [jobs EXCEPT ![a].by = Free, ![a].state = "waiting",
                                  ![a].stalls = @ + 1]
       \/ /\ ~StallsLeft(a)
          /\ jobs' = [jobs EXCEPT ![a].by = Free, ![a].state = "failed"]
    /\ UNCHANGED <<runVars, webVars, exec, results>>

-----------------------------------------------------------------------------
(* The clock and the sweep *)

\* The attempt passes INVESTIGATION_PENDING_TTL_MS.
TtlPasses ==
    /\ \E r \in DOMAIN runs :
          /\ runs[r].status = "pending" /\ ~runs[r].stale
          /\ runs' = [runs EXCEPT ![r].stale = TRUE]
    /\ UNCHANGED <<versions, webVars, workerVars>>

\* A sweep that waits for the queue to give the job up.
OnlyGivenUp(run) == run.stale /\ jobs[run.current].state = "failed"

Abandoned(run) == run.stale

\* expireStaleRuns
Sweep ==
    /\ \E r \in DOMAIN runs : runs[r].status = "pending" /\ Abandoned(runs[r])
    /\ runs' = [r \in DOMAIN runs |->
                   IF runs[r].status = "pending" /\ Abandoned(runs[r])
                   THEN [runs[r] EXCEPT !.status = "expired"] ELSE runs[r]]
    /\ UNCHANGED <<versions, webVars, workerVars>>

-----------------------------------------------------------------------------

RequestStep(q) ==
    \/ ClaimReads(q) \/ ClaimAnswersExisting(q) \/ ClaimStarts(q)
    \/ Enqueue(q) \/ EnqueueFails(q) \/ CloseUnqueued(q)
    \/ AwaitSeesVersion(q) \/ AwaitSeesNoVersion(q) \/ AwaitSeesRun(q)
    \/ WebDies(q)

ExecutorStep(x) ==
    \/ \E a \in Attempts : Deliver(x, a)
    \/ CheckAttempt(x) \/ PipelineReturns(x) \/ PipelineThrows(x)
    \/ ReadLatestIndex(x) \/ Complete(x) \/ CompleteErrs(x) \/ FailAttempt(x)
    \/ ExecutorDies(x)

Next ==
    \/ \E q \in Requests : RequestStep(q)
    \/ \E x \in Executors : ExecutorStep(x)
    \/ \E a \in Attempts : Stall(a)
    \/ TtlPasses \/ Sweep

\* Time passes and the sweep runs every INVESTIGATION_SWEEP_INTERVAL_MS.  Of
\* requests and executors nothing is assumed: they may stop anywhere.
Spec == Init /\ [][Next]_vars /\ WF_vars(TtlPasses) /\ WF_vars(Sweep)

-----------------------------------------------------------------------------
(* Properties *)

TypeOK ==
    /\ runs \in Seq([status : Statuses, current : Attempts, stale : BOOLEAN])
    /\ versions \subseteq [run : DOMAIN runs, attempt : Attempts,
                            index : 0..MaxClaims]
    /\ claims \in 0..MaxClaims
    /\ lock \in Requests \cup {Free}
    /\ req \in [Requests ->
          [pc : {"idle", "claiming", "enqueue", "closing", "awaiting", "looking"},
           saw : Statuses \cup {"none"}, attempt : Attempts \cup {NoAttempt}]]
    /\ jobs \in [Attempts ->
          [state : {"none", "waiting", "active", "done", "failed"},
           made : 0..MaxTries, stalls : 0..MaxStalls,
           by : Executors \cup {Free}, run : Nat \ {0}, threw : BOOLEAN]]
    /\ exec \in [Executors ->
          [pc : {"idle", "checking", "running", "saving", "inserting", "failing"},
           attempt : Attempts \cup {NoAttempt}, index : 0..MaxClaims]]
    /\ told \in [Attempts -> {"nothing", "ready", "failed", "pending"}]
    /\ results \subseteq Attempts

\* Simultaneous requests never start two runs of one incident (the route's
\* comment on the per-incident lock, claim.ts:47-55).
OneRunPerIncident == Len(runs) <= 1

\* A ready run has the result of the attempt it names: neither a late attempt
\* nor a crash between the insert and the transition makes it ready without
\* (complete.ts:73-81).
ReadyHasItsVersion ==
    \A r \in DOMAIN runs : runs[r].status = "ready" => HasVersion(runs[r].current)

\* No saved result is left behind with its run pending (complete.ts:74-76).
NoOrphanResult ==
    \A r \in DOMAIN runs : runs[r].status = "pending" => ~HasVersion(runs[r].current)

\* What a caller was told has failed does not become the incident's result,
\* whoever still runs it (failInvestigation is final for its attempt).
ToldFailedIsFinal ==
    \A r \in DOMAIN runs :
        told[runs[r].current] = "failed" => runs[r].status # "ready"

\* A job that ended has closed its attempt, whatever the pipeline threw, unless the
\* queue gave it up after it stalled, or its last try ended on a query nobody catches:
\* a read before the pipeline or the close itself (execute.ts:100-155, registry.ts:78-98).
JobClosesItsAttempt ==
    \A r \in DOMAIN runs :
        LET job == jobs[runs[r].current] IN
        /\ runs[r].status = "pending"
        /\ job.state \in {"done", "failed"}
        => job.state = "failed" /\ (job.stalls = MaxStalls \/ job.threw)

\* Every attempt leaves pending, so the incident can be investigated again,
\* whoever died (complete.ts:189-190).
PendingEnds ==
    \A a \in Attempts :
        (\E r \in DOMAIN runs : runs[r].status = "pending" /\ runs[r].current = a)
            ~> ~(\E r \in DOMAIN runs :
                    runs[r].status = "pending" /\ runs[r].current = a)

\* The run row is the life of the incident's investigation: one attempt in
\* flight, never replaced, and late results are kept without touching it.
Life == INSTANCE InvestigationLifecycle
            WITH status <- IF runs = <<>> THEN "none" ELSE runs[1].status,
                 attempt <- IF runs = <<>> THEN NoAttempt ELSE runs[1].current,
                 kept <- {v.attempt : v \in versions}

LifecycleSpec == Life!Spec

\* A late attempt does not change the state of a newer one (complete.ts:78-80):
\* without faults, an attempt whose pipeline returned a result does not fail.
CurrentResultIsKept ==
    \A r \in DOMAIN runs :
        runs[r].status = "failed" => runs[r].current \notin results
=============================================================================
