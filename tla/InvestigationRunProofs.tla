------------------------ MODULE InvestigationRunProofs ------------------------
(***************************************************************************)
(* Proofs about InvestigationRun for every number of requests, executors,  *)
(* attempts, tries and stalls: its type invariant, the safety invariants   *)
(* of its runs, and that it implements InvestigationLifecycle.             *)
(***************************************************************************)
EXTENDS InvestigationRun, TLAPS

-----------------------------------------------------------------------------
(* The inductive invariant *)

\* A row of investigation_runs.
Run == [status : Statuses, current : Attempts, stale : BOOLEAN]

\* There is at most one run, it names the last attempt claimed, and every job
\* works for it.
RunInv ==
    /\ Len(runs) <= 1
    /\ runs = <<>> => claims = 0
    /\ runs # <<>> => runs[1].current = claims
    /\ \A a \in Attempts : jobs[a].run = 1

\* A request between the two statements of the claim holds the lock, and what
\* it read still decides: nobody else can start an attempt.
ClaimInv ==
    \A q \in Requests : req[q].pc = "claiming" =>
        /\ lock = q
        /\ (req[q].saw = "none") <=> (runs = <<>>)
        /\ runs # <<>> /\ req[q].saw # "pending" => runs[1].status # "pending"

\* Nothing is known of an attempt before it is claimed.
AttemptInv ==
    /\ \A a \in Attempts : a > claims =>
          /\ jobs[a].state = "none"
          /\ told[a] = "nothing"
    /\ \A v \in versions : v.attempt <= claims
    /\ \A q \in Requests :
          /\ req[q].attempt <= claims
          /\ req[q].pc \in {"enqueue", "closing", "awaiting", "looking"}
                => req[q].attempt # NoAttempt
    /\ \A x \in Executors :
          /\ exec[x].attempt <= claims
          /\ exec[x].pc # "idle" => exec[x].attempt # NoAttempt

\* Only an active job has an owner, and a job that may still run has a try
\* left.  An attempt is enqueued by the one request that claimed it, and only
\* then executed.
JobInv ==
    /\ \A a \in Attempts :
          /\ jobs[a].by # Free => jobs[a].state = "active"
          /\ jobs[a].state \in {"none", "waiting", "active"}
                => jobs[a].made < MaxTries
    /\ \A q \in Requests : req[q].pc = "enqueue" =>
          /\ jobs[req[q].attempt].state = "none"
          /\ \A other \in Requests \ {q} : req[other].attempt # req[q].attempt
    /\ \A x \in Executors :
          exec[x].pc # "idle" => jobs[exec[x].attempt].state # "none"

\* The inductive invariant.
IInv == TypeOK /\ RunInv /\ ClaimInv /\ AttemptInv /\ JobInv

-----------------------------------------------------------------------------
(* Lemmas about the rows and the jobs *)

\* Rows rewritten one by one are still rows, and as many.
LEMMA RowsRewritten ==
    ASSUME NEW S, NEW s \in Seq(S), NEW t,
           DOMAIN t = DOMAIN s, t = [r \in DOMAIN s |-> t[r]],
           \A r \in DOMAIN s : t[r] \in S
    PROVE  /\ t \in Seq(S) /\ Len(t) = Len(s)
           /\ t = <<>> <=> s = <<>>
<1>1. DOMAIN s = 1..Len(s) /\ Len(s) \in Nat
  OBVIOUS
<1>2. t \in [1..Len(s) -> S]
  BY <1>1
<1>3. t \in Seq(S)
  BY <1>1, <1>2
<1>4. Len(t) = Len(s)
  BY <1>1, <1>3
<1> QED BY <1>3, <1>4

\* The only row a close may change is a pending one with its attempt.
LEMMA CloseKeeps ==
    ASSUME TypeOK, NEW a, NEW status \in Statuses, CloseRun(a, status)
    PROVE  /\ runs' \in Seq(Run) /\ Len(runs') = Len(runs)
           /\ runs' = <<>> <=> runs = <<>>
           /\ DOMAIN runs' = DOMAIN runs
           /\ \A r \in DOMAIN runs :
                 /\ runs'[r].current = runs[r].current
                 /\ runs'[r].status =
                      IF attemptInFlight(runs[r], a) THEN status ELSE runs[r].status
<1>1. runs \in Seq(Run)
  BY DEF TypeOK, Run
<1>2. \A r \in DOMAIN runs : runs[r] \in Run
  BY <1>1
<1>3. runs' = [r \in DOMAIN runs |->
                IF attemptInFlight(runs[r], a)
                THEN [runs[r] EXCEPT !.status = status] ELSE runs[r]]
  BY DEF CloseRun
<1>4. \A r \in DOMAIN runs : runs'[r] \in Run
  BY <1>2, <1>3 DEF Run
<1>5. runs' \in Seq(Run) /\ Len(runs') = Len(runs) /\ (runs' = <<>> <=> runs = <<>>)
  BY <1>1, <1>3, <1>4, RowsRewritten
<1>6. \A r \in DOMAIN runs :
        /\ runs'[r].current = runs[r].current
        /\ runs'[r].status =
             IF attemptInFlight(runs[r], a) THEN status ELSE runs[r].status
  BY <1>2, <1>3 DEF Run
<1> QED BY <1>3, <1>5, <1>6

-----------------------------------------------------------------------------
(* Steps of the worker, the queue and the sweep *)

\* A job of the queue.
Job == [state : {"none", "waiting", "active", "done", "failed"},
        made : 0..MaxTries, stalls : 0..MaxStalls,
        by : Executors \cup {Free}, run : Nat \ {0}, threw : BOOLEAN]

\* What an executor is at.
Executor == [pc : {"idle", "checking", "running", "saving", "inserting", "failing"},
             attempt : Attempts \cup {NoAttempt}, index : 0..MaxClaims]

\* What they may do to jobs and executors: never enqueue, never grant a try
\* that is not left, never work for an attempt nobody claimed.
WorkerMoves ==
    /\ jobs' \in [Attempts -> Job]
    /\ exec' \in [Executors -> Executor]
    /\ results' \subseteq Attempts
    /\ \A a \in Attempts :
          /\ jobs'[a].run = jobs[a].run
          /\ jobs[a].state = "none" <=> jobs'[a].state = "none"
          /\ jobs'[a].by # Free => jobs'[a].state = "active"
          /\ jobs'[a].state \in {"none", "waiting", "active"}
                => jobs'[a].made < MaxTries
    /\ \A x \in Executors :
          /\ exec'[x].attempt <= claims
          /\ exec'[x].pc # "idle" =>
                /\ exec'[x].attempt # NoAttempt
                /\ jobs[exec'[x].attempt].state # "none"

\* What they may do to the row: close it.
RowsKept ==
    /\ runs' \in Seq(Run) /\ Len(runs') = Len(runs)
    /\ runs' = <<>> <=> runs = <<>>
    /\ DOMAIN runs' = DOMAIN runs
    /\ \A r \in DOMAIN runs :
          /\ runs'[r].current = runs[r].current
          /\ runs[r].status # "pending" => runs'[r].status = runs[r].status

\* What they may do to the versions: add one of a claimed attempt.
VersionsKept ==
    /\ versions' \subseteq [run : DOMAIN runs, attempt : Attempts,
                             index : 0..MaxClaims]
    /\ \A v \in versions' : v.attempt <= claims

\* A step of the worker, the queue, the clock or the sweep.
WorkersAct == WorkerMoves /\ RowsKept /\ VersionsKept /\ UNCHANGED webVars

\* Each part of the invariant survives what is allowed.
LEMMA WorkerKeepsInv ==
    ASSUME IInv, WorkerMoves, RowsKept, VersionsKept, UNCHANGED webVars
    PROVE  IInv'
<1> USE DEF IInv
<1>1. TypeOK'
  BY DEF TypeOK, WorkerMoves, RowsKept, VersionsKept, webVars, Run, Job, Executor,
         Attempts, Statuses
<1>2. RunInv'
  <2>1. Len(runs') <= 1 /\ (runs' = <<>> => claims' = 0)
    BY DEF RunInv, RowsKept, webVars
  <2>2. runs' # <<>> => runs'[1].current = claims'
    <3>1. runs # <<>> => 1 \in DOMAIN runs
      BY DEF TypeOK
    <3> QED BY <3>1 DEF RunInv, RowsKept, webVars
  <2>3. \A a \in Attempts : jobs'[a].run = 1
    BY DEF RunInv, WorkerMoves
  <2> QED BY <2>1, <2>2, <2>3 DEF RunInv, webVars, Attempts
<1>3. ClaimInv'
  <2>1. runs # <<>> => 1 \in DOMAIN runs
    BY DEF TypeOK
  <2> QED BY <2>1 DEF ClaimInv, RowsKept, webVars
<1>4. AttemptInv'
  BY DEF AttemptInv, WorkerMoves, VersionsKept, webVars, Attempts
<1>5. JobInv'
  <2>1. ASSUME NEW x \in Executors, exec'[x].pc # "idle"
        PROVE  jobs'[exec'[x].attempt].state # "none"
    <3>1. exec'[x].attempt \in Attempts
      BY <2>1 DEF WorkerMoves, Executor, NoAttempt
    <3> QED BY <2>1, <3>1 DEF WorkerMoves
  <2>2. \A q \in Requests : req'[q].pc = "enqueue" =>
            /\ jobs'[req'[q].attempt].state = "none"
            /\ \A other \in Requests \ {q} : req'[other].attempt # req'[q].attempt
    BY DEF JobInv, AttemptInv, TypeOK, WorkerMoves, webVars, Attempts, NoAttempt
  <2> QED BY <2>1, <2>2 DEF JobInv, WorkerMoves
<1> QED BY <1>1, <1>2, <1>3, <1>4, <1>5

\* Nothing done is allowed.
LEMMA WorkerRests ==
    ASSUME IInv, UNCHANGED workerVars
    PROVE  WorkerMoves
BY DEF IInv, TypeOK, AttemptInv, JobInv, WorkerMoves, workerVars, Job, Executor

\* Rows left alone are kept.
LEMMA RowsRest ==
    ASSUME IInv, UNCHANGED runVars
    PROVE  RowsKept /\ VersionsKept
BY DEF IInv, TypeOK, AttemptInv, RowsKept, VersionsKept, runVars, Run

\* A close only closes.
LEMMA CloseIsKept ==
    ASSUME IInv, NEW a, NEW status \in Statuses, CloseRun(a, status)
    PROVE  RowsKept
BY CloseKeeps DEF IInv, RowsKept, attemptInFlight

\* The end of a handler.
LEMMA EndJobMoves ==
    ASSUME IInv, NEW x \in Executors, exec[x].pc # "idle",
           NEW state \in {"waiting", "done", "failed"}, NEW made \in 0..MaxTries,
           state = "waiting" => made < MaxTries, NEW threw \in BOOLEAN,
           EndJob(x, state, made, threw), results' = results
    PROVE  WorkerMoves
<1> DEFINE a == exec[x].attempt
<1>1. a \in Attempts
  BY DEF IInv, AttemptInv, TypeOK, NoAttempt
<1>2. /\ jobs \in [Attempts -> Job] /\ exec \in [Executors -> Executor]
      /\ results \subseteq Attempts /\ claims \in Nat
  BY DEF IInv, TypeOK, Job, Executor
<1>3. /\ exec' \in [Executors -> Executor]
      /\ \A y \in Executors :
            /\ exec'[y].attempt <= claims
            /\ exec'[y].pc # "idle" =>
                  /\ exec'[y].attempt # NoAttempt
                  /\ jobs[exec'[y].attempt].state # "none"
  <2>1. IdleExecutor \in Executor /\ exec' = [exec EXCEPT ![x] = IdleExecutor]
    BY InvestigationAssumption DEF EndJob, IdleExecutor, Executor, NoAttempt
  <2> QED BY <1>2, <2>1 DEF IInv, AttemptInv, JobInv, IdleExecutor, NoAttempt
<1>4. CASE Owns(x)
  <2>1. jobs[a].state = "active"
    BY <1>1, <1>4, InvestigationAssumption DEF IInv, JobInv, Owns
  <2>2. jobs' = [jobs EXCEPT ![a].state = state, ![a].made = made, ![a].by = Free,
                             ![a].threw = threw]
    BY <1>4 DEF EndJob
  <2>3. jobs[a] \in Job
        /\ jobs'[a] = [jobs[a] EXCEPT !.state = state, !.made = made, !.by = Free,
                                      !.threw = threw]
    BY <1>1, <1>2, <2>2
  <2>4. /\ jobs'[a] \in Job /\ jobs'[a].run = jobs[a].run
        /\ jobs'[a].state = state /\ jobs'[a].made = made /\ jobs'[a].by = Free
    BY <1>1, <1>2, <2>3 DEF Job
  <2>5. \A b \in Attempts \ {a} : jobs'[b] = jobs[b]
    BY <1>2, <2>2
  <2>6. jobs' \in [Attempts -> Job]
    BY <1>1, <1>2, <2>2, <2>4, <2>5
  <2> QED BY <1>2, <1>3, <2>1, <2>4, <2>5, <2>6 DEF IInv, JobInv, WorkerMoves
<1>5. CASE ~Owns(x)
  BY <1>2, <1>3, <1>5 DEF IInv, JobInv, WorkerMoves, EndJob
<1> QED BY <1>4, <1>5

\* A step of the handler that leaves its job alone.
LEMMA AdvanceMoves ==
    ASSUME IInv, NEW x \in Executors, exec[x].pc # "idle",
           NEW pc \in {"checking", "running", "saving", "inserting", "failing"},
           NEW index \in 0..MaxClaims,
           exec' = [exec EXCEPT ![x].pc = pc, ![x].index = index],
           UNCHANGED jobs, results' \subseteq results \cup {exec[x].attempt}
    PROVE  WorkerMoves
<1>1. /\ exec[x] \in Executor /\ exec[x].attempt \in Attempts
      /\ exec \in [Executors -> Executor] /\ results \subseteq Attempts
  BY DEF IInv, AttemptInv, TypeOK, NoAttempt, Executor
<1>2. exec'[x] = [exec[x] EXCEPT !.pc = pc, !.index = index]
  BY <1>1
<1>3. exec'[x] \in Executor /\ exec'[x].attempt = exec[x].attempt
  BY <1>1, <1>2 DEF Executor
<1>4. \A y \in Executors \ {x} : exec'[y] = exec[y]
  BY <1>1
<1>5. exec' \in [Executors -> Executor]
  BY <1>1, <1>3, <1>4
<1>6. results' \subseteq Attempts
  BY <1>1
<1>7. \A y \in Executors : /\ exec'[y].attempt <= claims
                           /\ exec'[y].pc # "idle" => exec'[y].attempt # NoAttempt
  BY <1>1, <1>3, <1>4 DEF IInv, AttemptInv, NoAttempt, Attempts
<1> QED BY <1>5, <1>6, <1>7 DEF IInv, TypeOK, JobInv, WorkerMoves, Job

\* A handler that throws with a try left, or decides to close its attempt.
LEMMA ErrsMoves ==
    ASSUME IInv, NEW x \in Executors, exec[x].pc # "idle",
           NEW retryable, Errs(x, retryable), results' = results
    PROVE  WorkerMoves
<1>1. exec[x].attempt \in Attempts /\ exec[x] \in Executor
  BY DEF IInv, AttemptInv, TypeOK, NoAttempt, Executor
<1>2. CASE retryable /\ AttemptsLeft(x)
  <2>1. Tried(x) \in 0..MaxTries /\ Tried(x) < MaxTries
    BY <1>1, <1>2, InvestigationAssumption DEF IInv, TypeOK, AttemptsLeft, Tried
  <2>2. EndJob(x, "waiting", Tried(x), FALSE)
    BY <1>2, <2>1 DEF Errs, JobThrows
  <2> QED BY <2>1, <2>2, EndJobMoves
<1>3. CASE ~(retryable /\ AttemptsLeft(x))
  <2>1. exec' = [exec EXCEPT ![x].pc = "failing"] /\ UNCHANGED jobs
    BY <1>3 DEF Errs
  <2>2. exec' = [exec EXCEPT ![x].pc = "failing", ![x].index = exec[x].index]
    BY <1>1, <2>1 DEF IInv, TypeOK, Executor
  <2>3. exec[x].index \in 0..MaxClaims
    BY <1>1 DEF Executor
  <2> QED BY <2>1, <2>2, <2>3, AdvanceMoves
<1> QED BY <1>2, <1>3

\* A handler that returns.
LEMMA JobDoneMoves ==
    ASSUME IInv, NEW x \in Executors, exec[x].pc # "idle", JobDone(x),
           results' = results
    PROVE  WorkerMoves
<1>1. exec[x].attempt \in Attempts
  BY DEF IInv, AttemptInv, TypeOK, NoAttempt
<1>2. jobs[exec[x].attempt].made \in 0..MaxTries
  BY <1>1 DEF IInv, TypeOK
<1> QED BY <1>2, EndJobMoves DEF JobDone

\* Whichever way the job of an executor that throws is left.
LEMMA JobThrowsMoves ==
    ASSUME IInv, NEW x \in Executors, exec[x].pc # "idle", NEW threw \in BOOLEAN,
           JobThrows(x, threw), results' = results
    PROVE  WorkerMoves
<1>1. exec[x].attempt \in Attempts
  BY DEF IInv, AttemptInv, TypeOK, NoAttempt
<1>2. CASE Owns(x)
  <2>1. jobs[exec[x].attempt].made < MaxTries
    BY <1>1, <1>2, InvestigationAssumption DEF IInv, JobInv, Owns
  <2>2. Tried(x) \in 0..MaxTries
    BY <1>1, <2>1, InvestigationAssumption DEF IInv, TypeOK, Tried
  <2> QED BY <2>2, EndJobMoves DEF JobThrows
<1>3. CASE ~Owns(x)
  <2>1. EndJob(x, "done", 0, FALSE)
    BY <1>3 DEF JobThrows, EndJob
  <2>2. 0 \in 0..MaxTries
    BY InvestigationAssumption
  <2> QED BY <2>1, <2>2, EndJobMoves
<1> QED BY <1>2, <1>3

\* The transaction that closes with a result.
LEMMA CommitsKeeps ==
    ASSUME IInv, NEW x \in Executors, exec[x].pc # "idle", Commits(x)
    PROVE  RowsKept /\ VersionsKept
<1> DEFINE a == exec[x].attempt
<1>1. a \in Attempts /\ a <= claims /\ exec[x].index \in 0..MaxClaims
  BY DEF IInv, AttemptInv, TypeOK, NoAttempt
<1>2. jobs[a].run = 1 /\ 1 \in DOMAIN runs
  <2>1. claims # 0
    BY <1>1 DEF Attempts, IInv, TypeOK
  <2> QED BY <1>1, <2>1 DEF IInv, RunInv, TypeOK
<1>3. VersionsKept
  BY <1>1, <1>2 DEF IInv, TypeOK, AttemptInv, VersionsKept, Commits
<1>4. "ready" \in Statuses
  BY DEF Statuses
<1>5. RowsKept
  BY <1>4, CloseIsKept DEF Commits, CompleteRun
<1> QED BY <1>3, <1>5

\* A step of an executor only does what is allowed.
LEMMA ExecutorActs ==
    ASSUME IInv, NEW x \in Executors, ExecutorStep(x)
    PROVE  WorkersAct
<1> DEFINE a == exec[x].attempt
<1>a. "failed" \in Statuses /\ "ready" \in Statuses
  BY DEF Statuses
<1>b. /\ jobs \in [Attempts -> Job] /\ exec \in [Executors -> Executor]
      /\ results \subseteq Attempts
  BY DEF IInv, TypeOK, Job, Executor
<1>1. ASSUME NEW b \in Attempts, Deliver(x, b) PROVE WorkersAct
  <2>0. b <= claims
    <3>1. jobs[b].state # "none" /\ claims \in Nat /\ b \in Nat
      BY <1>1 DEF Deliver, IInv, TypeOK, Attempts
    <3> QED BY <3>1 DEF IInv, AttemptInv
  <2>1. /\ jobs[b].state = "waiting"
        /\ jobs' = [jobs EXCEPT ![b].state = "active", ![b].by = x]
        /\ exec' = [exec EXCEPT ![x] = [pc |-> "checking", attempt |-> b, index |-> 0]]
        /\ UNCHANGED <<runVars, webVars, results>>
    BY <1>1 DEF Deliver
  <2>2. /\ jobs[b] \in Job
        /\ jobs'[b] = [jobs[b] EXCEPT !.state = "active", !.by = x]
    BY <1>b, <2>1
  <2>3. /\ jobs'[b] \in Job /\ jobs'[b].run = jobs[b].run
        /\ jobs'[b].state = "active" /\ jobs'[b].made = jobs[b].made
    BY <2>2 DEF Job
  <2>4. \A c \in Attempts \ {b} : jobs'[c] = jobs[c]
    BY <1>b, <2>1
  <2>5. jobs' \in [Attempts -> Job]
    BY <1>b, <2>1, <2>3, <2>4
  <2>6. [pc |-> "checking", attempt |-> b, index |-> 0] \in Executor
    BY InvestigationAssumption DEF Executor
  <2>7. /\ exec' \in [Executors -> Executor]
        /\ \A y \in Executors :
              /\ exec'[y].attempt <= claims
              /\ exec'[y].pc # "idle" => exec'[y].attempt # NoAttempt
    BY <1>b, <2>0, <2>1, <2>6 DEF IInv, AttemptInv, Attempts, NoAttempt
  <2>8. WorkerMoves
    BY <1>b, <2>1, <2>3, <2>4, <2>5, <2>7 DEF IInv, JobInv, WorkerMoves
  <2> QED BY <2>1, <2>8, RowsRest DEF WorkersAct
<1>2. ASSUME CheckAttempt(x) PROVE WorkersAct
  <2>1. UNCHANGED <<runVars, webVars, results>> /\ exec[x].pc # "idle"
    BY <1>2 DEF CheckAttempt
  <2>2. CASE JobDone(x)
    BY <2>1, <2>2, JobDoneMoves, RowsRest DEF WorkersAct
  <2>4. CASE JobThrows(x, TRUE)
    BY <2>1, <2>4, JobThrowsMoves, RowsRest DEF WorkersAct
  <2>3. CASE ~JobDone(x) /\ ~JobThrows(x, TRUE)
    <3>1. PICK pc \in {"failing", "running"} :
              exec' = [exec EXCEPT ![x].pc = pc] /\ UNCHANGED jobs
      BY <1>2, <2>3 DEF CheckAttempt
    <3>2. exec' = [exec EXCEPT ![x].pc = pc, ![x].index = exec[x].index]
          /\ exec[x].index \in 0..MaxClaims
      BY <1>b, <3>1 DEF Executor
    <3> QED BY <2>1, <3>1, <3>2, AdvanceMoves, RowsRest DEF WorkersAct
  <2> QED BY <2>2, <2>3, <2>4
<1>3. ASSUME PipelineReturns(x) PROVE WorkersAct
  <2>1. /\ UNCHANGED <<runVars, webVars, jobs>> /\ exec[x].pc # "idle"
        /\ results' = results \cup {exec[x].attempt}
    BY <1>3 DEF PipelineReturns
  <2>2. exec' = [exec EXCEPT ![x].pc = "saving", ![x].index = exec[x].index]
        /\ exec[x].index \in 0..MaxClaims
    BY <1>3, <1>b DEF PipelineReturns, Executor
  <2> QED BY <2>1, <2>2, AdvanceMoves, RowsRest DEF WorkersAct
<1>4. ASSUME PipelineThrows(x) PROVE WorkersAct
  BY <1>4, ErrsMoves, RowsRest DEF PipelineThrows, WorkersAct
<1>5. ASSUME ReadLatestIndex(x) PROVE WorkersAct
  <2>1. UNCHANGED <<runVars, webVars, jobs, results>> /\ exec[x].pc # "idle"
    BY <1>5 DEF ReadLatestIndex
  <2>2. PICK n \in 0..MaxClaims :
            exec' = [exec EXCEPT ![x].pc = "inserting", ![x].index = n]
    BY <1>5 DEF ReadLatestIndex
  <2> QED BY <2>1, <2>2, AdvanceMoves, RowsRest DEF WorkersAct
<1>6. ASSUME Complete(x) PROVE WorkersAct
  BY <1>6, JobDoneMoves, CommitsKeeps DEF Complete, WorkersAct
<1>7. ASSUME CompleteErrs(x) PROVE WorkersAct
  <2>1. /\ UNCHANGED <<webVars, results>> /\ exec[x].pc # "idle"
        /\ Errs(x, FALSE) \/ Errs(x, TRUE)
        /\ Commits(x) \/ UNCHANGED runVars
    BY <1>7 DEF CompleteErrs
  <2>2. WorkerMoves
    BY <2>1, ErrsMoves
  <2> QED BY <2>1, <2>2, CommitsKeeps, RowsRest DEF WorkersAct
<1>8. ASSUME FailAttempt(x) PROVE WorkersAct
  <2>1. /\ UNCHANGED <<versions, webVars, results>> /\ exec[x].pc # "idle"
        /\ JobDone(x) \/ JobThrows(x, TRUE)
        /\ CloseRun(a, "failed") \/ UNCHANGED runs
    BY <1>8 DEF FailAttempt
  <2>2. WorkerMoves
    BY <2>1, JobDoneMoves, JobThrowsMoves
  <2>3. RowsKept
    <3>1. CASE CloseRun(a, "failed")
      BY <1>a, <3>1, CloseIsKept
    <3>2. CASE UNCHANGED runs
      BY <2>1, <3>2, RowsRest DEF runVars
    <3> QED BY <2>1, <3>1, <3>2
  <2>4. VersionsKept
    BY <2>1, <2>3 DEF IInv, TypeOK, AttemptInv, VersionsKept, RowsKept
  <2> QED BY <2>1, <2>2, <2>3, <2>4 DEF WorkersAct
<1>9. ASSUME ExecutorDies(x) PROVE WorkersAct
  <2>1. UNCHANGED <<runVars, webVars, jobs, results>>
        /\ exec' = [exec EXCEPT ![x] = IdleExecutor]
    BY <1>9 DEF ExecutorDies
  <2>2. IdleExecutor \in Executor /\ IdleExecutor.pc = "idle"
        /\ IdleExecutor.attempt <= claims
    BY InvestigationAssumption DEF IdleExecutor, Executor, NoAttempt, IInv, TypeOK
  <2>3. WorkerMoves
    BY <1>b, <2>1, <2>2 DEF IInv, AttemptInv, JobInv, WorkerMoves
  <2> QED BY <2>1, <2>3, RowsRest DEF WorkersAct
<1> QED BY <1>1, <1>2, <1>3, <1>4, <1>5, <1>6, <1>7, <1>8, <1>9 DEF ExecutorStep

\* So does the stalled-job check.
LEMMA StallActs ==
    ASSUME IInv, NEW a \in Attempts, Stall(a)
    PROVE  WorkersAct
<1>1. /\ jobs \in [Attempts -> Job] /\ exec \in [Executors -> Executor]
      /\ results \subseteq Attempts
  BY DEF IInv, TypeOK, Job, Executor
<1>2. /\ jobs[a].state = "active"
      /\ UNCHANGED <<runVars, webVars, exec, results>>
  BY DEF Stall
<1>3. PICK state \in {"waiting", "failed"}, stalls \in 0..MaxStalls :
          jobs' = [jobs EXCEPT ![a].by = Free, ![a].state = state,
                               ![a].stalls = stalls]
  <2>1. CASE StallsLeft(a)
    <3>1. jobs' = [jobs EXCEPT ![a].by = Free, ![a].state = "waiting",
                               ![a].stalls = jobs[a].stalls + 1]
      BY <2>1 DEF Stall
    <3>2. jobs[a].stalls + 1 \in 0..MaxStalls
      BY <1>1, <2>1, InvestigationAssumption DEF StallsLeft, Job
    <3> QED BY <3>1, <3>2
  <2>2. CASE ~StallsLeft(a)
    <3>1. jobs' = [jobs EXCEPT ![a].by = Free, ![a].state = "failed"]
      BY <2>2 DEF Stall
    <3>2. jobs' = [jobs EXCEPT ![a].by = Free, ![a].state = "failed",
                               ![a].stalls = jobs[a].stalls]
      BY <1>1, <3>1 DEF Job
    <3>3. jobs[a].stalls \in 0..MaxStalls
      BY <1>1 DEF Job
    <3> QED BY <3>2, <3>3
  <2> QED BY <2>1, <2>2
<1>4. jobs[a] \in Job
      /\ jobs'[a] = [jobs[a] EXCEPT !.by = Free, !.state = state, !.stalls = stalls]
  BY <1>1, <1>3
<1>5. /\ jobs'[a] \in Job /\ jobs'[a].run = jobs[a].run /\ jobs'[a].by = Free
      /\ jobs'[a].made = jobs[a].made
  BY <1>4 DEF Job
<1>6. \A b \in Attempts \ {a} : jobs'[b] = jobs[b]
  BY <1>1, <1>3
<1>7. jobs' \in [Attempts -> Job]
  BY <1>1, <1>3, <1>5, <1>6
<1>8. jobs[a].state = "active" /\ jobs'[a].state = state /\ state # "none"
  BY <1>1, <1>3, <1>4 DEF Stall, Job
<1>9. \A b \in Attempts : jobs[b].state = "none" <=> jobs'[b].state = "none"
  BY <1>6, <1>8
<1>10. WorkerMoves
  BY <1>1, <1>2, <1>5, <1>6, <1>7, <1>8, <1>9 DEF IInv, JobInv, AttemptInv, WorkerMoves
<1> QED BY <1>2, <1>10, RowsRest DEF WorkersAct

\* So do the clock and the sweep.
LEMMA SweepActs ==
    ASSUME IInv, Sweep \/ TtlPasses
    PROVE  WorkersAct
<1>0. runs \in Seq(Run)
  BY DEF IInv, TypeOK, Run
<1>1. \A r \in DOMAIN runs : runs[r] \in Run
  BY <1>0
<1>2. UNCHANGED <<versions, webVars, workerVars>>
  BY DEF Sweep, TtlPasses
<1>3. /\ DOMAIN runs' = DOMAIN runs
      /\ runs' = [r \in DOMAIN runs |-> runs'[r]]
      /\ \A r \in DOMAIN runs :
            /\ runs'[r] \in Run /\ runs'[r].current = runs[r].current
            /\ runs[r].status # "pending" => runs'[r].status = runs[r].status
  <2>1. CASE Sweep
    <3>1. runs' = [r \in DOMAIN runs |->
                     IF runs[r].status = "pending" /\ Abandoned(runs[r])
                     THEN [runs[r] EXCEPT !.status = "expired"] ELSE runs[r]]
      BY <2>1 DEF Sweep
    <3> QED BY <1>1, <3>1 DEF Run, Statuses
  <2>2. CASE TtlPasses
    <3>1. PICK r \in DOMAIN runs : runs' = [runs EXCEPT ![r].stale = TRUE]
      BY <2>2 DEF TtlPasses
    <3>2. runs'[r] = [runs[r] EXCEPT !.stale = TRUE]
          /\ \A k \in DOMAIN runs \ {r} : runs'[k] = runs[k]
      BY <3>1
    <3>3. DOMAIN runs' = DOMAIN runs /\ runs' = [k \in DOMAIN runs |-> runs'[k]]
      BY <3>1
    <3> QED BY <1>1, <3>2, <3>3 DEF Run
  <2> QED BY <2>1, <2>2
<1>4. RowsKept
  <2>1. runs' \in Seq(Run) /\ Len(runs') = Len(runs) /\ (runs' = <<>> <=> runs = <<>>)
    BY <1>0, <1>3, RowsRewritten
  <2> QED BY <1>3, <2>1 DEF RowsKept
<1>5. VersionsKept
  BY <1>2, <1>4 DEF IInv, TypeOK, AttemptInv, VersionsKept, RowsKept
<1> QED BY <1>2, <1>4, <1>5, WorkerRests DEF WorkersAct

\* What is allowed keeps the invariant.
LEMMA WorkersKeep ==
    ASSUME IInv, WorkersAct
    PROVE  IInv'
BY WorkerKeepsInv DEF WorkersAct

-----------------------------------------------------------------------------
(* Steps of a request *)

\* What a request is at.
Request ==
    [pc : {"idle", "claiming", "enqueue", "closing", "awaiting", "looking"},
     saw : Statuses \cup {"none"}, attempt : Attempts \cup {NoAttempt}]

\* What a caller may have been told of an attempt.
Answers == {"nothing", "ready", "failed", "pending"}

\* The job of a request that enqueues may be made to wait, and only that one.
MayEnqueue(q) ==
    \/ UNCHANGED jobs
    \/ /\ req[q].pc = "enqueue"
       /\ \E state \in {"none", "waiting"} :
             jobs' = [jobs EXCEPT ![req[q].attempt].state = state]

\* A request that has its attempt, or none, and goes on to row.
LEMMA RequestKeepsInv ==
    ASSUME IInv, NEW q \in Requests, NEW row \in Request,
           req' = [req EXCEPT ![q] = row],
           row.pc # "enqueue",
           row.attempt \in {NoAttempt, req[q].attempt},
           row.pc \in {"closing", "awaiting", "looking"} => row.attempt # NoAttempt,
           row.pc = "claiming" =>
              /\ lock' = q
              /\ (row.saw = "none") <=> (runs' = <<>>)
              /\ runs' # <<>> /\ row.saw # "pending" => runs'[1].status # "pending",
           RowsKept, MayEnqueue(q),
           UNCHANGED <<versions, claims, exec, results>>,
           lock' \in Requests \cup {Free},
           lock' = lock \/ lock \in {q, Free},
           told' \in [Attempts -> Answers],
           \A a \in Attempts : a > claims => told'[a] = "nothing"
    PROVE  IInv'
<1> USE DEF IInv
<1>1. /\ jobs \in [Attempts -> Job] /\ req \in [Requests -> Request]
      /\ claims \in Nat
  BY DEF TypeOK, Job, Request
<1>2. /\ req' \in [Requests -> Request] /\ req'[q] = row
      /\ \A other \in Requests \ {q} : req'[other] = req[other]
  BY <1>1
<1>3. /\ jobs' \in [Attempts -> Job]
      /\ \A a \in Attempts :
            /\ jobs'[a].run = jobs[a].run /\ jobs'[a].by = jobs[a].by
            /\ jobs'[a].made = jobs[a].made
            /\ \/ jobs'[a] = jobs[a]
               \/ /\ req[q].pc = "enqueue" /\ a = req[q].attempt
                  /\ jobs[a].state = "none" /\ jobs'[a].state \in {"none", "waiting"}
  <2>1. CASE UNCHANGED jobs
    BY <1>1, <2>1
  <2>2. CASE ~UNCHANGED jobs
    <3> DEFINE a == req[q].attempt
    <3>1. PICK state \in {"none", "waiting"} : jobs' = [jobs EXCEPT ![a].state = state]
      BY <2>2 DEF MayEnqueue
    <3>2. req[q].pc = "enqueue"
      BY <2>2 DEF MayEnqueue
    <3>3. a \in Attempts /\ jobs[a].state = "none"
      BY <1>1, <3>2 DEF AttemptInv, JobInv, Request, NoAttempt
    <3>4. jobs[a] \in Job /\ jobs'[a] = [jobs[a] EXCEPT !.state = state]
      BY <1>1, <3>1, <3>3
    <3>5. /\ jobs'[a] \in Job /\ jobs'[a].run = jobs[a].run
          /\ jobs'[a].by = jobs[a].by /\ jobs'[a].made = jobs[a].made
          /\ jobs'[a].state = state
      BY <3>4 DEF Job
    <3>6. \A b \in Attempts \ {a} : jobs'[b] = jobs[b]
      BY <1>1, <3>1
    <3>7. jobs' \in [Attempts -> Job]
      BY <1>1, <3>1, <3>5, <3>6
    <3> QED BY <3>2, <3>3, <3>5, <3>6, <3>7
  <2> QED BY <2>1, <2>2
<1>4. TypeOK'
  <2>1. runs' \in Seq([status : Statuses, current : Attempts, stale : BOOLEAN])
        /\ DOMAIN runs' = DOMAIN runs
    BY DEF RowsKept, Run
  <2>2. /\ versions' \subseteq [run : DOMAIN runs', attempt : Attempts, index : 0..MaxClaims]
        /\ claims' \in 0..MaxClaims /\ results' \subseteq Attempts
    BY <2>1 DEF TypeOK
  <2> QED BY <1>2, <1>3, <2>1, <2>2 DEF TypeOK, Job, Request, Answers
<1>5. RunInv'
  <2>1. runs # <<>> => 1 \in DOMAIN runs
    BY DEF TypeOK
  <2> QED BY <1>3, <2>1 DEF RunInv, RowsKept
<1>6. ClaimInv'
  <2>1. ASSUME NEW other \in Requests \ {q}, req'[other].pc = "claiming"
        PROVE  lock' = other
    BY <1>2, <2>1, InvestigationAssumption DEF ClaimInv
  <2>2. runs # <<>> => 1 \in DOMAIN runs
    BY DEF TypeOK
  <2> QED BY <1>2, <2>1, <2>2 DEF ClaimInv, RowsKept
<1>7. AttemptInv'
  <2>1. \A a \in Attempts : a > claims' =>
           jobs'[a].state = "none" /\ told'[a] = "nothing"
    BY <1>1, <1>3 DEF AttemptInv, Attempts
  <2>2. \A p \in Requests :
          /\ req'[p].attempt <= claims'
          /\ req'[p].pc \in {"enqueue", "closing", "awaiting", "looking"}
                => req'[p].attempt # NoAttempt
    BY <1>1, <1>2 DEF AttemptInv, NoAttempt
  <2> QED BY <2>1, <2>2 DEF AttemptInv
<1>8. JobInv'
  <2>1. \A a \in Attempts :
          /\ jobs'[a].by # Free => jobs'[a].state = "active"
          /\ jobs'[a].state \in {"none", "waiting", "active"}
                => jobs'[a].made < MaxTries
    BY <1>3 DEF JobInv
  <2>2. ASSUME NEW p \in Requests, req'[p].pc = "enqueue"
        PROVE  /\ jobs'[req'[p].attempt].state = "none"
               /\ \A other \in Requests \ {p} : req'[other].attempt # req'[p].attempt
    <3>1. p # q /\ req'[p] = req[p]
      BY <1>2, <2>2
    <3>2. req[p].attempt \in Attempts /\ req[p].attempt # NoAttempt
      BY <1>1, <2>2, <3>1 DEF AttemptInv, Request
    <3>3. jobs'[req[p].attempt] = jobs[req[p].attempt]
      BY <1>3, <2>2, <3>1, <3>2 DEF JobInv
    <3> QED BY <1>2, <2>2, <3>1, <3>2, <3>3 DEF JobInv
  <2>3. ASSUME NEW x \in Executors, exec'[x].pc # "idle"
        PROVE  jobs'[exec'[x].attempt].state # "none"
    <3>1. /\ exec[x].attempt \in Attempts /\ jobs[exec[x].attempt].state # "none"
          /\ exec'[x] = exec[x]
      BY <2>3 DEF TypeOK, AttemptInv, JobInv, NoAttempt
    <3> QED BY <1>3, <3>1
  <2> QED BY <2>1, <2>2, <2>3 DEF JobInv
<1> QED BY <1>4, <1>5, <1>6, <1>7, <1>8

\* The claim of a new attempt.
LEMMA ClaimStartsKeeps ==
    ASSUME IInv, NEW q \in Requests, ClaimStarts(q)
    PROVE  IInv'
<1> USE DEF IInv
<1> DEFINE a == claims + 1
           fresh == [status |-> "pending", current |-> a, stale |-> FALSE]
           n == IF req[q].saw = "none" THEN Len(runs) + 1 ELSE 1
<1>1. /\ req[q].pc = "claiming" /\ req[q].saw # "pending" /\ claims < MaxClaims
      /\ claims' = a /\ lock' = Free
      /\ runs' = IF req[q].saw = "none" THEN Append(runs, fresh)
                 ELSE [runs EXCEPT ![1] = fresh]
      /\ jobs' = [jobs EXCEPT ![a].run = n]
      /\ req' = [req EXCEPT ![q].pc = "enqueue", ![q].attempt = a]
      /\ UNCHANGED <<versions, exec, told, results>>
  BY DEF FreshRun, ClaimStarts
<1>2. /\ jobs \in [Attempts -> Job] /\ req \in [Requests -> Request]
      /\ claims \in Nat /\ a \in Attempts /\ MaxClaims \in Nat
  BY <1>1, InvestigationAssumption DEF TypeOK, Job, Request, Attempts
<1>3. lock = q /\ ((req[q].saw = "none") <=> (runs = <<>>))
  BY <1>1 DEF ClaimInv
<1>4. /\ runs' \in Seq(Run) /\ Len(runs') = 1 /\ runs' # <<>>
      /\ runs'[1] = fresh /\ DOMAIN runs \subseteq DOMAIN runs'
      /\ n = 1
  <2>1. fresh \in Run /\ runs \in Seq(Run)
    BY <1>2 DEF Run, Statuses, TypeOK
  <2>2. CASE runs = <<>>
    <3>1. runs' = Append(<<>>, fresh) /\ Len(runs) = 0
      BY <1>1, <1>3, <2>2
    <3> QED BY <1>3, <2>1, <2>2, <3>1
  <2>3. CASE runs # <<>>
    <3>0. Len(runs) \in Nat /\ DOMAIN runs = 1..Len(runs) /\ Len(runs) # 0
      BY <2>1, <2>3
    <3>1. Len(runs) = 1 /\ DOMAIN runs = {1}
      BY <3>0 DEF RunInv
    <3>2. runs' = [runs EXCEPT ![1] = fresh]
      BY <1>1, <1>3, <2>3
    <3> QED BY <1>3, <2>1, <2>3, <3>0, <3>1, <3>2
  <2> QED BY <2>2, <2>3
<1>5. jobs' = jobs
  <2>1. jobs[a] \in Job /\ jobs[a].run = 1
    BY <1>2 DEF RunInv
  <2>2. [jobs[a] EXCEPT !.run = 1] = jobs[a]
    BY <2>1 DEF Job
  <2> QED BY <1>1, <1>2, <1>4, <2>1, <2>2
<1>6. /\ req' \in [Requests -> Request]
      /\ req'[q].pc = "enqueue" /\ req'[q].attempt = a
      /\ \A p \in Requests \ {q} : req'[p] = req[p]
  <2>1. req[q] \in Request /\ req'[q] = [req[q] EXCEPT !.pc = "enqueue", !.attempt = a]
    BY <1>1, <1>2
  <2>2. /\ req'[q] \in Request /\ req'[q].pc = "enqueue" /\ req'[q].attempt = a
    BY <1>2, <2>1 DEF Request
  <2> QED BY <1>1, <1>2, <2>1, <2>2
<1>7. TypeOK'
  <2>1. versions' \subseteq [run : DOMAIN runs', attempt : Attempts, index : 0..MaxClaims]
    BY <1>1, <1>4 DEF TypeOK
  <2>2. claims' \in 0..MaxClaims /\ lock' \in Requests \cup {Free}
    BY <1>1, <1>2
  <2> QED BY <1>1, <1>4, <1>5, <1>6, <2>1, <2>2 DEF TypeOK, Run, Request
<1>8. RunInv'
  BY <1>1, <1>4, <1>5 DEF RunInv
<1>9. ClaimInv'
  BY <1>3, <1>6 DEF ClaimInv
<1>10. AttemptInv'
  <2>1. \A b \in Attempts : b > claims' => jobs'[b].state = "none" /\ told'[b] = "nothing"
    BY <1>1, <1>2, <1>5 DEF AttemptInv, Attempts
  <2>2. \A v \in versions' : v.attempt <= claims'
    BY <1>1, <1>2 DEF AttemptInv, TypeOK, Attempts
  <2>3. \A p \in Requests :
          /\ req'[p].attempt <= claims'
          /\ req'[p].pc \in {"enqueue", "closing", "awaiting", "looking"}
                => req'[p].attempt # NoAttempt
    BY <1>1, <1>2, <1>6 DEF AttemptInv, Request, Attempts, NoAttempt
  <2>4. \A x \in Executors :
          /\ exec'[x].attempt <= claims'
          /\ exec'[x].pc # "idle" => exec'[x].attempt # NoAttempt
    BY <1>1, <1>2 DEF AttemptInv, TypeOK, Attempts, NoAttempt
  <2> QED BY <2>1, <2>2, <2>3, <2>4 DEF AttemptInv
<1>11. JobInv'
  <2>1. ASSUME NEW p \in Requests, req'[p].pc = "enqueue"
        PROVE  /\ jobs'[req'[p].attempt].state = "none"
               /\ \A other \in Requests \ {p} : req'[other].attempt # req'[p].attempt
    <3>1. \A other \in Requests \ {q} : req'[other].attempt # a
      BY <1>2, <1>6 DEF AttemptInv, Request, Attempts, NoAttempt
    <3>2. jobs[a].state = "none"
      BY <1>2 DEF AttemptInv
    <3> QED BY <1>5, <1>6, <2>1, <3>1, <3>2 DEF JobInv
  <2> QED BY <1>1, <1>5, <2>1 DEF JobInv
<1> QED BY <1>7, <1>8, <1>9, <1>10, <1>11

\* Every step of a request keeps the invariant.
LEMMA RequestStepKeeps ==
    ASSUME IInv, NEW q \in Requests, RequestStep(q)
    PROVE  IInv'
<1> DEFINE a == req[q].attempt
<1>a. /\ req \in [Requests -> Request] /\ req[q] \in Request
      /\ told \in [Attempts -> Answers] /\ claims \in Nat
      /\ lock \in Requests \cup {Free}
  BY DEF IInv, TypeOK, Request, Answers, Attempts
<1>b. \A b \in Attempts : b > claims => told[b] = "nothing"
  BY DEF IInv, AttemptInv
<1>c. ASSUME req[q].pc \in {"enqueue", "closing", "awaiting", "looking"}
      PROVE  a \in Attempts /\ a # NoAttempt /\ a <= claims
  BY <1>a, <1>c DEF IInv, AttemptInv, Request
<1>d. /\ IdleRequest \in Request /\ IdleRequest.pc = "idle"
      /\ IdleRequest.attempt = NoAttempt
  BY DEF IdleRequest, Request
<1>1. ASSUME ClaimReads(q) PROVE IInv'
  <2> DEFINE saw == IF runs = <<>> THEN "none" ELSE runs[1].status
             row == [pc |-> "claiming", attempt |-> NoAttempt, saw |-> saw]
  <2>1. /\ lock = Free /\ lock' = q /\ req' = [req EXCEPT ![q] = row]
        /\ UNCHANGED <<runVars, workerVars, claims, told>>
    BY <1>1 DEF ClaimReads, LockIsFree
  <2>2. runs # <<>> => runs[1].status \in Statuses
    <3>1. runs \in Seq(Run)
      BY DEF IInv, TypeOK, Run
    <3>2. runs # <<>> => runs[1] \in Run
      BY <3>1
    <3> QED BY <3>2 DEF Run
  <2>3. row \in Request /\ ((saw = "none") <=> (runs = <<>>))
    BY <2>2 DEF Request, Statuses
  <2>4. RowsKept
    BY <2>1, RowsRest
  <2> HIDE DEF saw
  <2> QED BY <1>a, <1>b, <2>1, <2>2, <2>3, <2>4, RequestKeepsInv
          DEF MayEnqueue, runVars, workerVars, saw
<1>2. ASSUME ClaimAnswersExisting(q) PROVE IInv'
  <2>1. /\ lock' = Free /\ req' = [req EXCEPT ![q] = IdleRequest]
        /\ req[q].pc = "claiming"
        /\ UNCHANGED <<runVars, workerVars, claims, told>>
    BY <1>2 DEF ClaimAnswersExisting, Answered
  <2>2. lock = q
    BY <2>1 DEF IInv, ClaimInv
  <2>3. RowsKept
    BY <2>1, RowsRest
  <2> QED BY <1>a, <1>b, <1>d, <2>1, <2>2, <2>3, RequestKeepsInv
          DEF MayEnqueue, runVars, workerVars
<1>3. ASSUME ClaimStarts(q) PROVE IInv'
  BY <1>3, ClaimStartsKeeps
<1>4. ASSUME Enqueue(q) \/ EnqueueFails(q) PROVE IInv'
  <2>1. PICK pc \in {"awaiting", "closing"} :
            /\ req[q].pc = "enqueue" /\ req' = [req EXCEPT ![q].pc = pc]
            /\ MayEnqueue(q)
            /\ UNCHANGED <<runVars, claims, lock, told, exec, results>>
    BY <1>4 DEF Enqueue, EnqueueFails, MayEnqueue
  <2> DEFINE row == [req[q] EXCEPT !.pc = pc]
  <2>2. row \in Request /\ row.pc = pc /\ row.attempt = a
    BY <1>a DEF Request
  <2>3. req' = [req EXCEPT ![q] = row]
    BY <1>a, <2>1
  <2>4. RowsKept
    BY <2>1, RowsRest
  <2> HIDE DEF row
  <2> QED BY <1>a, <1>b, <1>c, <2>1, <2>2, <2>3, <2>4, RequestKeepsInv DEF runVars
<1>5. ASSUME CloseUnqueued(q) PROVE IInv'
  <2>1. /\ req[q].pc = "closing" /\ req' = [req EXCEPT ![q] = IdleRequest]
        /\ CloseRun(a, "failed") \/ UNCHANGED runs
        /\ told' = [told EXCEPT ![a] = "failed"]
        /\ UNCHANGED <<versions, claims, lock, workerVars>>
    BY <1>5 DEF CloseUnqueued, Answered
  <2>2. RowsKept
    <3>1. CASE CloseRun(a, "failed")
      BY <3>1, CloseIsKept DEF Statuses
    <3>2. CASE UNCHANGED runs
      BY <2>1, <3>2, RowsRest DEF runVars
    <3> QED BY <2>1, <3>1, <3>2
  <2>3. a \in Attempts /\ a <= claims
    BY <1>c, <2>1
  <2>4. told' \in [Attempts -> Answers]
        /\ \A b \in Attempts : b > claims => told'[b] = "nothing"
    BY <1>a, <1>b, <2>1, <2>3 DEF Answers, Attempts
  <2> QED BY <1>a, <1>d, <2>1, <2>2, <2>4, RequestKeepsInv DEF MayEnqueue, workerVars
<1>6. ASSUME AwaitSeesVersion(q) \/ AwaitSeesRun(q), req' = [req EXCEPT ![q] = IdleRequest]
      PROVE  IInv'
  <2>1. PICK answer \in Answers :
            /\ req[q].pc \in {"awaiting", "looking"}
            /\ told' = [told EXCEPT ![a] = answer] \/ UNCHANGED told
            /\ UNCHANGED <<runVars, claims, lock, workerVars>>
    BY <1>6 DEF AwaitSeesVersion, AwaitSeesRun, Answers
  <2>2. a \in Attempts /\ a <= claims
    BY <1>c, <2>1
  <2>3. told' \in [Attempts -> Answers]
        /\ \A b \in Attempts : b > claims => told'[b] = "nothing"
    <3>1. CASE UNCHANGED told
      BY <1>a, <1>b, <3>1
    <3>2. CASE told' = [told EXCEPT ![a] = answer]
      <4>1. told' \in [Attempts -> Answers]
        BY <1>a, <2>2, <3>2
      <4>2. \A b \in Attempts \ {a} : told'[b] = told[b]
        BY <1>a, <3>2
      <4> QED BY <1>a, <1>b, <2>2, <4>1, <4>2 DEF Attempts
    <3> QED BY <2>1, <3>1, <3>2
  <2>4. RowsKept
    BY <2>1, RowsRest
  <2> QED BY <1>6, <1>a, <1>d, <2>1, <2>3, <2>4, RequestKeepsInv
          DEF MayEnqueue, runVars, workerVars
<1>7. ASSUME NEW pc \in {"looking", "awaiting"}, req' = [req EXCEPT ![q].pc = pc],
             req[q].pc \in {"looking", "awaiting"},
             UNCHANGED <<runVars, claims, lock, told, workerVars>>
      PROVE  IInv'
  <2> DEFINE row == [req[q] EXCEPT !.pc = pc]
  <2>1. row \in Request /\ row.pc = pc /\ row.attempt = a
    BY <1>a DEF Request
  <2>2. req' = [req EXCEPT ![q] = row]
    BY <1>a, <1>7
  <2>3. RowsKept
    BY <1>7, RowsRest
  <2> HIDE DEF row
  <2> QED BY <1>7, <1>a, <1>b, <1>c, <2>1, <2>2, <2>3, RequestKeepsInv
          DEF MayEnqueue, runVars, workerVars
<1>8. ASSUME AwaitSeesVersion(q) \/ AwaitSeesNoVersion(q) \/ AwaitSeesRun(q)
      PROVE  IInv'
  <2>1. CASE req' = [req EXCEPT ![q] = IdleRequest]
    <3>1. CASE AwaitSeesNoVersion(q)
      <4>1. req' = [req EXCEPT ![q].pc = "looking"] /\ req[q].pc = "awaiting"
            /\ UNCHANGED <<runVars, claims, lock, told, workerVars>>
        BY <3>1 DEF AwaitSeesNoVersion
      <4> QED BY <4>1, <1>7
    <3> QED BY <1>6, <1>8, <2>1, <3>1
  <2>2. CASE req' # [req EXCEPT ![q] = IdleRequest]
    <3>1. PICK pc \in {"looking", "awaiting"} :
              /\ req' = [req EXCEPT ![q].pc = pc]
              /\ req[q].pc \in {"looking", "awaiting"}
              /\ UNCHANGED <<runVars, claims, lock, told, workerVars>>
      BY <1>8, <2>2 DEF AwaitSeesVersion, AwaitSeesNoVersion, AwaitSeesRun, Answered
    <3> QED BY <3>1, <1>7
  <2> QED BY <2>1, <2>2
<1>9. ASSUME WebDies(q) PROVE IInv'
  <2>1. /\ lock' = (IF lock = q THEN Free ELSE lock)
        /\ req' = [req EXCEPT ![q] = IdleRequest]
        /\ UNCHANGED <<runVars, claims, told, workerVars>>
    BY <1>9 DEF WebDies, Answered
  <2>2. RowsKept
    BY <2>1, RowsRest
  <2> QED BY <1>a, <1>b, <1>d, <2>1, <2>2, RequestKeepsInv
          DEF MayEnqueue, runVars, workerVars
<1> QED BY <1>1, <1>2, <1>3, <1>4, <1>5, <1>8, <1>9 DEF RequestStep

-----------------------------------------------------------------------------
(* Type correctness, and one run per incident *)

\* The invariant holds at first ...
LEMMA InitInv == Init => IInv
<1> SUFFICES ASSUME Init PROVE IInv
  OBVIOUS
<1>1. /\ runs = <<>> /\ versions = {} /\ claims = 0 /\ lock = Free
      /\ req = [q \in Requests |-> IdleRequest]
      /\ jobs = [a \in Attempts |-> NoJob]
      /\ exec = [x \in Executors |-> IdleExecutor]
      /\ told = [a \in Attempts |-> "nothing"] /\ results = {}
  BY DEF Init
<1>2. /\ IdleRequest \in Request /\ IdleRequest.pc = "idle"
      /\ IdleRequest.attempt = 0
  BY DEF IdleRequest, Request, NoAttempt
<1>3. /\ IdleExecutor \in Executor /\ IdleExecutor.pc = "idle"
      /\ IdleExecutor.attempt = 0
  BY InvestigationAssumption DEF IdleExecutor, Executor, NoAttempt
<1>4. /\ NoJob \in Job /\ NoJob.by = Free /\ NoJob.state = "none"
      /\ NoJob.made < MaxTries /\ NoJob.run = 1
  BY InvestigationAssumption DEF NoJob, Job
<1>5. TypeOK
  <2>1. runs \in Seq(Run)
    BY <1>1
  <2> QED BY <1>1, <1>2, <1>3, <1>4, <2>1, InvestigationAssumption
          DEF TypeOK, Run, Request, Executor, Job
<1>6. RunInv
  <2>1. Len(runs) = 0
    BY <1>1
  <2> QED BY <1>1, <1>4, <2>1 DEF RunInv
<1>7. ClaimInv /\ AttemptInv /\ JobInv
  BY <1>1, <1>2, <1>3, <1>4 DEF ClaimInv, AttemptInv, JobInv
<1> QED BY <1>5, <1>6, <1>7 DEF IInv

\* ... and every step keeps it.
LEMMA StepInv == IInv /\ [Next]_vars => IInv'
<1> SUFFICES ASSUME IInv, [Next]_vars PROVE IInv'
  OBVIOUS
<1>1. CASE UNCHANGED vars
  BY <1>1, WorkerRests, RowsRest, WorkerKeepsInv DEF vars, webVars
<1> QED BY <1>1, RequestStepKeeps, ExecutorActs, StallActs, SweepActs, WorkersKeep DEF Next

\* The rows, the requests, the jobs and the executors are well typed.
THEOREM TypeCorrect == Spec => []TypeOK
<1>1. Init => IInv
  BY InitInv
<1>2. IInv /\ [Next]_vars => IInv'
  BY StepInv
<1>3. IInv => TypeOK
  BY DEF IInv
<1> QED BY <1>1, <1>2, <1>3, PTL DEF Spec

\* The per-incident lock keeps the decision and the write of a claim together
\* (claim.ts:47-55), for any number of requests.
THEOREM OneRun == Spec => []OneRunPerIncident
<1>1. Init => IInv
  BY InitInv
<1>2. IInv /\ [Next]_vars => IInv'
  BY StepInv
<1>3. IInv => OneRunPerIncident
  BY DEF IInv, RunInv, OneRunPerIncident
<1> QED BY <1>1, <1>2, <1>3, PTL DEF Spec

-----------------------------------------------------------------------------
(* The refinement of InvestigationLifecycle *)

\* What the abstract specification sees: the attempts with a saved result,
\* the status of the run and the attempt it names.
Kept == {v.attempt : v \in versions}
Status == IF runs = <<>> THEN "none" ELSE runs[1].status
Last == IF runs = <<>> THEN NoAttempt ELSE runs[1].current

\* The only run is the first, and it names the last attempt.
LEMMA RunIsFirst ==
    ASSUME IInv
    PROVE  /\ Last = claims /\ claims \in Nat
           /\ runs # <<>> => DOMAIN runs = {1}
           /\ \A r \in DOMAIN runs : r = 1 /\ runs # <<>>
<1>1. Last = claims /\ claims \in Nat
  BY DEF IInv, RunInv, TypeOK, Last, NoAttempt
<1>2. DOMAIN runs = 1..Len(runs) /\ Len(runs) \in Nat /\ (runs # <<>> => Len(runs) # 0)
  BY DEF IInv, TypeOK
<1>3. runs = <<>> => Len(runs) = 0
  OBVIOUS
<1>4. Len(runs) <= 1
  BY DEF IInv, RunInv
<1> QED BY <1>1, <1>2, <1>3, <1>4

\* Closing attempt a is giving the investigation up, or changes nothing.
LEMMA CloseIsGiveUp ==
    ASSUME IInv, NEW a, NEW status \in {"failed", "expired"}, CloseRun(a, status),
           UNCHANGED versions
    PROVE  [Life!Next]_Life!lifeVars
<1>1. /\ runs' = <<>> <=> runs = <<>>
      /\ \A r \in DOMAIN runs :
            /\ runs'[r].current = runs[r].current
            /\ runs'[r].status =
                 IF attemptInFlight(runs[r], a) THEN status ELSE runs[r].status
  BY CloseKeeps DEF IInv, Statuses
<1>2. runs # <<>> => 1 \in DOMAIN runs
  BY RunIsFirst
<1> QED BY <1>1, <1>2 DEF Life!Next, Life!GiveUp, Life!lifeVars, attemptInFlight

\* Saving the result of an attempt makes the run ready, or keeps it as history.
LEMMA CommitsIsLife ==
    ASSUME IInv, NEW x \in Executors, exec[x].pc # "idle", Commits(x)
    PROVE  Life!Succeed \/ Life!KeepLate
<1> DEFINE a == exec[x].attempt
<1>1. a \in 1..claims /\ a \in Attempts
  BY DEF IInv, AttemptInv, TypeOK, NoAttempt, Attempts
<1>2. runs # <<>> /\ 1 \in DOMAIN runs /\ runs[1].current = claims /\ claims \in Nat
  BY <1>1, RunIsFirst DEF Last, NoAttempt
<1>3. a \notin Kept /\ Kept' = Kept \cup {a}
  <2> DEFINE v == [run |-> jobs[a].run, attempt |-> a, index |-> exec[x].index]
  <2>1. versions' = versions \cup {v} /\ v.attempt = a
    BY DEF Commits
  <2>2. \A w \in versions : w.attempt # a
    BY DEF Commits, Collides
  <2> HIDE DEF v
  <2> QED BY <2>1, <2>2 DEF Kept
<1>4. CloseRun(a, "ready")
  BY DEF Commits, CompleteRun
<1>5. /\ runs' # <<>> /\ runs'[1].current = claims
      /\ runs'[1].status = IF attemptInFlight(runs[1], a) THEN "ready" ELSE runs[1].status
  BY <1>2, <1>4, CloseKeeps DEF IInv, Statuses
<1>6. CASE attemptInFlight(runs[1], a)
  BY <1>2, <1>3, <1>5, <1>6 DEF Life!Succeed, Kept, attemptInFlight
<1>7. CASE ~attemptInFlight(runs[1], a)
  BY <1>1, <1>2, <1>3, <1>5, <1>7 DEF Life!KeepLate, Kept, attemptInFlight
<1> QED BY <1>6, <1>7

\* A claim starts an attempt.
LEMMA StartIsLife ==
    ASSUME IInv, NEW q \in Requests, ClaimStarts(q)
    PROVE  Life!Start
<1>1. /\ req[q].pc = "claiming" /\ req[q].saw # "pending" /\ claims' = claims + 1
      /\ UNCHANGED versions
  BY DEF FreshRun, ClaimStarts
<1>2. runs # <<>> => runs[1].status # "pending"
  BY <1>1 DEF IInv, ClaimInv
<1>3. (req[q].saw = "none") <=> (runs = <<>>)
  BY <1>1 DEF IInv, ClaimInv
<1>4. runs' # <<>> /\ runs'[1].status = "pending" /\ runs'[1].current = claims + 1
  <2> DEFINE fresh == [status |-> "pending", current |-> claims + 1, stale |-> FALSE]
  <2>1. CASE runs = <<>>
    <3>1. runs' = Append(<<>>, fresh)
      BY <1>3, <2>1 DEF FreshRun, ClaimStarts
    <3> QED BY <3>1
  <2>2. CASE runs # <<>>
    <3>1. runs' = [runs EXCEPT ![1] = fresh] /\ 1 \in DOMAIN runs
      BY <1>3, <2>2, RunIsFirst DEF FreshRun, ClaimStarts
    <3>2. runs' # <<>> /\ runs'[1] = fresh
      BY <3>1
    <3> QED BY <3>2
  <2> QED BY <2>1, <2>2
<1>5. Last = claims
  BY RunIsFirst
<1> QED BY <1>1, <1>2, <1>4, <1>5 DEF Life!Start, Last, NoAttempt

\* Time and the sweep at most expire the run.
LEMMA SweepMoves ==
    ASSUME IInv, Sweep \/ TtlPasses
    PROVE  /\ Status = "pending" /\ Status' \in {Status, "expired"}
           /\ Last' = Last /\ UNCHANGED <<versions, webVars, workerVars>>
<1>1. runs \in Seq(Run) /\ UNCHANGED <<versions, webVars, workerVars>>
  BY DEF IInv, TypeOK, Run, Sweep, TtlPasses
<1>2. PICK r \in DOMAIN runs : runs[r].status = "pending"
  BY DEF Sweep, TtlPasses
<1>3. r = 1 /\ runs # <<>> /\ 1 \in DOMAIN runs /\ runs[1] \in Run
      /\ DOMAIN runs = {1}
  BY <1>1, <1>2, RunIsFirst
<1>4. /\ runs' # <<>> /\ runs'[1].current = runs[1].current
      /\ runs'[1].status \in {runs[1].status, "expired"}
  <2>1. CASE Sweep
    <3>1. runs' = [k \in DOMAIN runs |->
                     IF runs[k].status = "pending" /\ Abandoned(runs[k])
                     THEN [runs[k] EXCEPT !.status = "expired"] ELSE runs[k]]
      BY <2>1 DEF Sweep
    <3> QED BY <1>3, <3>1 DEF Run
  <2>2. CASE TtlPasses
    <3>1. PICK k \in DOMAIN runs : runs' = [runs EXCEPT ![k].stale = TRUE]
      BY <2>2 DEF TtlPasses
    <3> QED BY <1>3, <3>1 DEF Run
  <2> QED BY <2>1, <2>2
<1> QED BY <1>1, <1>2, <1>3, <1>4 DEF Status, Last

\* Time and the sweep give an attempt up, or change nothing.
LEMMA SweepIsLife ==
    ASSUME IInv, Sweep \/ TtlPasses
    PROVE  [Life!Next]_Life!lifeVars
BY SweepMoves DEF Life!Next, Life!GiveUp, Life!lifeVars, Status, Last

\* Every step is one of the investigation's life, or changes nothing of it.
LEMMA LifeStep == IInv /\ [Next]_vars => [Life!Next]_Life!lifeVars
<1> SUFFICES ASSUME IInv, [Next]_vars PROVE [Life!Next]_Life!lifeVars
  OBVIOUS
<1>1. CASE UNCHANGED runVars
  BY <1>1 DEF Life!lifeVars, runVars
<1>2. CASE UNCHANGED vars
  BY <1>1, <1>2 DEF vars
<1>3. ASSUME NEW q \in Requests, RequestStep(q)
      PROVE  [Life!Next]_Life!lifeVars
  <2>1. CASE ClaimStarts(q)
    BY <2>1, StartIsLife DEF Life!Next
  <2>2. CASE CloseUnqueued(q)
    <3>1. UNCHANGED versions /\ (CloseRun(req[q].attempt, "failed") \/ UNCHANGED runs)
      BY <2>2 DEF CloseUnqueued
    <3> QED BY <1>1, <3>1, CloseIsGiveUp DEF runVars
  <2>3. CASE ~ClaimStarts(q) /\ ~CloseUnqueued(q)
    <3>1. UNCHANGED runVars
      BY <1>3, <2>3 DEF RequestStep, ClaimReads, ClaimAnswersExisting, Enqueue,
         EnqueueFails, AwaitSeesVersion, AwaitSeesNoVersion, AwaitSeesRun, WebDies
    <3> QED BY <1>1, <3>1
  <2> QED BY <2>1, <2>2, <2>3
<1>4. ASSUME NEW x \in Executors, ExecutorStep(x)
      PROVE  [Life!Next]_Life!lifeVars
  <2>1. CASE Complete(x) \/ CompleteErrs(x)
    <3>1. exec[x].pc # "idle" /\ (Commits(x) \/ UNCHANGED runVars)
      BY <2>1 DEF Complete, CompleteErrs
    <3> QED BY <1>1, <3>1, CommitsIsLife DEF Life!Next
  <2>2. CASE FailAttempt(x)
    <3>1. UNCHANGED versions /\ (CloseRun(exec[x].attempt, "failed") \/ UNCHANGED runs)
      BY <2>2 DEF FailAttempt
    <3> QED BY <1>1, <3>1, CloseIsGiveUp DEF runVars
  <2>3. CASE ~(Complete(x) \/ CompleteErrs(x) \/ FailAttempt(x))
    <3>1. UNCHANGED runVars
      BY <1>4, <2>3 DEF ExecutorStep, Deliver, CheckAttempt, PipelineReturns,
         PipelineThrows, ReadLatestIndex, ExecutorDies
    <3> QED BY <1>1, <3>1
  <2> QED BY <2>1, <2>2, <2>3
<1>5. ASSUME NEW a \in Attempts, Stall(a) PROVE [Life!Next]_Life!lifeVars
  BY <1>1, <1>5 DEF Stall
<1> QED BY <1>2, <1>3, <1>4, <1>5, SweepIsLife DEF Next

\* The investigation of an incident is one life: attempts with growing numbers,
\* one in flight, closed once, and late results kept without touching the run
\* (complete.ts:4-17).
THEOREM ImplementsLifecycle == Spec => LifecycleSpec
<1>1. Init => Life!Init
  BY DEF Init, Life!Init, NoAttempt
<1>2. Init => IInv
  BY InitInv
<1>3. IInv /\ [Next]_vars => IInv'
  BY StepInv
<1>4. IInv /\ [Next]_vars => [Life!Next]_Life!lifeVars
  BY LifeStep
<1> QED BY <1>1, <1>2, <1>3, <1>4, PTL DEF Spec, LifecycleSpec, Life!Spec

-----------------------------------------------------------------------------
(* Results: what a ready or a pending run says of its versions *)

\* A ready run has the result of its attempt and a pending one has not.
ResultInv ==
    /\ Status = "ready" => Last \in Kept
    /\ Status = "pending" => Last \notin Kept

\* Every step of the life keeps the results and the run together.
LEMMA ResultStep ==
    ASSUME IInv, ResultInv, [Next]_vars
    PROVE  ResultInv'
<1>1. [Life!Next]_Life!lifeVars
  BY LifeStep
<1>2. /\ Life!lifeVars = <<Status, Last, Kept>>
      /\ Life!lifeVars' = <<Status', Last', Kept'>>
  BY DEF Life!lifeVars, Status, Last, Kept
<1>3. Last \in Nat /\ Last + 1 \notin Kept
  <2>1. \A v \in versions : v.attempt <= claims /\ v.attempt \in Nat
    BY DEF IInv, AttemptInv, TypeOK, Attempts
  <2> QED BY <2>1, RunIsFirst DEF Kept
<1>4. CASE Life!Start
  BY <1>3, <1>4 DEF Life!Start, ResultInv, Status, Last, Kept
<1>5. CASE Life!Succeed
  BY <1>5 DEF Life!Succeed, ResultInv, Status, Last, Kept
<1>6. CASE Life!GiveUp
  BY <1>6 DEF Life!GiveUp, ResultInv, Status, Last, Kept
<1>7. CASE Life!KeepLate
  BY <1>7 DEF Life!KeepLate, ResultInv, Status, Last, Kept
<1>8. CASE UNCHANGED Life!lifeVars
  BY <1>2, <1>8 DEF ResultInv
<1> QED BY <1>1, <1>4, <1>5, <1>6, <1>7, <1>8 DEF Life!Next

\* In terms of the rows.
LEMMA ResultInvSuffices ==
    ASSUME IInv, ResultInv
    PROVE  ReadyHasItsVersion /\ NoOrphanResult
<1>1. \A a : HasVersion(a) <=> a \in Kept
  BY DEF HasVersion, Kept
<1> QED BY <1>1, RunIsFirst DEF ResultInv, Status, Last, ReadyHasItsVersion, NoOrphanResult

\* Neither a late attempt nor a death makes a run ready without its result
\* (complete.ts:73-81), and no saved result is left with its run pending
\* (complete.ts:74-76).
THEOREM ResultAndRunAgree == Spec => [](ReadyHasItsVersion /\ NoOrphanResult)
<1>1. Init => IInv
  BY InitInv
<1>2. Init => ResultInv
  BY DEF Init, ResultInv, Status
<1>3. IInv /\ [Next]_vars => IInv'
  BY StepInv
<1>4. IInv /\ ResultInv /\ [Next]_vars => ResultInv'
  BY ResultStep
<1>5. IInv /\ ResultInv => ReadyHasItsVersion /\ NoOrphanResult
  BY ResultInvSuffices
<1> QED BY <1>1, <1>2, <1>3, <1>4, <1>5, PTL DEF Spec

\* A result that was paid for and saved never waits under a pending run of its own
\* attempt (complete.ts:74-76): a death between the two would leave it to the sweep.
THEOREM NoResultIsOrphaned == Spec => []NoOrphanResult
<1>1. ReadyHasItsVersion /\ NoOrphanResult => NoOrphanResult
  OBVIOUS
<1> QED BY <1>1, ResultAndRunAgree, PTL

-----------------------------------------------------------------------------
(* What a caller was told *)

\* A run whose attempt the queue never got is not ready, and a caller is told
\* of a failure only when the run is closed or nobody will execute its attempt.
ToldInv ==
    /\ Last # NoAttempt /\ jobs[Last].state = "none" => Status # "ready"
    /\ \A q \in Requests :
          /\ req[q].pc = "closing" => jobs[req[q].attempt].state = "none"
          /\ req[q].pc = "enqueue" => told[req[q].attempt] # "failed"
    /\ Last # NoAttempt /\ told[Last] = "failed" =>
          /\ Status # "ready"
          /\ Status = "pending" => jobs[Last].state = "none"

\* Nothing but a new attempt makes a run pending.
LEMMA PendingStays ==
    ASSUME IInv, [Next]_vars, Status' = "pending", Last' = Last
    PROVE  Status = "pending"
<1>1. [Life!Next]_Life!lifeVars
  BY LifeStep
<1>2. ~Life!Start
  BY RunIsFirst DEF Life!Start, Last
<1>3. CASE Life!Succeed \/ Life!GiveUp \/ Life!KeepLate \/ UNCHANGED Life!lifeVars
  BY <1>3 DEF Life!Succeed, Life!GiveUp, Life!KeepLate, Life!lifeVars, Status
<1> QED BY <1>1, <1>2, <1>3 DEF Life!Next

\* The run becomes ready only for an attempt that was in the queue.
LEMMA ReadyWasQueued ==
    ASSUME IInv, [Next]_vars, Status # "ready", Status' = "ready"
    PROVE  /\ Status = "pending" /\ Last' = Last
           /\ Last # NoAttempt /\ jobs[Last].state # "none"
<1>1. [Life!Next]_Life!lifeVars
  BY LifeStep
<1>2. Status = "pending" /\ Last' = Last /\ runs # <<>> /\ runs' # <<>>
  BY <1>1 DEF Life!Next, Life!Start, Life!Succeed, Life!GiveUp, Life!KeepLate,
              Life!lifeVars, Status, Last
<1>3. 1 \in DOMAIN runs /\ runs[1] \in Run
  <2>1. 1 \in DOMAIN runs /\ runs \in Seq(Run)
    BY <1>2, RunIsFirst DEF IInv, TypeOK, Run
  <2> QED BY <2>1
<1>4. runs[1].status = "pending" /\ runs'[1].status = "ready"
  BY <1>2 DEF Status
<1>5. PICK x \in Executors : exec[x].pc # "idle" /\ CloseRun(exec[x].attempt, "ready")
  <2>1. ASSUME NEW a, CloseRun(a, "failed") PROVE FALSE
    BY <1>3, <1>4, <2>1, CloseKeeps DEF IInv, Statuses
  <2>2. ~Sweep /\ ~TtlPasses
    BY <1>3, <1>4 DEF Sweep, TtlPasses, Run
  <2>3. ASSUME NEW q \in Requests, RequestStep(q) PROVE FALSE
    <3>1. ~ClaimStarts(q)
      <4> SUFFICES ASSUME ClaimStarts(q) PROVE FALSE
        OBVIOUS
      <4> QED BY <1>2, StartIsLife DEF Life!Start, Status, Last
    <3> QED BY <1>4, <2>1, <2>3, <3>1
            DEF RequestStep, ClaimReads, ClaimAnswersExisting, Enqueue, EnqueueFails,
                CloseUnqueued, AwaitSeesVersion, AwaitSeesNoVersion, AwaitSeesRun,
                WebDies, runVars
  <2>4. PICK x \in Executors : ExecutorStep(x)
    BY <1>4, <2>2, <2>3 DEF Next, Stall, vars, runVars
  <2> QED BY <1>4, <2>1, <2>4
          DEF ExecutorStep, Deliver, CheckAttempt, PipelineReturns, PipelineThrows,
              ReadLatestIndex, Complete, CompleteErrs, Commits, CompleteRun,
              FailAttempt, ExecutorDies, runVars
<1>6. attemptInFlight(runs[1], exec[x].attempt)
  BY <1>3, <1>4, <1>5, CloseKeeps DEF IInv, Statuses
<1>7. exec[x].attempt = Last /\ Last # NoAttempt /\ jobs[Last].state # "none"
  BY <1>2, <1>5, <1>6 DEF attemptInFlight, Last, IInv, AttemptInv, JobInv
<1> QED BY <1>2, <1>7

\* An attempt enters the queue when the request that claimed it enqueues it,
\* and is never unknown to it again.
LEMMA QueuedByItsRequest ==
    ASSUME IInv, [Next]_vars, NEW a \in Attempts
    PROVE  /\ jobs'[a].state = "none" => jobs[a].state = "none"
           /\ jobs[a].state = "none" /\ jobs'[a].state # "none" =>
                 \E q \in Requests : req[q].pc = "enqueue" /\ req[q].attempt = a
<1>1. jobs \in [Attempts -> Job] /\ jobs[a] \in Job
  BY DEF IInv, TypeOK, Job
<1>2. CASE UNCHANGED jobs
  BY <1>2
<1>3. CASE WorkersAct
  BY <1>3 DEF WorkersAct, WorkerMoves
<1>4. ASSUME NEW q \in Requests, RequestStep(q), ~UNCHANGED jobs
      PROVE  /\ jobs'[a].state = "none" => jobs[a].state = "none"
             /\ jobs[a].state = "none" /\ jobs'[a].state # "none" =>
                   req[q].pc = "enqueue" /\ req[q].attempt = a
  <2>1. CASE ClaimStarts(q)
    <3>1. PICK n : jobs' = [jobs EXCEPT ![claims + 1].run = n]
      BY <2>1 DEF FreshRun, ClaimStarts
    <3>2. jobs'[a] = jobs[a] \/ jobs'[a] = [jobs[a] EXCEPT !.run = n]
      BY <1>1, <3>1
    <3>3. jobs'[a].state = jobs[a].state
      BY <1>1, <3>2 DEF Job
    <3> QED BY <3>3
  <2>2. CASE Enqueue(q) \/ EnqueueFails(q)
    <3>1. /\ req[q].pc = "enqueue"
          /\ jobs' = [jobs EXCEPT ![req[q].attempt].state = "waiting"]
      BY <1>4, <2>2 DEF Enqueue, EnqueueFails
    <3>2. jobs'[a] = IF a = req[q].attempt THEN [jobs[a] EXCEPT !.state = "waiting"]
                     ELSE jobs[a]
      BY <1>1, <3>1
    <3>3. a = req[q].attempt => jobs'[a].state = "waiting"
      BY <1>1, <3>2 DEF Job
    <3> QED BY <3>1, <3>2, <3>3
  <2>3. ClaimStarts(q) \/ Enqueue(q) \/ EnqueueFails(q)
    BY <1>4 DEF RequestStep, ClaimReads, ClaimAnswersExisting, CloseUnqueued,
       AwaitSeesVersion, AwaitSeesNoVersion, AwaitSeesRun, WebDies, workerVars
  <2> QED BY <2>1, <2>2, <2>3
<1>5. UNCHANGED jobs \/ WorkersAct \/ \E q \in Requests : RequestStep(q)
  BY ExecutorActs, StallActs, SweepActs DEF Next, vars, workerVars
<1> QED BY <1>2, <1>3, <1>4, <1>5

\* Where a request comes from when it claims and when it gives the queue up.
LEMMA RequestMoves ==
    ASSUME IInv, NEW q \in Requests, RequestStep(q)
    PROVE  /\ \A p \in Requests \ {q} : req'[p] = req[p]
           /\ req'[q].pc = "closing" =>
                 EnqueueFails(q) /\ req'[q].attempt = req[q].attempt
           /\ req'[q].pc = "enqueue" =>
                 ClaimStarts(q) /\ req'[q].attempt = claims + 1
<1>1. req \in [Requests -> Request] /\ req[q] \in Request
  BY DEF IInv, TypeOK, Request
<1>2. \A p \in Requests \ {q} : req'[p] = req[p]
  BY <1>1 DEF RequestStep, ClaimReads, ClaimAnswersExisting, ClaimStarts, Enqueue,
     EnqueueFails, CloseUnqueued, AwaitSeesVersion, AwaitSeesNoVersion, AwaitSeesRun,
     WebDies, Answered
<1>3. ASSUME ClaimReads(q) PROVE req'[q].pc = "claiming"
  BY <1>1, <1>3 DEF ClaimReads
<1>4. ASSUME ClaimStarts(q) PROVE req'[q].pc = "enqueue" /\ req'[q].attempt = claims + 1
  BY <1>1, <1>4 DEF FreshRun, ClaimStarts, Request
<1>5. ASSUME Enqueue(q) PROVE req'[q].pc = "awaiting"
  BY <1>1, <1>5 DEF Enqueue, Request
<1>6. ASSUME EnqueueFails(q)
      PROVE  req'[q].pc = "closing" /\ req'[q].attempt = req[q].attempt
  BY <1>1, <1>6 DEF EnqueueFails, Request
<1>7. ASSUME AwaitSeesNoVersion(q) PROVE req'[q].pc = "looking"
  BY <1>1, <1>7 DEF AwaitSeesNoVersion, Request
<1>8. ASSUME ClaimAnswersExisting(q) \/ CloseUnqueued(q) \/ AwaitSeesVersion(q)
             \/ WebDies(q)
      PROVE  req'[q].pc = "idle"
  BY <1>1, <1>8 DEF ClaimAnswersExisting, CloseUnqueued, AwaitSeesVersion, WebDies,
     Answered, IdleRequest
<1>9. ASSUME AwaitSeesRun(q) PROVE req'[q].pc \in {"idle", "awaiting"}
  BY <1>1, <1>9 DEF AwaitSeesRun, Answered, IdleRequest, Request
<1> QED BY <1>2, <1>3, <1>4, <1>5, <1>6, <1>7, <1>8, <1>9 DEF RequestStep

\* A request answers for its own attempt, and that it failed only after it
\* gave the queue up or saw the run failed.
LEMMA TellsItsOwn ==
    ASSUME IInv, [Next]_vars, NEW a \in Attempts, told'[a] # told[a]
    PROVE  \E q \in Requests :
              /\ req[q].attempt = a
              /\ req[q].pc \in {"closing", "awaiting", "looking"}
              /\ a <= claims
              /\ UNCHANGED jobs
              /\ told'[a] = "failed" /\ req[q].pc # "closing" =>
                    runs' = runs /\ Status = "failed" /\ Last = a
<1>1. PICK q \in Requests : CloseUnqueued(q) \/ AwaitSeesVersion(q) \/ AwaitSeesRun(q)
  BY ExecutorActs, StallActs, SweepActs
  DEF Next, vars, webVars, WorkersAct, RequestStep, ClaimReads, ClaimAnswersExisting,
      ClaimStarts, Enqueue, EnqueueFails, AwaitSeesNoVersion, WebDies
<1>2. /\ req[q].pc \in {"closing", "awaiting", "looking"} /\ UNCHANGED jobs
      /\ \E answer : told' = [told EXCEPT ![req[q].attempt] = answer] \/ told' = told
  BY <1>1 DEF CloseUnqueued, AwaitSeesVersion, AwaitSeesRun, workerVars
<1>3. told \in [Attempts -> Answers] /\ req[q].attempt = a /\ a <= claims
  <2>1. told \in [Attempts -> Answers] /\ req[q].attempt <= claims
    BY DEF IInv, TypeOK, AttemptInv, Answers
  <2> QED BY <1>2, <2>1
<1>4. ASSUME told'[a] = "failed", req[q].pc # "closing"
      PROVE  runs' = runs /\ Status = "failed" /\ Last = a
  <2>1. CASE AwaitSeesVersion(q)
    BY <1>3, <1>4, <2>1 DEF AwaitSeesVersion
  <2>2. CASE AwaitSeesRun(q)
    <3>1. jobs[a].run = 1 /\ claims # 0
      BY <1>3 DEF IInv, RunInv, TypeOK, Attempts
    <3>2. runs[1].current = a /\ runs[1].status = "failed" /\ runs' = runs
      BY <1>3, <1>4, <2>2, <3>1 DEF AwaitSeesRun, runVars
    <3> QED BY <3>1, <3>2 DEF Status, Last, IInv, RunInv
  <2> QED BY <1>1, <1>4, <2>1, <2>2 DEF CloseUnqueued
<1> QED BY <1>2, <1>3, <1>4

\* As long as the queue does not take a job it seemed to refuse, an attempt
\* given up was never in it.
LEMMA ToldStep ==
    ASSUME "unanswered" \notin Faults, IInv, ToldInv, [Next]_vars
    PROVE  ToldInv'
<1>1. /\ IInv' /\ Last = claims /\ Last' = claims' /\ claims \in Nat
      /\ Last' # NoAttempt => Last' \in Attempts
  <2>1. IInv'
    BY StepInv
  <2>2. /\ Last = claims /\ claims \in Nat /\ Last' = claims'
        /\ claims' \in 0..MaxClaims
    BY <2>1, RunIsFirst DEF IInv, TypeOK, RunInv, Last, NoAttempt
  <2> QED BY <2>1, <2>2, InvestigationAssumption DEF Attempts, NoAttempt
<1>2. [Life!Next]_Life!lifeVars
  BY LifeStep
<1>3. ASSUME Last' # Last
      PROVE  /\ Last' = Last + 1 /\ Status' = "pending"
             /\ told[Last'] = "nothing" /\ Last' \in Attempts
  <2>1. Last' = Last + 1 /\ Status' = "pending"
    BY <1>2, <1>3 DEF Life!Next, Life!lifeVars, Life!Start, Life!Succeed,
       Life!GiveUp, Life!KeepLate, Last, Status
  <2>2. Last' \in Attempts
    BY <1>1, <2>1 DEF NoAttempt
  <2> QED BY <1>1, <2>1, <2>2 DEF IInv, AttemptInv
<1>4. ASSUME Last' # NoAttempt, jobs'[Last'].state = "none"
      PROVE  Status' # "ready"
  <2> SUFFICES ASSUME Status' = "ready" PROVE FALSE
    OBVIOUS
  <2>1. Last' = Last /\ Last \in Attempts
    BY <1>1, <1>3, <1>4
  <2>2. jobs[Last].state = "none"
    BY <1>4, <2>1, QueuedByItsRequest
  <2> QED BY <1>4, <2>1, <2>2, ReadyWasQueued DEF ToldInv
<1>5. ASSUME NEW p \in Requests, req'[p].pc = "closing"
      PROVE  jobs'[req'[p].attempt].state = "none"
  <2>1. CASE req'[p] = req[p]
    <3>1. req[p].attempt \in Attempts /\ jobs[req[p].attempt].state = "none"
      BY <1>5, <2>1 DEF IInv, AttemptInv, TypeOK, ToldInv, NoAttempt
    <3>2. ~\E q \in Requests : req[q].pc = "enqueue" /\ req[q].attempt = req[p].attempt
      BY <1>5, <2>1 DEF IInv, JobInv
    <3> QED BY <2>1, <3>1, <3>2, QueuedByItsRequest
  <2>2. CASE req'[p] # req[p]
    <3>1. PICK q \in Requests : RequestStep(q)
      BY <2>2, ExecutorActs, StallActs, SweepActs DEF Next, vars, webVars, WorkersAct
    <3>2. EnqueueFails(p) /\ req'[p].attempt = req[p].attempt
      BY <1>5, <2>2, <3>1, RequestMoves
    <3> QED BY <3>2 DEF EnqueueFails, IInv, JobInv
  <2> QED BY <2>1, <2>2
<1>6. ASSUME NEW p \in Requests, req'[p].pc = "enqueue"
      PROVE  told'[req'[p].attempt] # "failed"
  <2>1. CASE req'[p] = req[p]
    <3> DEFINE a == req[p].attempt
    <3>1. a \in Attempts /\ told[a] # "failed"
      BY <1>6, <2>1 DEF IInv, AttemptInv, TypeOK, ToldInv, NoAttempt
    <3>2. ~\E q \in Requests : req[q].pc # "enqueue" /\ req[q].attempt = a
      BY <1>6, <2>1 DEF IInv, JobInv
    <3>3. told'[a] = told[a]
      BY <3>1, <3>2, TellsItsOwn
    <3> QED BY <2>1, <3>1, <3>3
  <2>2. CASE req'[p] # req[p]
    <3>1. PICK q \in Requests : RequestStep(q)
      BY <2>2, ExecutorActs, StallActs, SweepActs DEF Next, vars, webVars, WorkersAct
    <3>2. ClaimStarts(p) /\ req'[p].attempt = claims + 1
      BY <1>6, <2>2, <3>1, RequestMoves
    <3>3. told' = told /\ claims + 1 \in Attempts /\ claims + 1 > claims
      BY <1>1, <3>2, InvestigationAssumption DEF FreshRun, ClaimStarts, Attempts, IInv, TypeOK
    <3> QED BY <3>2, <3>3 DEF IInv, AttemptInv
  <2> QED BY <2>1, <2>2
<1>7. ASSUME Last' # NoAttempt, told'[Last'] = "failed"
      PROVE  /\ Status' # "ready"
             /\ Status' = "pending" => jobs'[Last'].state = "none"
  <2>1. Last' = Last /\ Last \in Attempts /\ Last # NoAttempt
    <3>1. CASE Last' # Last
      BY <1>1, <1>3, <1>7, <3>1, TellsItsOwn
    <3> QED BY <1>1, <1>7, <3>1
  <2>2. CASE told[Last] = "failed"
    <3>1. Status # "ready" /\ (Status = "pending" => jobs[Last].state = "none")
      BY <2>1, <2>2 DEF ToldInv
    <3>2. Status' # "ready"
      BY <3>1, ReadyWasQueued
    <3>3. ASSUME Status' = "pending" PROVE jobs'[Last].state = "none"
      <4>1. jobs[Last].state = "none"
        BY <2>1, <3>1, <3>3, PendingStays
      <4>2. \A q \in Requests : req[q].pc = "enqueue" => req[q].attempt # Last
        BY <2>2 DEF ToldInv
      <4> QED BY <2>1, <4>1, <4>2, QueuedByItsRequest
    <3> QED BY <2>1, <3>2, <3>3
  <2>3. CASE told[Last] # "failed"
    <3>1. PICK q \in Requests :
              /\ req[q].attempt = Last /\ UNCHANGED jobs
              /\ req[q].pc # "closing" => runs' = runs /\ Status = "failed"
      BY <1>7, <2>1, <2>3, TellsItsOwn
    <3>2. CASE req[q].pc = "closing"
      <4>1. jobs[Last].state = "none" /\ Status # "ready"
        BY <2>1, <3>1, <3>2 DEF ToldInv
      <4>2. Status' # "ready"
        BY <4>1, ReadyWasQueued
      <4> QED BY <2>1, <3>1, <4>1, <4>2
    <3>3. CASE req[q].pc # "closing"
      BY <3>1, <3>3 DEF Status
    <3> QED BY <3>2, <3>3
  <2> QED BY <2>2, <2>3
<1> QED BY <1>4, <1>5, <1>6, <1>7 DEF ToldInv

\* Unless the queue takes a job and its answer is lost, what a caller was told
\* has failed does not become the result of the incident (failInvestigation,
\* for any number of requests, executors and attempts).
THEOREM FailureIsFinal ==
    ASSUME "unanswered" \notin Faults
    PROVE  Spec => []ToldFailedIsFinal
<1>1. Init => IInv
  BY InitInv
<1>2. Init => ToldInv
  BY DEF Init, ToldInv, IdleRequest, Last
<1>3. IInv /\ [Next]_vars => IInv'
  BY StepInv
<1>4. IInv /\ ToldInv /\ [Next]_vars => ToldInv'
  BY ToldStep
<1>5. IInv /\ ToldInv => ToldFailedIsFinal
  <2> SUFFICES ASSUME IInv, ToldInv, NEW r \in DOMAIN runs,
                      told[runs[r].current] = "failed"
               PROVE  runs[r].status # "ready"
    BY DEF ToldFailedIsFinal
  <2>1. r = 1 /\ runs # <<>> /\ runs[1].current # NoAttempt
    <3>1. runs \in Seq(Run) /\ r = 1 /\ runs # <<>>
      BY RunIsFirst DEF IInv, TypeOK, Run
    <3>2. runs[1] \in Run
      BY <3>1
    <3> QED BY <3>1, <3>2 DEF Run, Attempts, NoAttempt
  <2> QED BY <2>1 DEF ToldInv, Last, Status
<1> QED BY <1>1, <1>2, <1>3, <1>4, <1>5, PTL DEF Spec

-----------------------------------------------------------------------------
(* Jobs that ended *)

\* The queue has nothing left to do for attempt a, and it was neither for a stall nor
\* for a query that threw outside the try.
Over(a) == jobs[a].state \in {"done", "failed"}
               /\ ~(jobs[a].state = "failed" /\ (jobs[a].stalls = MaxStalls \/ jobs[a].threw))

\* The run never waits for an attempt whose job is over.
JobsCloseInv == Last # NoAttempt /\ Status = "pending" => ~Over(Last)

\* After a close of attempt a, the run does not wait for a.
LEMMA ClosedIsNotPending ==
    ASSUME IInv, NEW a, NEW status \in {"ready", "failed"}, CloseRun(a, status)
    PROVE  ~(Last' = a /\ Status' = "pending")
<1>1. /\ runs' = <<>> <=> runs = <<>>
      /\ \A r \in DOMAIN runs :
            /\ runs'[r].current = runs[r].current
            /\ runs'[r].status =
                 IF attemptInFlight(runs[r], a) THEN status ELSE runs[r].status
  BY CloseKeeps DEF IInv, Statuses
<1>2. runs # <<>> => 1 \in DOMAIN runs
  BY RunIsFirst
<1> QED BY <1>1, <1>2 DEF Last, Status, attemptInFlight

\* A handler ends the job of its attempt only when it leaves it another try or
\* the run does not wait for the attempt.
LEMMA HandlerEnds ==
    ASSUME IInv, NEW x \in Executors, ExecutorStep(x),
           NEW b \in Attempts, Over(b)', Last' = b, Last = b, Status = "pending"
    PROVE  Over(b) \/ Status' # "pending"
<1> SUFFICES ASSUME ~Over(b) PROVE Status' # "pending"
  OBVIOUS
<1> DEFINE a == exec[x].attempt
<1>1. /\ jobs \in [Attempts -> Job] /\ jobs[b] \in Job
      /\ jobs'[b] # jobs[b]
      /\ runs # <<>> /\ runs[1].status = "pending" /\ runs[1].current = b
  BY DEF IInv, TypeOK, Job, Over, Status, Last, NoAttempt, Attempts
<1>2. ASSUME NEW state, NEW made, NEW threw, EndJob(x, state, made, threw)
      PROVE  a = b /\ jobs'[b].state = state /\ jobs'[b].threw = threw
  <2>1. jobs' = [jobs EXCEPT ![a].state = state, ![a].made = made, ![a].by = Free,
                             ![a].threw = threw]
    BY <1>1, <1>2 DEF EndJob
  <2>2. a = b
    BY <1>1, <2>1
  <2>3. jobs'[b] = [jobs[b] EXCEPT !.state = state, !.made = made, !.by = Free,
                                   !.threw = threw]
    BY <1>1, <2>1, <2>2
  <2>4. jobs'[b].state = state /\ jobs'[b].threw = threw
    BY <1>1, <2>3 DEF Job
  <2> QED BY <2>2, <2>4
<1>3. ASSUME NEW retryable, Errs(x, retryable) PROVE FALSE
  <2>1. retryable /\ AttemptsLeft(x) /\ JobThrows(x, FALSE)
    BY <1>1, <1>3 DEF Errs
  <2>2. EndJob(x, "waiting", Tried(x), FALSE)
    BY <2>1 DEF JobThrows, AttemptsLeft
  <2>3. jobs'[b].state = "waiting"
    BY <1>2, <2>2
  <2> QED BY <2>3 DEF Over
\* A job that ends on a query nobody catches is over for that.
<1>10. ~JobThrows(x, TRUE)
  <2> SUFFICES ASSUME JobThrows(x, TRUE) PROVE FALSE
    OBVIOUS
  <2>1. jobs'[b].state \in {"waiting", "failed"} /\ jobs'[b].threw
    BY <1>2 DEF JobThrows
  <2> QED BY <2>1 DEF Over
<1>4. CASE CheckAttempt(x)
  <2>1. JobDone(x) /\ ~attemptInFlight(runs[jobs[a].run], a)
    BY <1>1, <1>4, <1>10 DEF CheckAttempt
  <2>2. a = b /\ jobs[a].run = 1
    BY <1>2, <2>1 DEF JobDone, IInv, RunInv
  <2> QED BY <1>1, <2>1, <2>2 DEF attemptInFlight
<1>5. CASE Complete(x)
  <2>1. a = b /\ CloseRun(a, "ready")
    BY <1>2, <1>5 DEF Complete, JobDone, Commits, CompleteRun
  <2> QED BY <2>1, ClosedIsNotPending
<1>6. CASE FailAttempt(x)
  <2>1. CloseRun(a, "failed") /\ JobDone(x)
    BY <1>6, <1>10 DEF FailAttempt
  <2>2. a = b
    BY <1>2, <2>1 DEF JobDone
  <2> QED BY <2>1, <2>2, ClosedIsNotPending
<1>7. CASE PipelineThrows(x) \/ CompleteErrs(x)
  BY <1>3, <1>7 DEF PipelineThrows, CompleteErrs
<1>8. CASE \E c \in Attempts : Deliver(x, c)
  <2>1. PICK c \in Attempts :
            jobs' = [jobs EXCEPT ![c].state = "active", ![c].by = x]
    BY <1>8 DEF Deliver
  <2>2. c = b
    BY <1>1, <2>1
  <2>3. jobs'[b] = [jobs[b] EXCEPT !.state = "active", !.by = x]
    BY <1>1, <2>1, <2>2
  <2>4. jobs'[b].state = "active"
    BY <1>1, <2>3 DEF Job
  <2> QED BY <2>4 DEF Over
<1>9. CASE PipelineReturns(x) \/ ReadLatestIndex(x) \/ ExecutorDies(x)
  BY <1>1, <1>9 DEF PipelineReturns, ReadLatestIndex, ExecutorDies
<1> QED BY <1>4, <1>5, <1>6, <1>7, <1>8, <1>9 DEF ExecutorStep

\* No step leaves the run waiting for a job that is over.
LEMMA JobsCloseStep ==
    ASSUME IInv, JobsCloseInv, [Next]_vars
    PROVE  JobsCloseInv'
<1> SUFFICES ASSUME NEW b, b = Last', b # NoAttempt, Status' = "pending", Over(b)'
             PROVE  FALSE
  BY DEF JobsCloseInv, Over
<1>1. /\ IInv' /\ Last = claims /\ Last' = claims' /\ claims \in Nat
      /\ claims' \in 0..MaxClaims
  <2>1. IInv'
    BY StepInv
  <2> QED BY <2>1, RunIsFirst DEF IInv, TypeOK, RunInv, Last, NoAttempt
<1>2. b \in Attempts
  BY <1>1, InvestigationAssumption DEF Attempts, NoAttempt
<1>3. jobs \in [Attempts -> Job] /\ jobs[b] \in Job
  BY <1>2 DEF IInv, TypeOK, Job
<1>4. ASSUME Last' # Last PROVE FALSE
  <2>1. Last' = Last + 1
    BY <1>4, LifeStep DEF Life!Next, Life!lifeVars, Life!Start, Life!Succeed,
       Life!GiveUp, Life!KeepLate, Last
  <2>2. jobs[b].state = "none"
    BY <1>1, <1>2, <2>1 DEF IInv, AttemptInv
  <2>3. PICK q \in Requests : ClaimStarts(q)
    <3>1. claims' # claims
      BY <1>1, <2>1
    <3>2. ~(\E x \in Executors : ExecutorStep(x)) /\ ~(\E a \in Attempts : Stall(a))
      BY <3>1 DEF webVars, ExecutorStep, Deliver, CheckAttempt, PipelineReturns,
         PipelineThrows, ReadLatestIndex, Complete, CompleteErrs, FailAttempt,
         ExecutorDies, Stall
    <3>3. ~(TtlPasses \/ Sweep \/ UNCHANGED vars)
      BY <3>1 DEF TtlPasses, Sweep, vars, webVars
    <3>4. PICK q \in Requests : RequestStep(q)
      BY <3>2, <3>3 DEF Next
    <3>5. ClaimStarts(q)
      BY <3>1, <3>4 DEF RequestStep, ClaimReads, ClaimAnswersExisting, Enqueue,
         EnqueueFails, CloseUnqueued, AwaitSeesVersion, AwaitSeesNoVersion,
         AwaitSeesRun, WebDies
    <3> QED BY <3>5
  <2>4. \E n : jobs' = [jobs EXCEPT ![claims + 1].run = n]
    BY <2>3 DEF FreshRun, ClaimStarts
  <2>5. PICK n : jobs'[b] = [jobs[b] EXCEPT !.run = n]
    BY <1>1, <1>2, <1>3, <2>1, <2>4
  <2>6. jobs'[b].state = "none"
    BY <1>3, <2>2, <2>5 DEF Job
  <2> QED BY <2>6 DEF Over
<1>5. ASSUME Last' = Last PROVE FALSE
  <2>1. Status = "pending" /\ ~Over(b)
    BY <1>5, PendingStays DEF JobsCloseInv
  <2>2. jobs'[b] # jobs[b]
    BY <2>1 DEF Over
  <2>3. CASE \E x \in Executors : ExecutorStep(x)
    BY <1>2, <1>5, <2>1, <2>3, HandlerEnds
  <2>4. CASE \E a \in Attempts : Stall(a)
    <3>1. PICK a \in Attempts : Stall(a)
      BY <2>4
    <3>2. CASE StallsLeft(a)
      <4>1. jobs' = [jobs EXCEPT ![a].by = Free, ![a].state = "waiting",
                                 ![a].stalls = jobs[a].stalls + 1]
        BY <3>1, <3>2 DEF Stall
      <4>2. a = b /\ jobs'[b] = [jobs[b] EXCEPT !.by = Free, !.state = "waiting",
                                                !.stalls = jobs[b].stalls + 1]
        BY <1>2, <1>3, <2>2, <4>1
      <4>3. jobs'[b].state = "waiting"
        BY <1>3, <4>2 DEF Job
      <4> QED BY <4>3 DEF Over
    <3>3. CASE ~StallsLeft(a)
      <4>1. jobs' = [jobs EXCEPT ![a].by = Free, ![a].state = "failed"]
        BY <3>1, <3>3 DEF Stall
      <4>2. a = b /\ jobs'[b] = [jobs[b] EXCEPT !.by = Free, !.state = "failed"]
        BY <1>2, <1>3, <2>2, <4>1
      <4>3. jobs'[b].state = "failed" /\ jobs'[b].stalls = jobs[b].stalls
        BY <1>3, <4>2 DEF Job
      <4>4. jobs[b].stalls = MaxStalls
        BY <1>3, <3>3, <4>2, InvestigationAssumption DEF StallsLeft, Job
      <4> QED BY <4>3, <4>4 DEF Over
    <3> QED BY <3>2, <3>3
  <2>5. CASE \E q \in Requests : RequestStep(q)
    <3>1. PICK q \in Requests : RequestStep(q)
      BY <2>5
    <3>2. ~ClaimStarts(q)
      BY <1>1, <1>5 DEF FreshRun, ClaimStarts
    <3>3. PICK state \in {"none", "waiting"}, a \in Attempts :
              jobs' = [jobs EXCEPT ![a].state = state]
      <4>1. Enqueue(q) \/ EnqueueFails(q)
        BY <2>2, <3>1, <3>2 DEF RequestStep, ClaimReads, ClaimAnswersExisting,
           CloseUnqueued, AwaitSeesVersion, AwaitSeesNoVersion, AwaitSeesRun, WebDies,
           workerVars
      <4>2. req[q].attempt \in Attempts
        BY <4>1 DEF IInv, AttemptInv, TypeOK, Enqueue, EnqueueFails, NoAttempt
      <4>3. jobs' # jobs
        BY <2>2
      <4> QED BY <4>1, <4>2, <4>3 DEF Enqueue, EnqueueFails
    <3>4. a = b /\ jobs'[b] = [jobs[b] EXCEPT !.state = state]
      BY <1>2, <1>3, <2>2, <3>3
    <3>5. jobs'[b].state = state
      BY <1>3, <3>4 DEF Job
    <3> QED BY <3>5 DEF Over
  <2>6. CASE TtlPasses \/ Sweep \/ UNCHANGED vars
    BY <2>2, <2>6 DEF TtlPasses, Sweep, workerVars, vars
  <2> QED BY <2>3, <2>4, <2>5, <2>6 DEF Next
<1> QED BY <1>4, <1>5

\* Whatever goes wrong, a run waits for a job the queue has finished with only when
\* the job was given up after it stalled, or its last try ended on a query that
\* executeInvestigationAttempt does not catch (execute.ts:100-155).
THEOREM JobsCloseTheirAttempts == Spec => []JobClosesItsAttempt
<1>1. Init => IInv
  BY InitInv
<1>2. Init => JobsCloseInv
  BY DEF Init, JobsCloseInv, Last
<1>3. IInv /\ [Next]_vars => IInv'
  BY StepInv
<1>4. IInv /\ JobsCloseInv /\ [Next]_vars => JobsCloseInv'
  BY JobsCloseStep
<1>5. IInv /\ JobsCloseInv => JobClosesItsAttempt
  <2> SUFFICES ASSUME IInv, JobsCloseInv, NEW r \in DOMAIN runs,
                      runs[r].status = "pending"
               PROVE  jobs[runs[r].current].state \in {"done", "failed"} =>
                        /\ jobs[runs[r].current].state = "failed"
                        /\ \/ jobs[runs[r].current].stalls = MaxStalls
                           \/ jobs[runs[r].current].threw
    BY DEF JobClosesItsAttempt
  <2>1. r = 1 /\ runs # <<>> /\ runs[1].current # NoAttempt
    <3>1. runs \in Seq(Run) /\ r = 1 /\ runs # <<>>
      BY RunIsFirst DEF IInv, TypeOK, Run
    <3>2. runs[1] \in Run
      BY <3>1
    <3> QED BY <3>1, <3>2 DEF Run, Attempts, NoAttempt
  <2> QED BY <2>1 DEF JobsCloseInv, Over, Last, Status
<1> QED BY <1>1, <1>2, <1>3, <1>4, <1>5, PTL DEF Spec

-----------------------------------------------------------------------------
(* Results that do not end as failures *)

\* All jobs run in one slot of one worker.
OneExecutor == \A x, y \in Executors : x = y

\* The executor has a result it has not saved yet.
Holds(x) == exec[x].pc \in {"saving", "inserting"}

\* A handler that runs the pipeline works for an attempt without a result that
\* has not failed; one that holds a result is the first to save it, under an
\* index no version has.
HandlerInv(x) ==
    /\ exec[x].pc = "running" =>
          /\ exec[x].attempt \notin results
          /\ ~(Status = "failed" /\ Last = exec[x].attempt)
    /\ Holds(x) => exec[x].attempt \in results \ Kept
    /\ exec[x].pc = "inserting" => \A v \in versions : v.index < exec[x].index

\* A failed run has no result, and a pending one has a result only in the hands
\* of an executor.
KeepInv ==
    /\ \A a \in results : jobs[a].state # "none"
    /\ Kept \subseteq results
    /\ Status = "failed" => Last \notin results
    /\ Status = "pending" /\ Last \in results =>
          \E x \in Executors : Holds(x) /\ exec[x].attempt = Last
    /\ \A x \in Executors : HandlerInv(x)

\* A close of attempt a moves the run on only from pending, and only for a.
LEMMA CloseMoves ==
    ASSUME IInv, NEW a, NEW status \in {"ready", "failed"}, CloseRun(a, status)
    PROVE  /\ Last' = Last
           /\ Status' = IF Status = "pending" /\ Last = a THEN status ELSE Status
<1>1. /\ runs' = <<>> <=> runs = <<>>
      /\ \A r \in DOMAIN runs :
            /\ runs'[r].current = runs[r].current
            /\ runs'[r].status =
                 IF attemptInFlight(runs[r], a) THEN status ELSE runs[r].status
  BY CloseKeeps DEF IInv, Statuses
<1>2. runs # <<>> => 1 \in DOMAIN runs
  BY RunIsFirst
<1> QED BY <1>1, <1>2 DEF Last, Status, attemptInFlight

\* A known attempt stays known, so a step without a new result keeps the first
\* part of KeepInv.
LEMMA ResultsQueued ==
    ASSUME IInv, KeepInv, [Next]_vars, results' = results
    PROVE  \A a \in results' : jobs'[a].state # "none"
<1>1. results \subseteq Attempts
  BY DEF IInv, TypeOK
<1> QED BY <1>1, QueuedByItsRequest DEF KeepInv

\* A step that only moves the run: it may fail for an attempt nobody executes
\* and that has no result, and be pending anew for one without.
LEMMA RunMoves ==
    ASSUME IInv, KeepInv, [Next]_vars, UNCHANGED <<versions, exec, results>>,
           Status' = "failed" =>
              /\ Last' = Last
              /\ \/ Status = "failed"
                 \/ /\ Last \notin results
                    /\ \A x \in Executors :
                          exec[x].pc = "running" => exec[x].attempt # Last,
           Status' = "pending" =>
              (Status = "pending" /\ Last' = Last) \/ Last' \notin results
    PROVE  KeepInv'
<1>1. Kept' = Kept /\ \A x : Holds(x)' = Holds(x)
  BY DEF Kept, Holds
<1>2. \A x \in Executors : HandlerInv(x)'
  BY <1>1 DEF KeepInv, HandlerInv
<1> QED BY <1>1, <1>2, ResultsQueued DEF KeepInv

\* The steps of requests.
LEMMA RequestKeeps ==
    ASSUME IInv, ToldInv, KeepInv, NEW q \in Requests, RequestStep(q)
    PROVE  KeepInv'
<1>0. [Next]_vars
  BY DEF Next
<1>1. CASE ClaimStarts(q)
  <2>1. /\ UNCHANGED <<versions, exec, results>> /\ claims' = claims + 1
        /\ claims + 1 \in Attempts /\ claims + 1 > claims
    BY <1>1, InvestigationAssumption DEF FreshRun, ClaimStarts, IInv, TypeOK, Attempts
  <2>2. claims + 1 \notin results
    BY <2>1 DEF IInv, AttemptInv, KeepInv
  <2>3. Status' = "pending" /\ Last' = claims + 1
    BY <1>1, StartIsLife, RunIsFirst DEF Life!Start, Status, Last
  <2> QED BY <1>0, <2>1, <2>2, <2>3, RunMoves
<1>2. CASE CloseUnqueued(q)
  <2> DEFINE a == req[q].attempt
  <2>1. /\ UNCHANGED <<versions, exec, results>>
        /\ CloseRun(a, "failed") \/ UNCHANGED runs
        /\ jobs[a].state = "none"
    BY <1>2 DEF CloseUnqueued, workerVars, ToldInv
  <2>2. \A x \in Executors : exec[x].pc = "running" => exec[x].attempt # a
    BY <2>1 DEF IInv, JobInv
  <2>3. a \notin results
    BY <2>1 DEF KeepInv
  <2>4. CASE CloseRun(a, "failed")
    <3>1. /\ Last' = Last
          /\ Status' = IF Status = "pending" /\ Last = a THEN "failed" ELSE Status
      BY <2>4, CloseMoves
    <3> QED BY <1>0, <2>1, <2>2, <2>3, <3>1, RunMoves
  <2>5. CASE UNCHANGED runs
    <3>1. Last' = Last /\ Status' = Status
      BY <2>5 DEF Last, Status
    <3> QED BY <1>0, <2>1, <3>1, RunMoves
  <2> QED BY <2>1, <2>4, <2>5
<1>3. CASE ~ClaimStarts(q) /\ ~CloseUnqueued(q)
  <2>1. UNCHANGED <<runVars, exec, results>>
    BY <1>3 DEF RequestStep, ClaimReads, ClaimAnswersExisting, Enqueue, EnqueueFails,
       AwaitSeesVersion, AwaitSeesNoVersion, AwaitSeesRun, WebDies, workerVars
  <2>2. Last' = Last /\ Status' = Status /\ UNCHANGED <<versions, exec, results>>
    BY <2>1 DEF runVars, Last, Status
  <2> QED BY <1>0, <2>2, RunMoves
<1> QED BY <1>1, <1>2, <1>3

\* The stalled-job check, the clock and the sweep: an expired run is neither
\* pending nor failed.
LEMMA ClockKeeps ==
    ASSUME IInv, KeepInv, (\E a \in Attempts : Stall(a)) \/ TtlPasses \/ Sweep
    PROVE  KeepInv'
<1>0. [Next]_vars /\ UNCHANGED <<versions, exec, results>>
  BY DEF Next, Stall, TtlPasses, Sweep, runVars, workerVars
<1>1. CASE \E a \in Attempts : Stall(a)
  <2>1. Last' = Last /\ Status' = Status
    BY <1>1 DEF Stall, runVars, Last, Status
  <2> QED BY <1>0, <2>1, RunMoves
<1>2. CASE TtlPasses \/ Sweep
  <2>1. Status = "pending" /\ Status' \in {Status, "expired"} /\ Last' = Last
    BY <1>2, SweepMoves
  <2> QED BY <1>0, <2>1, RunMoves
<1> QED BY <1>1, <1>2

\* What EndJob, Errs and the other moves of a handler make of its place.
LEMMA HandlerMoves ==
    ASSUME IInv, NEW x \in Executors, exec[x].pc # "idle"
    PROVE  /\ \A state, made, threw : EndJob(x, state, made, threw) => exec'[x].pc = "idle"
           /\ \A retryable : Errs(x, retryable) => exec'[x].pc \in {"idle", "failing"}
           /\ \A pc : exec' = [exec EXCEPT ![x].pc = pc] =>
                 exec'[x] = [exec[x] EXCEPT !.pc = pc]
<1>1. exec \in [Executors -> Executor] /\ exec[x] \in Executor
  BY DEF IInv, TypeOK, Executor
<1>2. \A state, made, threw : EndJob(x, state, made, threw) => exec'[x].pc = "idle"
  BY <1>1 DEF EndJob, IdleExecutor
<1>3. \A pc : exec' = [exec EXCEPT ![x].pc = pc] =>
          exec'[x] = [exec[x] EXCEPT !.pc = pc]
  BY <1>1
<1>4. \A retryable : Errs(x, retryable) => exec'[x].pc \in {"idle", "failing"}
  <2> SUFFICES ASSUME NEW retryable, Errs(x, retryable)
               PROVE  exec'[x].pc \in {"idle", "failing"}
    OBVIOUS
  <2>1. CASE JobThrows(x, FALSE)
    BY <1>2, <2>1 DEF JobThrows
  <2>2. CASE exec' = [exec EXCEPT ![x].pc = "failing"]
    BY <1>1, <2>2 DEF Executor
  <2> QED BY <2>1, <2>2 DEF Errs
<1> QED BY <1>2, <1>3, <1>4

\* The only executor leaves a place where it held no result, the run unmoved.
LEMMA EmptyHands ==
    ASSUME OneExecutor, IInv, KeepInv, [Next]_vars, NEW x \in Executors, ~Holds(x),
           exec'[x].pc \in {"idle", "checking", "failing"},
           UNCHANGED <<runVars, results>>
    PROVE  KeepInv'
<1>1. Kept' = Kept /\ Status' = Status /\ Last' = Last
  BY DEF Kept, Status, Last, runVars
<1>2. \A y \in Executors : y = x
  BY DEF OneExecutor
<1>3. Status = "pending" => Last \notin results
  BY <1>2 DEF KeepInv
<1>4. \A y \in Executors : HandlerInv(y)'
  BY <1>2 DEF HandlerInv, Holds
<1> QED BY <1>1, <1>3, <1>4, ResultsQueued DEF KeepInv

\* With one executor, a run pending for an attempt with a result waits for it.
LEMMA HeldByIt ==
    ASSUME OneExecutor, KeepInv, NEW x \in Executors,
           Status = "pending", Last \in results
    PROVE  Holds(x) /\ exec[x].attempt = Last
BY DEF OneExecutor, KeepInv

\* A delivery and the checks before the pipeline.
LEMMA CheckKeeps ==
    ASSUME OneExecutor, IInv, KeepInv, [Next]_vars, NEW x \in Executors,
           (\E a \in Attempts : Deliver(x, a)) \/ CheckAttempt(x)
    PROVE  KeepInv'
<1>1. /\ exec[x].pc \in {"idle", "checking"} /\ UNCHANGED <<runVars, results>>
      /\ exec \in [Executors -> Executor] /\ exec[x] \in Executor
  BY DEF Deliver, CheckAttempt, IInv, TypeOK, Executor
<1>2. ~Holds(x)
  BY <1>1 DEF Holds
<1>3. CASE \E a \in Attempts : Deliver(x, a)
  <2>1. exec'[x].pc = "checking"
    BY <1>1, <1>3 DEF Deliver
  <2> QED BY <1>1, <1>2, <2>1, EmptyHands
<1>4. CASE CheckAttempt(x)
  <2> DEFINE a == exec[x].attempt
  <2>1. CASE exec'[x].pc \in {"idle", "failing"}
    BY <1>1, <1>2, <2>1, EmptyHands
  <2>2. CASE exec'[x].pc \notin {"idle", "failing"}
    <3>1. exec[x].pc # "idle"
      BY <1>4 DEF CheckAttempt
    <3>2. exec' # [exec EXCEPT ![x].pc = "failing"] /\ ~JobDone(x) /\ ~JobThrows(x, TRUE)
      <4>1. ~JobDone(x)
        BY <2>2, <3>1, HandlerMoves DEF JobDone
      <4>2. ~JobThrows(x, TRUE)
        BY <2>2, <3>1, HandlerMoves DEF JobThrows
      <4>3. exec' # [exec EXCEPT ![x].pc = "failing"]
        BY <1>1, <2>2 DEF Executor
      <4> QED BY <4>1, <4>2, <4>3
    <3>3. /\ attemptInFlight(runs[jobs[a].run], a)
          /\ exec' = [exec EXCEPT ![x].pc = "running"]
      BY <1>4, <3>2 DEF CheckAttempt
    <3>4. jobs[a].run = 1 /\ claims # 0
      BY <3>1 DEF IInv, TypeOK, AttemptInv, RunInv, NoAttempt, Attempts
    <3>5. Status = "pending" /\ Last = a
      BY <3>3, <3>4 DEF attemptInFlight, Status, Last, IInv, RunInv
    <3>6. Last \notin results
      BY <1>2, <3>5, HeldByIt
    <3>7. exec'[x].pc = "running" /\ exec'[x].attempt = a
      BY <1>1, <3>3 DEF Executor
    <3>8. Kept' = Kept /\ Status' = Status /\ Last' = Last /\ results' = results
      BY <1>1 DEF Kept, Status, Last, runVars
    <3>9. \A y \in Executors : HandlerInv(y)'
      BY <3>5, <3>6, <3>7, <3>8 DEF HandlerInv, Holds, OneExecutor
    <3> QED BY <3>6, <3>5, <3>8, <3>9, ResultsQueued DEF KeepInv
  <2> QED BY <2>1, <2>2
<1> QED BY <1>3, <1>4

\* A pipeline that returns puts its result in the hands of its executor.
LEMMA PipelineKeeps ==
    ASSUME OneExecutor, IInv, KeepInv, [Next]_vars, NEW x \in Executors,
           PipelineReturns(x) \/ PipelineThrows(x)
    PROVE  KeepInv'
<1> DEFINE a == exec[x].attempt
<1>1. /\ exec[x].pc = "running" /\ ~Holds(x) /\ UNCHANGED runVars
      /\ exec \in [Executors -> Executor] /\ exec[x] \in Executor
  BY DEF PipelineReturns, PipelineThrows, Holds, IInv, TypeOK, Executor
<1>2. Kept' = Kept /\ Status' = Status /\ Last' = Last
  BY <1>1 DEF Kept, Status, Last, runVars
<1>3. CASE PipelineThrows(x)
  <2>1. exec'[x].pc \in {"idle", "failing"} /\ results' = results
    BY <1>1, <1>3, HandlerMoves DEF PipelineThrows
  <2> QED BY <1>1, <2>1, EmptyHands
<1>4. CASE PipelineReturns(x)
  <2>1. /\ exec' = [exec EXCEPT ![x].pc = "saving"]
        /\ results' = results \cup {a} /\ UNCHANGED jobs
    BY <1>4 DEF PipelineReturns
  <2>2. exec'[x].pc = "saving" /\ exec'[x].attempt = a
    BY <1>1, <2>1 DEF Executor
  <2>3. a \notin results /\ ~(Status = "failed" /\ Last = a) /\ Kept \subseteq results
    BY <1>1 DEF KeepInv, HandlerInv
  <2>4. jobs[a].state # "none"
    BY <1>1 DEF IInv, JobInv
  <2>5. \A y \in Executors : HandlerInv(y)'
    BY <1>2, <2>1, <2>2, <2>3 DEF HandlerInv, Holds, OneExecutor
  <2>6. Status = "pending" /\ Last \in results' => Last = a
    BY <1>1, <2>1, HeldByIt
  <2>7. \E y \in Executors : Holds(y)' /\ exec'[y].attempt = a
    BY <2>2 DEF Holds
  <2> QED BY <1>2, <2>1, <2>3, <2>4, <2>5, <2>6, <2>7 DEF KeepInv
<1> QED BY <1>3, <1>4

\* The insert of a result never collides, and makes the run ready if it still
\* waits for it.
LEMMA SaveKeeps ==
    ASSUME OneExecutor, "commit" \notin Faults, IInv, KeepInv, [Next]_vars,
           NEW x \in Executors,
           ReadLatestIndex(x) \/ Complete(x) \/ CompleteErrs(x)
    PROVE  KeepInv'
<1> DEFINE a == exec[x].attempt
<1>1. /\ Holds(x) /\ results' = results /\ exec[x].pc # "idle"
      /\ exec \in [Executors -> Executor] /\ exec[x] \in Executor
  BY DEF ReadLatestIndex, Complete, CompleteErrs, Holds, IInv, TypeOK, Executor
<1>2. /\ a \in results \ Kept /\ HandlerInv(x) /\ a \in Attempts
      /\ jobs[a].run = 1
  BY <1>1 DEF KeepInv, HandlerInv, IInv, TypeOK, AttemptInv, RunInv, NoAttempt
<1>3. \A v \in versions : v.run = 1 /\ v.index \in Nat
  <2>1. DOMAIN runs \subseteq {1}
    BY RunIsFirst
  <2> QED BY <2>1 DEF IInv, TypeOK
<1>4. CASE ReadLatestIndex(x)
  <2>1. PICK n \in 0..MaxClaims :
            /\ \/ VersionsOf(1) = {} /\ n = 0
               \/ \E v \in versions : IsLatest(v, 1) /\ n = v.index + 1
            /\ exec' = [exec EXCEPT ![x].pc = "inserting", ![x].index = n]
    BY <1>2, <1>4 DEF ReadLatestIndex
  <2>2. \A v \in versions : v.index < n
    <3>1. VersionsOf(1) = versions
      BY <1>3 DEF VersionsOf
    <3>2. CASE \E v \in versions : IsLatest(v, 1) /\ n = v.index + 1
      <4>1. PICK v \in versions : IsLatest(v, 1) /\ n = v.index + 1
        BY <3>2
      <4>2. \A w \in versions : w.index <= v.index
        BY <3>1, <4>1 DEF IsLatest
      <4> QED BY <1>3, <4>1, <4>2
    <3> QED BY <2>1, <3>1, <3>2
  <2>3. exec'[x].pc = "inserting" /\ exec'[x].attempt = a /\ exec'[x].index = n
    BY <1>1, <2>1 DEF Executor
  <2>4. /\ Kept' = Kept /\ Status' = Status /\ Last' = Last /\ versions' = versions
    BY <1>4 DEF ReadLatestIndex, Kept, Status, Last, runVars
  <2>5. \A y \in Executors : HandlerInv(y)'
    BY <1>1, <1>2, <2>2, <2>3, <2>4 DEF HandlerInv, Holds, OneExecutor
  <2>6. Status = "pending" /\ Last \in results =>
            Holds(x)' /\ exec'[x].attempt = Last
    BY <2>3, HeldByIt DEF Holds
  <2> QED BY <1>1, <2>4, <2>5, <2>6, ResultsQueued DEF KeepInv
<1>5. ASSUME exec[x].pc = "inserting" PROVE ~Collides(a, exec[x].index)
  <2>1. \A v \in versions : v.attempt # a
    BY <1>2 DEF Kept
  <2>2. \A v \in versions : v.index < exec[x].index
    BY <1>2, <1>5 DEF HandlerInv
  <2>3. exec[x].index \in Nat
    BY <1>1 DEF Executor
  <2>4. \A v \in versions : v.index # exec[x].index
    BY <1>3, <2>2, <2>3
  <2> QED BY <2>1, <2>4 DEF Collides
<1>6. ~CompleteErrs(x)
  BY <1>5 DEF CompleteErrs
<1>7. CASE Complete(x)
  <2> DEFINE v == [run |-> jobs[a].run, attempt |-> a, index |-> exec[x].index]
  <2>1. versions' = versions \cup {v} /\ v.attempt = a /\ CloseRun(a, "ready")
    BY <1>7 DEF Complete, Commits, CompleteRun
  <2>2. Kept' = Kept \cup {a}
    <3> HIDE DEF v
    <3> QED BY <2>1 DEF Kept
  <2>3. /\ Last' = Last
        /\ Status' = IF Status = "pending" /\ Last = a THEN "ready" ELSE Status
    BY <2>1, CloseMoves
  <2>4. exec'[x].pc = "idle"
    BY <1>1, <1>7, HandlerMoves DEF Complete, JobDone
  <2>5. \A y \in Executors : HandlerInv(y)'
    BY <2>4 DEF HandlerInv, Holds, OneExecutor
  <2>6. Status' = "pending" => Last' \notin results'
    BY <1>1, <2>3, HeldByIt
  <2>7. Status' = "failed" => Last' \notin results'
    BY <1>1, <2>3 DEF KeepInv
  <2>8. Kept' \subseteq results'
    BY <1>1, <1>2, <2>2 DEF KeepInv
  <2> QED BY <1>1, <2>5, <2>6, <2>7, <2>8, ResultsQueued DEF KeepInv
<1> QED BY <1>4, <1>6, <1>7

\* A handler closes with a failure only an attempt without a result.
LEMMA FailKeeps ==
    ASSUME OneExecutor, IInv, KeepInv, [Next]_vars, NEW x \in Executors,
           FailAttempt(x)
    PROVE  KeepInv'
<1> DEFINE a == exec[x].attempt
<1>1. /\ exec[x].pc = "failing" /\ ~Holds(x)
      /\ UNCHANGED <<versions, results>>
      /\ CloseRun(a, "failed") \/ UNCHANGED runs
      /\ JobDone(x) \/ JobThrows(x, TRUE)
  BY DEF FailAttempt, Holds
<1>2. exec'[x].pc = "idle"
  BY <1>1, HandlerMoves DEF JobDone, JobThrows
<1>3. Status = "pending" => Last \notin results
  BY <1>1, HeldByIt
<1>4. Last' = Last /\ Status' \in {Status, "failed"}
      /\ (Status' # Status => Status = "pending")
  <2>1. CASE CloseRun(a, "failed")
    BY <2>1, CloseMoves
  <2>2. CASE UNCHANGED runs
    BY <2>2 DEF Status, Last
  <2> QED BY <1>1, <2>1, <2>2
<1>5. Kept' = Kept
  BY <1>1 DEF Kept
<1>6. \A y \in Executors : HandlerInv(y)'
  BY <1>2 DEF HandlerInv, Holds, OneExecutor
<1> QED BY <1>1, <1>3, <1>4, <1>5, <1>6, ResultsQueued DEF KeepInv

\* Every step with one executor and no death or lost answer keeps the results.
LEMMA KeepStep ==
    ASSUME OneExecutor, Faults \cap {"commit", "death"} = {},
           IInv, ToldInv, KeepInv, [Next]_vars
    PROVE  KeepInv'
<1>1. ASSUME NEW x \in Executors, ExecutorStep(x) PROVE KeepInv'
  BY <1>1, CheckKeeps, PipelineKeeps, SaveKeeps, FailKeeps
     DEF ExecutorStep, ExecutorDies
<1>2. CASE UNCHANGED vars
  <2>1. Last' = Last /\ Status' = Status /\ UNCHANGED <<versions, exec, results>>
    BY <1>2 DEF vars, runVars, workerVars, Last, Status
  <2> QED BY <2>1, RunMoves
<1> QED BY <1>1, <1>2, RequestKeeps, ClockKeeps DEF Next

\* An attempt whose pipeline returned a result does not fail (complete.ts:78-80)
\* when one executor runs all jobs, no transaction or answer is lost and it does
\* not die: with two, a late attempt takes the version index of a newer one.
\* Stalled jobs, sweeps, retries and lost requests do no harm.
THEOREM ResultsAreKept ==
    ASSUME OneExecutor, Faults \cap {"unanswered", "commit", "death"} = {}
    PROVE  Spec => []CurrentResultIsKept
<1>1. Init => IInv
  BY InitInv
<1>2. Init => ToldInv
  BY DEF Init, ToldInv, IdleRequest, Last
<1>3. Init => KeepInv
  BY DEF Init, KeepInv, HandlerInv, Holds, Kept, Status, IdleExecutor
<1>4. IInv /\ [Next]_vars => IInv'
  BY StepInv
<1>5. IInv /\ ToldInv /\ [Next]_vars => ToldInv'
  BY ToldStep
<1>6. IInv /\ ToldInv /\ KeepInv /\ [Next]_vars => KeepInv'
  BY KeepStep
<1>7. IInv /\ KeepInv => CurrentResultIsKept
  BY RunIsFirst DEF KeepInv, Status, Last, CurrentResultIsKept
<1> QED BY <1>1, <1>2, <1>3, <1>4, <1>5, <1>6, <1>7, PTL DEF Spec
=============================================================================
