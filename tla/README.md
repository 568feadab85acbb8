# FTTH-Copilot in TLA+

A verification project kept beside the FTTH-Copilot code: TLA+ modules that
model the parts of the system where concurrency, failures and ordering decide
whether it is correct, TLC configurations that check them on small instances,
and proofs, checked by TLAPS, for every value of the constants. Paths below are
relative to the repository.

- [The system](#the-system) - inventory of its parts
- [The modules](#the-modules) - what models what
- [The durable ingest path](#the-durable-ingest-path)
- [Investigations](#investigations)
- [Detection runs, alerts and incidents](#detection-runs-alerts-and-incidents)
- [The spool directory and the replay of dead letters](#the-spool-directory-and-the-replay-of-dead-letters)
- [A turn of the chat](#a-turn-of-the-chat)
- [Runs](#runs), [bounds](#bounds), [fairness](#fairness), [mutants](#mutants)
- [What is proved](#what-is-proved)
- [Where the code and its comments part](#where-the-code-and-its-comments-part)
- [Not modelled](#not-modelled) and [plan](#plan)

## The system

FTTH-Copilot watches fibre access networks. A **worker** process receives
events (syslog, SNMP traps) and polls network management systems; a **web** app
shows alerts and incidents and lets an operator ask for an investigation, which
the worker runs with language models and tools. They share **Postgres** (through
Prisma), **Redis** (BullMQ queues, counters, published health) and, for the
ingest path only, one directory of the worker's disk.

### Components

| component | state it keeps | operations | talks to |
|---|---|---|---|
| durable spool (`packages/ingest/src/spool.ts`) | `events.jsonl`, `events.offset`, `events.dlq.jsonl`, `owner.lock`; `size`, `offset`, `pending` in memory | `append`, `readBatchWithOffsets`, `commit`, `rotate`, `deadLetter`, `requeue`, `stats`, restart | receivers write it, the drainer empties it, health reads it |
| event drainer (`drainer.ts`, `errors.ts`) | `draining`, `backoff`, attempts per event | `drainOnce`, `resolveOneByOne`, `start`/`stop` | spool, `DeviceEvent` |
| drain job (`ingest.ts`, `services/worker/src/registry.ts`) | result of the loop | `drainSpool` | drainer, BullMQ |
| dead letter replay (`dead-letter-replay.ts`) | - | read the file, take the directory, requeue, rewrite the file | spool directory, from a second process |
| UDP receivers (`syslog-receiver.ts`, `snmp-receiver.ts`) | sockets, allow-lists | datagram to event | spool, drain job |
| investigation attempts (`packages/investigations`, `packages/db/src/investigation-store.ts`, the investigate route) | rows `investigation_runs`, `investigation_versions`, a job per attempt | claim, enqueue, execute, complete, fail, sweep, await | web, worker, Postgres, BullMQ |
| job queues (`packages/jobs`) | BullMQ jobs | enqueue, deliver, retry, stall | web and worker |
| worker process (`services/worker`) | schedules, warm-up, published health | boot, shutdown, periodic jobs | everything |
| scheduler (`packages/scheduler`) | in-flight flags, health per loop, advisory lock | start a tick, report it | Postgres, Redis |
| alerts and incidents (`packages/alerts`) | `detected_alerts`, `incidents` | detect, reconcile, notify, correlate; operators acknowledge and resolve | worker, web |
| knowledge base promotion (`apps/web/lib/promote-pending-incidents.ts`) | candidates, confirmed incidents | promote, confirm | scheduler, web |
| security detection (`packages/soc`, `packages/security`) | alerts, notification cooldowns | detect, notify, audit | Postgres |
| chat (`apps/web/app/api/chat/route.ts`) and agent runtime (`packages/agent-core`) | messages, action and verdict logs, candidates | plan a route, call tools and the model, gate, store | Laya, language model, Postgres |
| Laya client (`packages/shared/src/laya-client.ts`) | circuit breaker, metrics | classify | an HTTP service |
| rate limits and quotas | counters in Redis or memory, a quota per tenant | take | web |
| learning loop (`packages/learning`) | append-only events, labels, frozen snapshots | record, label, snapshot | Postgres |
| maintenance windows | table of windows | create, suppress | web, alerts |
| evidence, detection, analytics, monitoring, connectors, auth, UI, evaluation, contract | see `PROJECT.json` | | |

### Which behaviours are hard, and what makes each component correct

- **Ingest path.** The only part with its own persistence. A crash can strike
  between any two writes; the store can be down, answer late, lose an answer,
  miss a table or refuse one row of a batch; receivers append while an insert
  is awaited; several drain jobs may share one spool. *Correct* when an accepted event becomes a
  row or a dead letter, only unstorable events become dead letters,
  a bad event holds up nobody, and the backlog number is true.
- **Investigations.** Requests race for an incident; the job is delivered more
  than once; the attempt may outlive its TTL; transactions lose their answer;
  any process may die. *Correct* when an incident has one run with one attempt
  in flight, `ready` always comes with its result, a paid result is not lost,
  and no run stays pending for ever.
- **Scheduler.** Overlapping ticks, several instances, an advisory lock that
  ends before the loop it should guard. *Correct* when a process runs a loop at
  most once at a time.
- **Alerts.** A detection run reads, decides and writes row by row while
  operators act, messages fail and the process dies. *Correct* when only a stale
  alert is resolved, an acknowledgement outlives the next run, what is open was
  told, messages are a cooldown apart, and the incident agrees with its alerts.
- **Spool ownership and replay.** Two processes compete for one directory
  through a lock file that is created, filled, refreshed, judged and removed in
  separate steps. *Correct* when one process at a time uses the directory, a
  dead owner blocks nobody, and a dead letter is in the file until the spool has it.
- **Chat.** One turn has four exits and five writes without a transaction, and
  shares the circuit of the classifier with all other requests. *Correct* when
  no exit avoids the gate, what becomes knowledge is clean, a warning precedes
  what it warns of, budgets hold and every turn ends.
- **Promotion.** Two promoters and an operator race. *Correct* when a candidate
  becomes one confirmed incident and is then marked.
- **Limits, learning, maintenance.** Small state machines with one transaction
  or one event-loop turn per step.

`PROJECT.json` lists the single hazards, each at its line, with the property
that would catch it.

## The modules

```
WriteErrors     DurableSpool        InvestigationLifecycle   (abstract)
      \           /                          ^
       EventDrainer  <-- MCTimerDrainer      | Life!Spec
       |          \                          |
   DrainSpool   EventDrainerProofs      InvestigationRun <-- MCInvestigationRun
   |   |    \        /                       |
   |   |   DrainSpoolProofs             InvestigationRunProofs
   |   |      /       \
   | MCDrainSpool   DrainQueueProofs, DrainLossProofs
   |
   | Queue!Spec
   v
 IngestQueue (abstract)

SchedulerLoops          SpoolOwnership             LayaBreaker
      |                       |                         |
AlertLifecycle         DeadLetterReplay             ChatTurn
      |     \                 |     \                   |    \
      |   MCAlertLifecycle    |  MCDeadLetterReplay     |   MCChatTurn
AlertLifecycleProofs   DeadLetterReplayProofs     ChatTurnProofs
```

A line downwards is EXTENDS: the module below composes the one above with its own
state.

| module | models |
|---|---|
| `WriteErrors` | `errors.ts`: class, recognition and scope of a failed write, tests in the order of the source |
| `DurableSpool` | `spool.ts`: files, reader, append, commit, rotation, backlog count, deaths and restarts |
| `EventDrainer` | `drainer.ts` over the spool and an external Postgres; also the timer of `start()` |
| `DrainSpool` | `drainSpool()` as the body of the `ingest-drain` job |
| `IngestQueue` | what the ingest path promises: accepted events wait until they are resolved |
| `InvestigationRun` | requests, claim, queue, executor, closing transactions, sweep |
| `InvestigationLifecycle` | what an investigation is for its incident: one attempt in flight, results of closed attempts kept as history |
| `SchedulerLoops` | `tryStart()`: the in-flight flag of a process and the advisory lock around any periodic loop |
| `AlertLifecycle` | a detection run as the body of such a loop: `reconcile`, the upserts, the messages, the correlation into an incident, with operators acting meanwhile |
| `SpoolOwnership` | `owner.lock`: `claimDirectory`, heartbeat, `close`, `rotate` |
| `DeadLetterReplay` | `replayDeadLetter()` next to a worker that drains the same directory |
| `LayaBreaker` | the circuit breaker and `decide()` of the Laya client |
| `ChatTurn` | `POST /api/chat` and `runAgent()`: route, loop, gate and the writes of the outcome |
| `MC*` | instances for TLC |
| `*Proofs` | the theorems; see [What is proved](#what-is-proved) |

## The durable ingest path

**State.** `data` is `events.jsonl` as a sequence of cells, a cell being an
event with its newline or `Torn`, the bytes a crash left of a line. The reader's
rule follows from it: an event directly behind a fragment shares its line and
does not parse. `offset`, `offsetFile` and `size` count cells. `dlq` is the set
of events with a dead letter, `stored` the set of rows (the table has a unique
ingest id and the insert skips duplicates, so a set is what it is). `pc`,
`entries`, `next`, `reply` and `outcome` are the locals of a `drainOnce()` that
waits at an `await`.

**Actions.** One action is what runs between two awaits: `BeginPass` (guards,
read, flag), `StoreHandlesBatch` (Postgres answers), then `BatchStored`,
`BatchUnavailable` or `BatchRejected`; in the one-by-one phase `Probe` for each
event and `SharedFailure` or `Settle` for what is decided afterwards. The event
loop lets receivers append and health read `stats()` between any two of them, but not
between two passes of a job, where only promise continuations run
(`NoContinuationDue`). `StartJob`, `NextBatch` and `EndJob` are `drainSpool()`
and its handler.

**Crashes.** `CrashPoints` names where the process may die: between operations,
inside `writeSync` (`append`), after the rename of `events.offset` (`commit`), between the rename of the data file
and the reset of the offset (`rotate`), among the commits and dead letters of
the one-by-one phase (`settle`). A death loses everything in memory.

**What is abstracted.** The payload of an event is its identity and whether the
schema rejects it (`Unstorable`) or the store fails on it with an unlisted code
(`Odd`). Fsync is not modelled: the code does not call it for data, and a crash
of the process does not lose what the kernel took. Nor are errors of the disk
under a live process (a full disk): a write either happens or the process dies in
it. A refused append only bumps a counter. Bytes are cells, so a fragment is one cell of any length.

`DurableSpool` takes it that its process alone uses the directory; whether it does
is the subject of `SpoolOwnership`.

## Investigations

**State.** The run row (status, attempt in flight, whether it passed its TTL),
the versions, the advisory lock, the locals of each request and executor, the
BullMQ job of each attempt (state, attempts made, stalls, owner), and two history
variables: what the caller of an attempt was told, and which attempts' pipelines
returned a result.

**Actions.** A transaction is one step where it commits. The claim is two steps,
read and write, because under READ COMMITTED only the advisory lock joins
them; saving a version is two steps for the same reason and has no lock. The
conditions of `attemptInFlight` guard every closing update. `Faults` chooses
what may go wrong: the queue refuses the job (`refuse`), or takes it and the
answer is lost (`unanswered`), a process dies, the two reads before the pipeline throw
(`query`), the pipeline throws, a transaction is lost before or after its
commit, an executor that lives loses its job. A handler that throws has no outcome:
BullMQ counts the try and keeps in the job that it threw (`threw`).

**What is abstracted.** The pipeline is a result or an error. The random
version id of an attempt is its number. The quota, the `GET` route, and the two
functions without callers in production (`persistInvestigationVersion`,
`beginInvestigationAttempt`) are left out.

## Detection runs, alerts and incidents

**State.** `SchedulerLoops` has `inFlight` (one flag per process), `lock` (who
holds the advisory lock, `Orphan` when its process died with the transaction
open) and `tick` (where each delivery of the job is). `AlertLifecycle` adds the
rows `alert` of one device (one per kind), the `incident` of the device, the
locals `run` of each run, and four histories the properties need: the last
message per kind (`told`), the kinds whose message was recorded as sent and never
went out (`unsaid`), the acknowledgements given since a run last read
(`ackedSince`), and whether nobody patched the incident since a run last decided on
it, with no failed run since (`settled`).

**Actions.** `TryStart`, `LockGranted`, `LockRefused`, `LockUnknown` (the code
runs unguarded when Postgres cannot be asked), `BeginRun` (the transaction of
the lock ends there, before the body), `EndRun` inside the steps that end a
body. A run is `ReadAlerts` (one query, everything is decided from it),
`WriteAlert` per row, `AllWritten`, `Send`, and the correlation, one action per
query that is awaited: `CorrelateRead` counts, `UpsertIncident` and `LinkAlerts`
follow where enough kinds are active, `FindIncidents` looks for the incidents that
are, and `CloseIncident` resolves one the run did not correlate;
`Abort` is any query that throws, `Crash` the death of a process. `AckAlert`
and `PatchIncident` are operators' requests, possible between any two of these.
`reconcile()` is the operators `Escalates`, `CooldownElapsed`, `IsStale`,
`Notifies`, `Reconciled`, one for each decision of `dedup.ts`.

**What is abstracted.** What detectors find is a free choice per kind and run.
Severities are the two that differ in behaviour. One device: rows of different
devices share nothing but the message, and an incident belongs to one device.

## The spool directory and the replay of dead letters

**State.** `lock` is the file: absent, created and still blank, or full; whose it
is, how old its heartbeat is, and whether that process has died. `pc`, `tries`,
`holds` and `beats` are the locals of each process. `gap` is a history: it becomes
true at each step where the file stops protecting an owner that lives. `data`,
`offsetFile` and `dlq` are the three files of the directory, `stored` the table.
`view` is what each process knows of the spool on its own: the size and the
offset it read when it was given the directory and has counted since, its
descriptor (`fd`: none, on the file that is there, or on one that was renamed away
under it), where its `rotate()` is, and the line of its pass. `replay` holds the
locals of a replay. Two histories say what `DeadLettersKept` does not claim: `atRisk`
and `shared`.

**Actions.** Every file operation is a step: `Create` (flag `wx`), `Fill`,
`Exists`, `Refuse`, `JudgeGone`, `Evict`, `Beat`, `Truncate`, `Rewrite`, `Close`,
`Rotate` and their `Unlink`. The worker's pass is `ReadLine`, the insert (`Store`,
`DeadLetter` or `Defer`) and `Commit`; a rotation, of either, is `Rename`,
`CloseOnRotate` (the lock goes here) and `EndRotation`. The replay is `ReadRecords`, the claim of the
directory, `Requeue` or `RefuseEvent` per event, `AllRequeued` or `RequeueThrows`, and the rewrite
in its two halves `TruncateDlq` and `WriteDlq`. `Die`, `DiesInWrite` and `DiesInRewrite` are
deaths.

**The gaps** (`gap`) are read from the code and are what `OneOwnerUnlessGap`
excepts: a rotation (the lock is removed and the process goes on writing,
which `spool_one_owner` shows by itself); a file read between `truncate` and
write of a heartbeat, or between creation and content; an owner in another
container whose heartbeats are late; the file removed or overwritten after it changed hands since
it was judged. Everything else, restarts with a recycled pid, takeovers from the dead,
closing, crashes anywhere, is shown to keep two processes apart.

**What `DeadLettersKept` does not claim.** Of the events in `atRisk` it says
nothing, and each gets there by itself, at the step that may lose it: the worker
dead-letters it while a replay is under way, whose rewrite works from what it read
before; the spool refuses it at its size limit (it is counted, and the rewrite
removes it all the same); a replay reads the file while another rewrite has it in
its hands, or dies in the rewrite with it; it is put back behind a fragment, or
behind an offset of an earlier file that a death in a rotation left. An event that is
stored leaves `atRisk`. Once two processes have used the directory at once
(`shared`) nothing is claimed at all: after a rotation, which gives the lock away,
a worker goes on with its old size and offset, and its next commit and rotation may take
lines away that a replay has just put back. When two processes can be there is what
`OneOwnerUnlessGap` and `spool_one_owner` say. What is claimed is the rest: replays that
overlap, throw, or die between any two steps, before, after and between the passes,
restarts and rotations of a worker.

**What is abstracted.** Pids and start times are whether two processes share a
process table and whether the process of the file lives. Sizes, offsets and limits count
lines, and a pass of the worker takes one line; batches, and the crashes inside the
worker's own writes and commits, are `DurableSpool` and `EventDrainer`. The worker appends
nothing here: what it receives meanwhile is the subject of those modules.

## A turn of the chat

**State.** `circuit` and the call of each request in `laya`; `env`, the settings
of the process (mode, fail-open, and `half`, which of the two thresholds 0.5
reaches; nothing in `laya-shadow.ts:253-254` keeps the low one under the high one, so
any subset is possible, as it is for the confidence of an answer); `turn`, one record per followed request: stage, gate,
policy of the tenant, route, budget, calls made, the codes of the verdicts so
far, the reply, and the rows it has stored.

**Actions.** `Begin`, `Consult` and `Consulted` (the breaker is asked, the answer
or the failure comes later), `PlanRoute` or `FailClosed`, then `DirectTool`, or a
loop of `LlmAnswers`, `LlmCallsTools`, `LimitReached`, `LlmFails`; `Finalized` is
the gate every exit goes through. `AuditWarning`, `StoreMessage`, `StoreLogs` and
`Reply` are the writes in the order of the route, `WriteFails` an exception in any
of them. `Elsewhere` is another request of the process that only touches the
circuit.

**What is abstracted.** A tool result is the code of its verdict; the text of an
answer is whether it came from the model, the limit or the gate. Sessions, quota
and the choice of the connector come before the turn. The adaptive router is a
free choice: what it does with a message is a set of regular expressions.

## Runs

Twelve runs; four of them end in a violation and are the
[findings](#where-the-code-and-its-comments-part).

| run | checks | shows |
|---|---|---|
| `drain_safe` | `JobTypeOK`, `NoEventLost`, `BacklogIsWhatWaits`, `OnlyUnstorableDeadLettered`, `QueueSpec`, `AcceptedIsResolved` | one drain job at a time, an outage, a lost answer, a rejected row, and a crash anywhere but inside a write or a rotation: nothing is lost, the backlog is exact, the path implements the abstract queue, only an unstorable event becomes a dead letter, and an outage is a delay, even across a restart |
| `drain_one_crash` | `LossBoundedByCrashes` | with every crash point and every failure of the store, one crash costs at most one accepted event |
| `timer_poison` | `NoEventLost`, `PoisonDoesNotBlock` | on the timer of `start()`, where attempt counters outlive a pass, an event with an unknown error ends in the dead letter and the others get through |
| `investigation_race` | `TypeOK`, `OneRunPerIncident`, `ReadyHasItsVersion`, `NoOrphanResult`, `ToldFailedIsFinal`, `JobClosesItsAttempt`, `LifecycleSpec` | two requests, two executors, two attempts, retries, reads that throw, lost commits, closings that fail, stalls and the TTL expiring under a running attempt |
| `investigation_ends` | `PendingEnds` | whoever dies, the attempt leaves `pending` |
| `alerts` | `TypeOK`, `SingleFlight`, `EveryOpenAlertWasTold`, `IncidentIsBacked`, `ResolvedOnlyWhenStale`, `CooldownRespected`, `AckUndoneOnlyWithinRun` | two ticks of one worker over two kinds of alert, an operator acting between any two steps, messages and queries that fail, the process dying anywhere |
| `replay` | `TypeOK`, `OneOwnerUnlessGap`, `DeadLettersKept`, `NextBootIsNotBlocked` | a worker and a replay in containers of their own, each with its own size and offset; a death anywhere, rotations, a full spool and a throwing write |
| `chat` | `TypeOK`, `ProbesAreSpaced`, `IncompleteNeverAnswered`, `CandidateIsClean`, `SuspicionComesFirst`, `BudgetKept`, `LayaOnlyAdvises`, `TurnEnds` | one turn through every mode, gate and policy while another request trips and closes the circuit |
| `drain_two_jobs` | `NoEventLost` violated | two drain jobs of one process commit over each other's rotation |
| `drain_poison` | `PoisonDoesNotBlock` violated | each job builds a new drainer, so the attempts never reach their limit in the worker |
| `investigation_collision` | `CurrentResultIsKept` violated | a late attempt takes the version index of the current one, whose paid result is lost |
| `spool_one_owner` | `OneOwner` violated | a worker that rotates its spool has no lock any more, and the next process takes the directory |

`CHECK_DEADLOCK FALSE` is set where the bounded system really stops: all attempts
are claimed and closed (`investigation_*`), the clock and the ticks are used up
(`alerts`), every process is out and no crash is left (`replay`,
`spool_one_owner`). The ingest and chat runs check for deadlock.

### Bounds

- *Ingest: events 3-4, `BatchSize` 2, `HardMax` 4-5, `RotateAt` 2.* Enough for a
  full batch, a short batch, an event appended while a batch is awaited, a
  rotation by `commit` and one by `append`, a refused append, and a batch whose
  first event, second event or neither is bad.
- *`MaxAttempts` 2* (`maxUnclassifiedAttempts`) separates "counts" from "gives
  up at once"; *`MaxBatches` 2* separates a loop that ends because it is done
  from one that ends at its limit.
- *`MaxCrashes` 1.* One crash reaches every window once. `drain_one_crash` is a
  statement about one crash: a second one can turn the offset left by the first
  into a larger gap.
- *Investigations: two requests, two executors, two attempts, `MaxTries` 2 or 3,
  one stall.* Two attempts are what every race between an old attempt and a new
  one needs; `MaxTries` 2 has a first and a last try; the real value is 3.
  `investigation_ends` uses one request and one executor and more faults, since
  liveness is checked without symmetry.
- *Alerts: one process, two ticks, two kinds, `MaxTime` 2, the three durations
  1.* Two ticks are what overlap needs; two kinds make an incident with
  `MinKinds` 2 and lose it; with durations of one, instant 0 opens an alert, 1
  finds it at every boundary, and 2 is past it. What longer durations could
  change, a cooldown that outlives a resolution, is the hypothesis of
  `CooldownIsKept`.
- *Replay: one worker, one replay, two events of two tenants, `RotateAt` 1,
  `HardMax` 2, `Stale` 1, one crash.* Selections of none, one and both; every drained
  file is rotated, and the second requeue may find the spool full. Two deaths and
  replays that overlap are covered by the proof only, not by the run.
- *Chat: one followed turn and one other request, three codes (`ok`, `stale`,
  `incomplete`), `MaxIterations` 3, `Threshold` 2, `Reset` 2.* Three iterations
  are more than assisted has, so the budgets of the routes differ; a threshold
  of two separates a failure that counts from one that opens the circuit.

### Fairness

- Ingest: the supervisor restarts a dead worker (`Reboot`), and a job always
  comes and runs its steps (`JobStep`): besides the job each receiver enqueues,
  `INGEST_DRAIN_LOOP` enqueues one every 30 s
  (`services/worker/src/schedules.ts:177-195`). An insert is answered or times
  out. Nothing is assumed of Postgres: the liveness properties say "if Postgres
  stays up from some point on". Receivers are under no obligation to send.
- Timer: the same, with the backoff ending instead of jobs coming.
- Investigations: only time (`TtlPasses`) and the sweep, which
  `INVESTIGATION_SWEEP_LOOP` enqueues every 60 s
  (`schedules.ts:197-213`). Requests and executors may stop anywhere for ever.
- Replay: a process that was started goes on opening the directory, which is
  synchronous code; the supervisor starts the worker again; time passes.
  `NextBootIsNotBlocked` is about a process left alone, whatever file it finds.
- Chat: weak fairness of each followed turn. The call of Laya has a timeout up to
  the headers of the answer (`laya-client.ts:395` clears it before the body is read;
  from there only the limits of `fetch` itself end it), calls of the model and writes
  end in a result or an error.
- Alerts: none; nothing there is promised to happen in the end.

### Mutants

`PROJECT.json` names one mutant for each property of each passing run: a
definition of the model replaced by a form that a plausible bug in the code would
have (the flag claimed after the lock is awaited, `lastNotifiedAt` kept by an
update, a limit text past the gate, a pid looked up without its start time, an end of batch taken
for the end of the file). TLC finds each property violated under its mutant, so
none of them holds whatever the code does. The mutated forms stand beside the
definitions they replace and are used by nothing else.

## What is proved

Thirty-eight theorems, each for every value of the constants of its module. Their
only assumptions about the constants are the named `...Assumption`s of the
modules, which type them and give each drain job a drainer of its own, as
`drainSpool()` does, and what the theorem itself assumes. Every property of a
passing run that is no liveness property is proved, and so is what one violation
run leaves open: when `CurrentResultIsKept` does hold (`ResultsAreKept`).

### The ingest path

| theorem | says | assumes |
|---|---|---|
| `JobTypeCorrect`, `TimerTypeCorrect` | `[]JobTypeOK`, `[]DrainTypeOK` | - |
| `NoEventIsLost`, `TimerLosesNoEvent` | `[]NoEventLost` | `SafeDeployment` |
| `CrashesLoseOneEach`, `TimerLosesOnePerCrash` | `[]LossBoundedByCrashes` | `CountedDeployment` |
| `ImplementsQueue`, `TimerImplementsQueue` | `QueueSpec` | `SafeDeployment` |
| `BacklogIsExact`, `TimerBacklogIsExact` | `[]BacklogIsWhatWaits` | `SafeDeployment` |
| `OnlyUnstorableDie`, `TimerOnlyUnstorableDie` | `[]OnlyUnstorableDeadLettered` | the schema does not disappear (`"unmigrated" \notin StoreStates`) |
| `ResolvedOnce` | `[](stored \cap dlq = {})` | the same |

The first theorem of each pair is about `Spec` of `DrainSpool`, the job; the
`Timer...` one about `TimerSpec` of `EventDrainer`, the timer of `start()`, whose
passes share one drainer. The invariants and their step lemmas are stated for
`[TimerNext]_drainVars`. `JobStepIsDrainerStep` shows that a step of the job is one of
those or `StartJob`, so that each proof about jobs adds only that action.

`SafeDeployment` is one drain job at a time and no crash inside a write or a
rotation; crashes elsewhere, any number of them, any failure of the store, any
batch size and any file limits are allowed. Each part is needed:
without it `NoEventLost` fails. `drain_two_jobs` shows it for two jobs. For a crash
inside a write, add `"append"` to the `CrashPoints` of `drain_safe.cfg`: the next
line is glued to the fragment and lost with it. For a rotation, add `"rotate"`
and set `MaxCrashes` to 2: the offset of the old file becomes valid in the new
one. `OnlyUnstorableDie` and `ResolvedOnce` hold whatever the
deployment, with any number of jobs and any crash.

`CountedDeployment` is one drain job at a time and, if a crash may hit a rotation, no
other crash in the model. Crashes inside a write, a commit or the one-by-one
phase may be as many as one likes. The second part is needed for the same reason as above:
the offset a crash leaves in a rotation is trusted by the next restart, and may
then skip any number of events.

Type correctness needs facts a type invariant usually does not: that the cells
of a range are finitely many (for the backlog count) and that `nextOffset` is an
offset.

`NoEventLost` is not inductive, since a pass that will commit past an event says
nothing of that event while it waits. `SafeInv` adds what makes a commit safe:

- `DiskInv`: without fragments on disk the offset in memory and the one in the
  file agree, neither points past the file, and an accepted event is resolved or
  sits behind the offset;
- `BatchInv`: what a pass holds is exactly the cells between the committed
  offset and its `next`, even after appends, and they are all rows once the
  insert has answered;
- `ProbeInv`: the same in the one-by-one phase, where an event whose insert
  answered `Ok` is a row.

`SafeStep` goes through the actions of `Next`, one lemma each; the lemma
`SettledResolved` shows that a settled prefix consists of rows and dead letters
only, and so that the commit after it loses nothing.

`CrashesLoseOneEach` cannot rest on `SafeInv`, which says little once a fragment
is on disk. `LossInv` follows the fragments instead:

- `CountInv`: the losses so far, and one more for a fragment at the end of the file
  (`Unpaid`), are at most the crashes. The crash that leaves a fragment pays for the
  event that will be glued to it, so the append that loses this event adds a
  loss and removes the debt;
- `PositionInv`: the reader starts at the beginning of a line, never behind a
  fragment, and where `events.offset` says as long as another crash is possible;
- `HoldsInv`: a pass holds readable lines from the committed offset on without a gap
  (`ReadsInv`), ends at the end of a line (`ReachesInv`), and what it saw stored
  is stored (`SeenInv`). So a commit never passes a line that was neither read nor
  part of a loss.

TLC found `LossInv` invariant before it was proved: with the constants of
`drain_one_crash`, and with three crashes, three events and `HardMax` 6 without
`"rotate"`.

`ImplementsQueue` rests on the invariant of `NoEventIsLost`. Under the mapping of `Queue` a step
appends one event, makes rows, writes dead letters or is a stutter; `AcceptedInv`
adds that an event is in the file only if it was accepted, so what is resolved had
been waiting. `BacklogIsExact` needs `PendingInv`: the counter that `append` and
`commit` keep is the number of lines behind the offset, which a restart counts
anew and every commit lowers by what it passes. `OnlyUnstorableDie` needs
`OutcomeInv`: an answer held for a single event tells the truth about that
event, so a dead letter written at the end of the phase, long after the answer,
still does. `DeadInv` adds that what the store would refuse is never a row. From the
two follows `ResolvedOnce`: an insert that was applied and whose answer was lost
never ends as a dead letter as well, whichever job tries it again.

### Investigations

| theorem | says | assumes |
|---|---|---|
| `TypeCorrect` | `Spec => []TypeOK` | - |
| `OneRun` | `Spec => []OneRunPerIncident` | - |
| `ImplementsLifecycle` | `Spec => LifecycleSpec` | - |
| `ResultAndRunAgree` | `Spec => [](ReadyHasItsVersion /\ NoOrphanResult)` | - |
| `NoResultIsOrphaned` | `Spec => []NoOrphanResult` | - |
| `FailureIsFinal` | `Spec => []ToldFailedIsFinal` | `"unanswered" \notin Faults` |
| `JobsCloseTheirAttempts` | `Spec => []JobClosesItsAttempt` | - |
| `ResultsAreKept` | `Spec => []CurrentResultIsKept` | `OneExecutor`, and none of `"unanswered"`, `"commit"`, `"death"` in `Faults` |

Any number of requests, executors, attempts, tries and stalls, and any faults,
but for the last column. `FailureIsFinal` is false with `unanswered`: the
worker may finish the job the request believes was refused.
`JobsCloseTheirAttempts` needs nothing of the faults, because `JobClosesItsAttempt`
names the two ways left in which a job is given up before its run is closed: it stalled
too often, or its last try threw, in one of the two reads outside the `try`
(`execute.ts:100`, `:110`) or in the transaction that closes with a failure. Then the
sweep has to expire the run.

`IInv` is the inductive invariant behind all of them. `RunInv` has at most one
row, naming the last attempt claimed. It is not inductive alone: a claim that
read "no row" would add a second. `ClaimInv` says that a request between the read
and the write of its claim holds the advisory lock and that what it read still
decides, since only the holder can start an attempt and every other transaction
can only close one. `AttemptInv` says that nothing exists of an attempt nobody
claimed, so a new one meets no old job, answer or version. `JobInv` bounds the
tries of a job that may run again, which types `made` when a handler throws, and
says that an attempt is enqueued by the one request that claimed it and executed
only after that.

`LifeStep` maps every step to one of `InvestigationLifecycle` (`Start`,
`Succeed`, `GiveUp`, `KeepLate`) or a stutter, and the agreement of results and
run (`ResultInv`) is then proved of the abstract steps alone. `ToldInv`, for
`FailureIsFinal`, says that an attempt a request gave up was never in the queue,
and that a run whose attempt never was cannot be ready. `JobsCloseInv`, for
`JobsCloseTheirAttempts`, says that a handler ends the job of the attempt the
run waits for only by closing the run, unless it throws.

`ResultsAreKept` delimits the finding of `investigation_collision`: with two
executors and no fault at all, a paid result is lost. With one (one worker, with
the default `WORKER_CONCURRENCY` of 1) it is not, as long as that worker does not die, no
transaction is lost around its commit and no job is taken unnoticed. Each of
these is needed: with one executor, TLC finds the violation for `unanswered`, for
`commit` and for `death` alone. What else may happen (refused jobs,
throwing reads and pipelines, requests that die, stalls, the TTL expiring under a running
attempt, a failing close) does no harm. `KeepInv` says where a result is: a run that failed has none,
and a pending run whose attempt has one is in the hands of an executor that is
saving it, is the first to do so, and has an index above those of all versions. It was
checked with up to three attempts (9.2 million states) before it was proved.

### Detection runs, alerts and incidents

| theorem | says | assumes |
|---|---|---|
| `TypeCorrect` | `Spec => []TypeOK` | - |
| `OneFlightPerProcess` | `Spec => []SingleFlight` | - |
| `OnlyTheStaleIsResolved` | `Spec => ResolvedOnlyWhenStale` | `OneProcess` |
| `AckSurvivesTheNextRun` | `Spec => AckUndoneOnlyWithinRun` | `OneProcess` |
| `OperatorsAreTold` | `Spec => []EveryOpenAlertWasTold` | `OneProcess` |
| `IncidentsAreBacked` | `Spec => []IncidentIsBacked` | `OneProcess` |
| `CooldownIsKept` | `Spec => CooldownRespected` | `OneProcess`, `Cooldown <= ResolveAfter` |

`OneProcess` says that all ticks of the loop are delivered to one process. It is
needed: the advisory lock protects no run (its transaction ends before the
body), so with two processes two runs overlap and each of the five statements
fails. The defaults of the code, one hour and 24 hours (`scheduler.ts:256-257`),
satisfy `Cooldown <= ResolveAfter`. With a longer cooldown an alert resolved and
found again is new, and is announced at once.

`SingleFlight` alone is not inductive: `Flight` adds that the flag is up whenever
a tick of its process is past `idle`. For the rest, `RunsOK` says of a run what it
decided (`Decided`: the row it will write still agrees with the row it read,
but for an acknowledgement given since) and what it wrote and has not sent yet
(`Written`). `ToldOK` extends `EveryOpenAlertWasTold` to acknowledged alerts,
which may be reopened by the run that had read them. `IncidentOK` adds that what `CorrelateRead`
counted still holds through the four queries behind it, since only runs change which
alerts are active; what an operator patches between them is patched after the decision
(the upsert) or before the read that decides anew (`FindIncidents`), and `settled` tells
the two apart.
`SpacedOK` relates the last message of a kind to the instants in its row, past a
resolution.

### The spool directory and the replay of dead letters

| theorem | says | assumes |
|---|---|---|
| `TypeCorrect` | `Spec => []TypeOK` | - |
| `OneProcessOwnsTheDirectory` | `Spec => []OneOwnerUnlessGap` | - |
| `NoDeadLetterIsLost` | `Spec => []DeadLettersKept` | - |

For any number of processes, containers, events and crashes. `Held`: without a
gap, the file names whoever uses the directory or is about to fill or rewrite
the file, and shows it alive; two such processes are one.

`Kept` is the invariant of `NoDeadLetterIsLost`. `Places`: what each
process knows of the spool has the shape of its phase. The rest is under `~shared`:

- `Alone`: one process at most has the directory open;
- `Synced`: its size is that of the file, its offset not past the one on disk, its
  descriptor on the file that is there, and the line of its pass the first readable one
  behind its offset; when a rotation is due it has consumed every line, and once the
  file is renamed nothing waits in the new one;
- `Handled`: when a pass is done, its line is a row or rests where it is safe, so that
  the commit passes nothing else;
- `Accounted`: an event that is not at risk, waits nowhere and is no row, is in the
  dead-letter file or in a rewrite's hands, and every replay under way still has it
  to requeue or keeps it (`Resting`); so a rewrite drops nothing.

### A turn of the chat

| theorem | says | assumes |
|---|---|---|
| `TypeCorrect` | `Spec => []TypeOK` | - |
| `CircuitIsProbedInTime` | `Spec => []ProbesAreSpaced` | - |
| `IncompleteIsNeverAnswered` | `Spec => []IncompleteNeverAnswered` | - |
| `CandidatesAreClean` | `Spec => []CandidateIsClean` | - |
| `SuspicionIsFirst` | `Spec => []SuspicionComesFirst` | - |
| `BudgetIsKept` | `Spec => []BudgetKept` | - |
| `LayaAdvises` | `Spec => LayaOnlyAdvises` | - |

For any number of requests, any threshold, reset, budget, set of codes and
policies. `IInv` joins the circuit's own invariant with `TurnInv` of each turn:
`SpendInv` (the budget of a running turn is that of its final route, and what it
spent is within it), `GateInv` (the gate decided on the verdicts the turn still
has, and remembers that it is to warn), `RowInv` (each row is there once its
stage is passed and not before). A step changes one turn and at most the circuit,
so the lemmas `TurnAlone` and `CircuitAlone` carry everything else over.

### Only model-checked

Liveness under fairness (`AcceptedIsResolved`, `PoisonDoesNotBlock`,
`PendingEnds`, `NextBootIsNotBlocked`, `TurnEnds`), which is out of the prover's
reach, as is `ENABLED`, and what the violation runs refute.

## Where the code and its comments part

The four violation runs each check one sentence of a comment or a document;
`PROJECT.json` quotes it. The following need no run of their own. Where an
operator states the sentence, it stands at the end of its module, and adding it to the
cfg of that module's run shows the trace.

Ingest:

- `drainSpool()` ends its loop on a pass that failed and returns; the handler then completes
  the job although events are left behind (`FailedPassFailsTheJob`, with an `Odd`
  event).
- `stats().backlog` counts a fragment at the end of the file as a record
  (`spool.ts:745-746`), so after a crash inside a write the backlog is one too high
  until the file is drained.
- A schema that disappears in the middle of the one-by-one phase
  (`drainer.ts:262`), after one event was stored, sends the rest to the dead
  letter, against `errors.ts:49-51`. `drain_safe` therefore has no migration
  among its store states.
- A pass that only quarantined events ends the job with events still readable
  (`ingest.ts:154`); the comment at `ingest.ts:121-122` has it drain until empty. The
  next periodic job continues.
- The `draining` flag goes down before the one-by-one phase ends
  (`drainer.ts:163`, a returned promise that is not awaited inside the `try`),
  so two ticks of one drainer can overlap, against `drainer.ts:58`. With a second tick
  and an event the store rejects, `NoEventLost` fails in `timer_poison`: the tick left
  behind commits its place in a file the other has rotated. Nothing in
  production starts that timer, and the run has one tick at a time.

Investigations:

- The latest version of a run is the one inserted last, not the one of the
  latest attempt (`investigation-store.ts:187`), so a late attempt can be what a ready run
  serves.
- When the enqueue fails after Redis took the job, the route answers that the
  attempt could not be started and closes it, and the worker may still finish it
  first. `ToldFailedIsFinal` is checked and proved without that fault
  (`unanswered`), and only without it.
- `registry.ts:80-86` says that "only a `retry` outcome throws". The reads of `execute.ts:100` and `:110` are outside the
  `try`, and `failInvestigation` may itself throw (`:106`, `:116`, `:153`): on the last
  try the job is failed and the run stays pending until the sweep.
- A stalled job runs the pipeline a second time, against the comment at
  `apps/web/app/api/incidents/[id]/investigate/route.ts:89`.

Scheduler and alerts:

- `scheduler.ts:146` says of the advisory lock that "only one instance across the
  whole fleet may run a given loop". The transaction that holds it commits
  before the loop starts (`OneRunInTheFleet`, with two instances).
- `dedup.ts:54` says that an acknowledgement "is never lost". The run that had
  read the alert as open writes it back as open (`AckNeverLost`).
  `AckUndoneOnlyWithinRun` is what does hold.

Spool directory and replay (besides `spool_one_owner`):

- `dead-letter-replay.ts:19-22` takes out of the dead-letter file what was
  recovered, and a test has it leave there what was not
  (`packages/ingest/tests/dead-letter-replay.test.ts:79`). An event the spool refuses at its size limit
  is taken out as well: the rewrite removes what was selected (`:163`).

Chat and Laya:

- `chat/route.ts:447-448` has the response "always return 200 once
  `prisma.message.create` has succeeded". The action log and the candidate are
  written after it without a guard, and a failure there is an error
  (`StoredIsAnswered`).
- The text that says the limit of iterations was reached may be stored as a
  candidate for the knowledge base (`CandidateIsAnAnswer`), since the gate only asks
  for verdicts.
- `laya-client.ts:197` has the half-open circuit "allow one request through"; it
  lets every request through until one of them ends.
- The confidence of a suggested route is the constant 0.5
  (`laya-client.ts:478`), so with the default thresholds mode `automatic` never
  follows Laya.
- A tenant policy that cannot be read counts as none
  (`apps/web/lib/policies/load-tenant-policy.ts:92-94`), which switches an
  override of the gate off for that turn. In the model a turn begins with the
  policy that was read.

## Not modelled

Receivers' decoding, connectors, SNMP tables and the UI are I/O or presentation;
detection, analytics, evidence scoring and evaluation are pure functions over
floating-point series; auth is a library behind request-local checks; the schema
and the API contract are declarations, of which the unique keys the modules
depend on are modelled as guards. These, the generated code and the scripts are
most of the lines of the repository, which is why the share of lines that are
modelled is small although most of the code that coordinates processes is
covered. Promotion of candidates is left out because nothing reaches it: the chat is the only
writer of candidates and gives none a `sourceIncidentId`, without which
`promote-pending-incidents.ts:103` rejects them all.

## Plan

1. **`SecurityNotices`** over `SchedulerLoops`: the cooldown cache of
   `packages/soc/src/notification-deduper.ts` is checked before a send is awaited
   and written after it, with the instant taken before; two channels, a failing
   send, a restart that empties the cache.
2. **`WorkerShutdown`**: the grace period of `services/worker`, jobs under way,
   and the spool that is closed under them.
3. **`DurableSpool` under `SpoolOwnership`**: `DeadLetterReplay` has the offsets of a
   second owner, but not the batches, the receivers and the crash windows of
   `DurableSpool`.
4. **`LearningSnapshot`** and the quota: one transaction each, worth it once
   anything writes around them.
