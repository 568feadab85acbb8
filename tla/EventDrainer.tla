---------------------------- MODULE EventDrainer ----------------------------
(***************************************************************************)
(* packages/ingest/src/drainer.ts: one pass of drainOnce() moves a batch   *)
(* from the spool into Postgres.  A pass is an asynchronous call: what it  *)
(* does between two awaits is one step here, and other passes, the         *)
(* receivers and a crash may run between its steps.                        *)
(*                                                                         *)
(* Passes that share an EventDrainer share its draining flag, its backoff  *)
(* and its attempt counters (DrainerOf).                                   *)
(***************************************************************************)
EXTENDS DurableSpool, WriteErrors

CONSTANTS
    Passes,      \* calls of drainOnce that may be in flight
    Drainers,    \* EventDrainer instances
    DrainerOf,   \* the instance each pass runs on
    BatchSize,   \* batchSize
    MaxAttempts, \* maxUnclassifiedAttempts
    Unstorable,  \* events whose data the schema rejects
    Odd,         \* events the store rejects with a code nobody recognises
    StoreStates  \* what may become of Postgres

ASSUME DrainerAssumption ==
    /\ DrainerOf \in [Passes -> Drainers]
    /\ BatchSize \in Nat \ {0} /\ MaxAttempts \in Nat \ {0}
    /\ Unstorable \subseteq Events /\ Odd \subseteq Events
    /\ Unstorable \cap Odd = {}
    /\ StoreStates \subseteq {"up", "down", "flaky", "unmigrated"}
    /\ "up" \in StoreStates

VARIABLES
    pc,       \* where each pass waits: "idle", "batch" or "probe"
    entries,  \* what it read: event under the offset that follows it
    next,     \* nextOffset of that read
    reply,    \* answer to the batch insert
    outcome,  \* answers to the inserts of one event each
    result,   \* what its last drainOnce() resolved to
    draining, backoff, attempts,  \* fields of each EventDrainer
    store,    \* state of Postgres
    stored    \* the ingestIds of the rows of DeviceEvent

passVars == <<pc, entries, next, reply, outcome, result>>
drainerVars == <<draining, backoff, attempts>>
storeVars == <<store, stored>>
drainVars == <<spoolVars, passVars, drainerVars, storeVars>>

-----------------------------------------------------------------------------
(* Postgres, as writeBatch (createMany with skipDuplicates) sees it *)

Ok == Code("ok", "ok", FALSE)
NoReply == Code("", "", FALSE)
Refused == Code("ECONNREFUSED", "EC", FALSE)
Reset == Code("ECONNRESET", "EC", FALSE)
NoTable == Code("P2021", "P2", TRUE)
BadRow == Code("P2003", "P2", TRUE)
Unlisted == Code("P2034", "P2", TRUE)

\* The insert of the events of w answers r: all rows or none are written, and
\* a flaky store may write them and lose the answer.
write(w, r) ==
    \/ /\ store = "up" /\ w \cap (Unstorable \cup Odd) = {}
       /\ r = Ok /\ stored' = stored \cup w
    \/ /\ store = "flaky" /\ w \cap (Unstorable \cup Odd) = {}
       /\ r = Reset /\ stored' = stored \cup w
    \/ /\ store \in {"up", "flaky"} /\ w \cap Unstorable # {}
       /\ r = BadRow /\ UNCHANGED stored
    \/ /\ store \in {"up", "flaky"} /\ w \cap Odd # {}
       /\ r = Unlisted /\ UNCHANGED stored
    \/ store = "down" /\ r = Refused /\ UNCHANGED stored
    \/ store = "unmigrated" /\ r = NoTable /\ UNCHANGED stored

Replies == {Ok, Refused, Reset, NoTable, BadRow, Unlisted}

StoreChanges ==
    /\ \E s \in StoreStates \ {store} : store' = s
    /\ UNCHANGED <<spoolVars, passVars, drainerVars, stored>>

-----------------------------------------------------------------------------
(* drainOnce *)

\* The part before the first await: the guards, the read, the draining flag.
BeginPass(p) ==
    LET d == DrainerOf[p] IN
    /\ up /\ pc[p] = "idle"
    /\ ~draining[d] /\ ~backoff[d]
    /\ FirstLines(BatchSize) # {}
    /\ pc' = [pc EXCEPT ![p] = "batch"]
    /\ entries' = [entries EXCEPT ![p] = BatchEntries(BatchSize)]
    /\ \E n \in 0..Len(data) :
          IsNextOffset(n, BatchSize) /\ next' = [next EXCEPT ![p] = n]
    /\ reply' = [reply EXCEPT ![p] = NoReply]
    /\ draining' = [draining EXCEPT ![d] = TRUE]
    /\ UNCHANGED <<spoolVars, storeVars, outcome, result, backoff, attempts>>

EmptyPass(p) ==
    LET d == DrainerOf[p] IN
    /\ up /\ pc[p] = "idle"
    /\ ~draining[d] /\ ~backoff[d]
    /\ FirstLines(BatchSize) = {}
    /\ result' = [result EXCEPT ![p] = "nothing"]
    /\ UNCHANGED <<spoolVars, storeVars, drainerVars,
                   pc, entries, next, reply, outcome>>

Batch(p) == {entries[p][i] : i \in DOMAIN entries[p]}

\* Postgres handles the insert of the whole batch; the pass still awaits.
StoreHandlesBatch(p) ==
    /\ pc[p] = "batch" /\ reply[p] = NoReply
    /\ \E r \in Replies :
          /\ write(Batch(p), r)
          /\ reply' = [reply EXCEPT ![p] = r]
    /\ UNCHANGED <<spoolVars, drainerVars, store,
                   pc, entries, next, outcome, result>>

\* The pass p resolves to res and forgets what it read.
Ends(p, res) ==
    /\ pc' = [pc EXCEPT ![p] = "idle"]
    /\ entries' = [entries EXCEPT ![p] = <<>>]
    /\ next' = [next EXCEPT ![p] = 0]
    /\ reply' = [reply EXCEPT ![p] = NoReply]
    /\ outcome' = [outcome EXCEPT ![p] = <<>>]
    /\ result' = [result EXCEPT ![p] = res]

BatchStored(p) ==
    /\ pc[p] = "batch" /\ reply[p] = Ok
    /\ commit(next[p], Cardinality(DOMAIN entries[p]))
    /\ Ends(p, "drained")
    /\ draining' = [draining EXCEPT ![DrainerOf[p]] = FALSE]
    /\ UNCHANGED <<dlq, up, accepted, crashes, backoff, attempts, storeVars>>

Answered(p) == reply[p] # NoReply /\ reply[p] # Ok

\* A drainer that retries every rejection as an outage.
AnyRejectionIsOutage(code) == TRUE

Outage(code) ==
    LET why == classifyWriteErrorDetailed(code)
    IN  why.class = "transient" /\ why.recognized

BatchUnavailable(p) ==
    /\ pc[p] = "batch" /\ Answered(p) /\ Outage(reply[p])
    /\ Ends(p, "failed")
    /\ draining' = [draining EXCEPT ![DrainerOf[p]] = FALSE]
    /\ backoff' = [backoff EXCEPT ![DrainerOf[p]] = TRUE]
    /\ UNCHANGED <<spoolVars, attempts, storeVars>>

\* Any other rejection: resolveOneByOne re-reads as many entries and tries
\* them one at a time.  Its promise is returned, not awaited, so the finally
\* block of drainOnce lowers the draining flag now.
BatchRejected(p) ==
    LET remaining == Cardinality(DOMAIN entries[p]) IN
    /\ pc[p] = "batch" /\ Answered(p) /\ ~Outage(reply[p])
    /\ draining' = [draining EXCEPT ![DrainerOf[p]] = FALSE]
    /\ \/ /\ FirstLines(remaining) # {}
          /\ pc' = [pc EXCEPT ![p] = "probe"]
          /\ entries' = [entries EXCEPT ![p] = BatchEntries(remaining)]
          /\ next' = [next EXCEPT ![p] = 0]
          /\ reply' = [reply EXCEPT ![p] = NoReply]
          /\ UNCHANGED <<outcome, result>>
       \/ FirstLines(remaining) = {} /\ Ends(p, "nothing")
    /\ UNCHANGED <<spoolVars, backoff, attempts, storeVars>>

-----------------------------------------------------------------------------
(* resolveOneByOne, phase 1: every entry alone, nothing committed *)

Untried(p) == DOMAIN entries[p] \ DOMAIN outcome[p]

Probe(p) ==
    /\ pc[p] = "probe"
    /\ \E i \in Untried(p) :
          /\ \A k \in Untried(p) : i <= k
          /\ \E r \in Replies :
                /\ write({entries[p][i]}, r)
                /\ outcome' = [outcome EXCEPT ![p] =
                      [k \in DOMAIN outcome[p] \cup {i} |->
                          IF k = i THEN r ELSE outcome[p][k]]]
                /\ attempts' = IF r = Ok
                     THEN [attempts EXCEPT ![DrainerOf[p]][entries[p][i]] = 0]
                     ELSE attempts
    /\ UNCHANGED <<spoolVars, store, pc, entries, next, reply, result,
                   draining, backoff>>

-----------------------------------------------------------------------------
(* resolveOneByOne, phase 2: decide in order, commit one by one *)

Why(p, i) == classifyWriteErrorDetailed(outcome[p][i])
Failures(p) == {i \in DOMAIN entries[p] : outcome[p][i] # Ok}
StoredInPass(p) == DOMAIN entries[p] \ Failures(p)

\* Rule 1: nothing was stored, nothing blames an event, one single code.
AllFailedAlike(p) ==
    /\ StoredInPass(p) = {}
    /\ \A i \in Failures(p) : Why(p, i).scope # "event"
    /\ \A i, k \in Failures(p) : outcome[p][i] = outcome[p][k]

\* attempts saturates at MaxAttempts, the value it is compared with.
Tries(d, e) ==
    IF attempts[d][e] < MaxAttempts THEN attempts[d][e] + 1 ELSE MaxAttempts

\* A drainer that gives up on the first failure, whatever its class.
AnyFailureIsDoomed(p, i) == i \in Failures(p)

\* Rule 2 and the permanent errors: the failures that go to the dead letter.
Doomed(p, i) ==
    /\ i \in Failures(p)
    /\ \/ Why(p, i).class = "permanent"
       \/ /\ ~Why(p, i).recognized
          /\ Tries(DrainerOf[p], entries[p][i]) >= MaxAttempts
          /\ StoredInPass(p) # {}

Stuck(p) == {i \in Failures(p) : ~Doomed(p, i)}

\* A loop that goes on past a stuck entry.
SettledPastStuck(p) == DOMAIN entries[p]

\* The entries before the first stuck one are resolved, the rest wait.
Settled(p) == {i \in DOMAIN entries[p] : \A k \in Stuck(p) : i < k}
Dead(p) == {i \in Settled(p) : Doomed(p, i)}

\* Attempts that do not survive from one pass to the next.
AttemptsForgotten(p) == [e \in Events |-> 0]

\* After the loop: a dead-lettered event is forgotten, and the unrecognised
\* failure that stopped it has one more attempt.
AttemptsAfter(p) ==
    [e \in Events |->
        IF \E i \in Dead(p) : entries[p][i] = e THEN 0
        ELSE IF \E i \in Stuck(p) : /\ \A k \in Stuck(p) : i <= k
                                   /\ entries[p][i] = e
                                   /\ ~Why(p, i).recognized
        THEN Tries(DrainerOf[p], e)
        ELSE attempts[DrainerOf[p]][e]]

SharedFailure(p) ==
    /\ pc[p] = "probe" /\ Untried(p) = {}
    /\ AllFailedAlike(p)
    /\ Ends(p, "failed")
    /\ backoff' = [backoff EXCEPT ![DrainerOf[p]] = TRUE]
    /\ UNCHANGED <<spoolVars, draining, attempts, storeVars>>

\* What the pass reports: "partial" is failed > 0 with deferred = true.
ResultOf(p) ==
    IF Stuck(p) # {} THEN "partial"
    ELSE IF Settled(p) = Dead(p) THEN "quarantined" ELSE "drained"

\* The commits of the settled entries run in order without an await between
\* them, so together they are one commit up to the last of them.
Settle(p) ==
    /\ pc[p] = "probe" /\ Untried(p) = {}
    /\ ~AllFailedAlike(p)
    /\ dlq' = dlq \cup {entries[p][i] : i \in Dead(p)}
    /\ \/ /\ Settled(p) = {}
          /\ UNCHANGED <<data, offsetFile, size, offset, pending>>
       \/ \E last \in Settled(p) :
             /\ \A i \in Settled(p) : i <= last
             /\ commit(last, Cardinality({i \in Settled(p) : i > offset}))
    /\ Ends(p, ResultOf(p))
    /\ attempts' = [attempts EXCEPT ![DrainerOf[p]] = AttemptsAfter(p)]
    /\ backoff' = [backoff EXCEPT ![DrainerOf[p]] = Stuck(p) # {}]
    /\ UNCHANGED <<up, accepted, crashes, draining, storeVars>>

BackoffOver(d) ==
    /\ backoff[d]
    /\ backoff' = [backoff EXCEPT ![d] = FALSE]
    /\ UNCHANGED <<spoolVars, passVars, storeVars, draining, attempts>>

-----------------------------------------------------------------------------
(* Crashes *)

\* Every pass and every drainer goes with the process.
LosePasses ==
    /\ pc' = [p \in Passes |-> "idle"]
    /\ entries' = [p \in Passes |-> <<>>]
    /\ next' = [p \in Passes |-> 0]
    /\ reply' = [p \in Passes |-> NoReply]
    /\ outcome' = [p \in Passes |-> <<>>]
    /\ result' = [p \in Passes |-> "none"]
    /\ draining' = [d \in Drainers |-> FALSE]
    /\ backoff' = [d \in Drainers |-> FALSE]
    /\ attempts' = [d \in Drainers |-> [e \in Events |-> 0]]
    /\ UNCHANGED storeVars

\* Inside the commit that ends a pass whose batch was stored.
CrashInBatchCommit(p) ==
    /\ pc[p] = "batch" /\ reply[p] = Ok
    /\ CrashAfterCommit(next[p]) \/ CrashInRotateOf(next[p])
    /\ UNCHANGED dlq

\* Inside phase 2: the settled entries up to `to` are committed (none if 0),
\* and the next one may already have its dead letter.
CrashInSettle(p) ==
    /\ pc[p] = "probe" /\ Untried(p) = {} /\ ~AllFailedAlike(p)
    /\ \E to \in Settled(p) \cup {0} :
          LET ahead == {i \in Dead(p) : /\ i > to
                                       /\ \A k \in Settled(p) : k > to => i <= k}
          IN  /\ \E written \in {{}, ahead} :
                    dlq' = dlq \cup {entries[p][i] :
                                      i \in {k \in Dead(p) : k <= to} \cup written}
              /\ offsetFile' = IF to <= offset THEN offsetFile
                               ELSE IF to < size THEN to ELSE size
    /\ UNCHANGED data
    /\ Dies("settle")

\* Inside the rotation that follows the last commit of phase 2.
CrashInSettleRotate(p) ==
    /\ pc[p] = "probe" /\ Untried(p) = {} /\ ~AllFailedAlike(p)
    /\ \E to \in Settled(p) : CrashInRotateOf(to)
    /\ dlq' = dlq \cup {entries[p][i] : i \in Dead(p)}

CrashOfPass(p) ==
    CrashInBatchCommit(p) \/ CrashInSettle(p) \/ CrashInSettleRotate(p)

Crash ==
    /\ \/ CrashIdle \/ CrashInAppend \/ CrashInRotateOnAppend
       \/ \E p \in Passes : CrashOfPass(p)
    /\ LosePasses

-----------------------------------------------------------------------------
(* The timer of start(): a tick calls drainOnce() on a shared instance.  The *)
(* worker does not use it; DrainSpool models what the worker runs.           *)

DrainInit ==
    /\ SpoolInit
    /\ pc = [p \in Passes |-> "idle"]
    /\ entries = [p \in Passes |-> <<>>]
    /\ next = [p \in Passes |-> 0]
    /\ reply = [p \in Passes |-> NoReply]
    /\ outcome = [p \in Passes |-> <<>>]
    /\ result = [p \in Passes |-> "none"]
    /\ draining = [d \in Drainers |-> FALSE]
    /\ backoff = [d \in Drainers |-> FALSE]
    /\ attempts = [d \in Drainers |-> [e \in Events |-> 0]]
    /\ store = "up" /\ stored = {}

Receive ==
    /\ \E e \in Events : append(e)
    /\ UNCHANGED <<passVars, drainerVars, storeVars>>

ReadStats ==
    /\ stats
    /\ UNCHANGED <<passVars, drainerVars, storeVars>>

Reboot ==
    /\ Restart
    /\ UNCHANGED <<passVars, drainerVars, storeVars>>

PassStep(p) ==
    \/ StoreHandlesBatch(p) \/ BatchStored(p) \/ BatchUnavailable(p)
    \/ BatchRejected(p) \/ Probe(p) \/ SharedFailure(p) \/ Settle(p)

Tick(p) == BeginPass(p) \/ EmptyPass(p)

TimerNext ==
    \/ Receive \/ ReadStats \/ Reboot \/ Crash \/ StoreChanges
    \/ \E d \in Drainers : BackoffOver(d)
    \/ \E p \in Passes : Tick(p) \/ PassStep(p)

\* The process is restarted by its supervisor, the interval keeps ticking, and
\* every insert is answered or times out.  Postgres recovering is no fairness
\* of this code: the liveness properties assume it where they need it.
TimerFairness ==
    /\ WF_drainVars(Reboot)
    /\ \A d \in Drainers : WF_drainVars(BackoffOver(d))
    /\ \A p \in Passes : WF_drainVars(BeginPass(p) \/ PassStep(p))

TimerSpec == DrainInit /\ [][TimerNext]_drainVars /\ TimerFairness

-----------------------------------------------------------------------------
(* Properties *)

PassTypeOK ==
    /\ pc \in [Passes -> {"idle", "batch", "probe"}]
    /\ DOMAIN entries = Passes /\ DOMAIN outcome = Passes
    /\ \A p \in Passes :
          /\ DOMAIN entries[p] \subseteq Nat \ {0}
          /\ IsFiniteSet(DOMAIN entries[p])
          /\ Batch(p) \subseteq Events
          /\ DOMAIN outcome[p] \subseteq DOMAIN entries[p]
          /\ pc[p] # "probe" => DOMAIN outcome[p] = {}
          /\ \A i \in DOMAIN outcome[p] : outcome[p][i] \in Replies
    /\ next \in [Passes -> Nat]
    /\ reply \in [Passes -> Replies \cup {NoReply}]
    /\ result \in [Passes -> {"none", "nothing", "drained", "quarantined",
                              "failed", "partial"}]

DrainerTypeOK ==
    /\ draining \in [Drainers -> BOOLEAN]
    /\ backoff \in [Drainers -> BOOLEAN]
    /\ attempts \in [Drainers -> [Events -> 0..MaxAttempts]]

StoreTypeOK == store \in StoreStates /\ stored \subseteq Events

DrainTypeOK == SpoolTypeOK /\ PassTypeOK /\ DrainerTypeOK /\ StoreTypeOK

\* Where a reader of this disk starts, now or after the restart.
ReadPosition == IF up THEN offset ELSE RestartOffset

Resolved == stored \cup dlq

\* The promise of the durable path (spool.ts:24, drainer.ts:111): an event
\* that append accepted is in Postgres, in the dead letter, or still where the
\* next read finds it -- whatever the outages, rejections and deaths, but for those
\* inside a write or a rotation (LossBoundedByCrashes bounds what these cost).
NoEventLost == accepted \subseteq Resolved \cup Waiting(ReadPosition)

\* While events are handed out one by one, stats().backlog is exactly what a
\* reader would still find (spool.ts:218-221).
BacklogIsWhatWaits ==
    up /\ pending # Uncounted => pending = Cardinality(Lines(offset))

\* Only an event the store can never keep goes to the dead letter
\* (errors.ts:4-7).
OnlyUnstorableDeadLettered == dlq \subseteq Unstorable \cup Odd

StoreRecovers == <>[](store = "up")

\* A Postgres outage is a delay, not a loss (errors.ts:15-18): once Postgres
\* stays up, every accepted event is resolved.
AcceptedIsResolved ==
    StoreRecovers => \A e \in Events : (e \in accepted) ~> (e \in Resolved)

\* An unrecognised event does not hold up the ones behind it
\* (drainer.ts:182-184): they are resolved once Postgres stays up.
PoisonDoesNotBlock ==
    StoreRecovers =>
        \A e \in Events \ Odd : (e \in accepted) ~> (e \in Resolved)
=============================================================================
