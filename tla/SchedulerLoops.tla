--------------------------- MODULE SchedulerLoops ---------------------------
(***************************************************************************)
(* tryStart() of packages/scheduler: the guard every periodic job of the   *)
(* worker runs its body under.  A tick claims the in-flight flag of its    *)
(* process in the same turn in which it reads it, then asks Postgres for   *)
(* an advisory lock.  The lock belongs to a transaction of its own, which  *)
(* commits before the body runs: it turns away whoever asks at the same    *)
(* moment, and protects no run.                                            *)
(*                                                                         *)
(* The module has the state of one loop and the steps around its body; a   *)
(* module that EXTENDS it says what the body does.                         *)
(***************************************************************************)
EXTENDS Naturals, FiniteSets

CONSTANTS
    Ticks,        \* deliveries of the job of this loop
    Instances,    \* worker processes
    InstanceOf,   \* InstanceOf[t]: the process that runs tick t
    Free,         \* nobody holds the advisory lock
    Orphan,       \* held by the connection of a process that died
    Faults        \* what may go wrong

ASSUME SchedulerAssumption ==
    /\ InstanceOf \in [Ticks -> Instances]
    /\ Free \notin Ticks
    /\ Orphan \notin Ticks
    /\ Free # Orphan

VARIABLES
    inFlight,     \* IN_FLIGHT of each process, for this loop
    lock,         \* holder of the advisory lock
    tick          \* where each tick is

loopVars == <<inFlight, lock, tick>>

LoopTypeOK ==
    /\ inFlight \in [Instances -> BOOLEAN]
    /\ lock \in Ticks \cup {Free, Orphan}
    /\ tick \in [Ticks -> {"idle", "asking", "granted", "running"}]

LoopInit ==
    /\ inFlight = [i \in Instances |-> FALSE]
    /\ lock = Free
    /\ tick = [t \in Ticks |-> "idle"]

\* A tick that leaves the flag down while it awaits the lock.
ClaimsNothing(t) ==
    /\ tick[t] = "idle"
    /\ ~inFlight[InstanceOf[t]]
    /\ tick' = [tick EXCEPT ![t] = "asking"]
    /\ UNCHANGED <<inFlight, lock>>

\* A tick that finds the flag up is dropped, which changes nothing.
TryStart(t) ==
    /\ tick[t] = "idle"
    /\ ~inFlight[InstanceOf[t]]
    /\ inFlight' = [inFlight EXCEPT ![InstanceOf[t]] = TRUE]
    /\ tick' = [tick EXCEPT ![t] = "asking"]
    /\ UNCHANGED lock

\* pg_try_advisory_xact_lock inside its transaction.
LockGranted(t) ==
    /\ tick[t] = "asking"
    /\ lock = Free
    /\ lock' = t
    /\ tick' = [tick EXCEPT ![t] = "granted"]
    /\ UNCHANGED inFlight

LockRefused(t) ==
    /\ tick[t] = "asking"
    /\ lock # Free
    /\ tick' = [tick EXCEPT ![t] = "idle"]
    /\ inFlight' = [inFlight EXCEPT ![InstanceOf[t]] = FALSE]
    /\ UNCHANGED lock

\* The database cannot be asked: the loop runs unguarded.
LockUnknown(t) ==
    /\ "lock" \in Faults
    /\ tick[t] = "asking"
    /\ tick' = [tick EXCEPT ![t] = "granted"]
    /\ UNCHANGED <<inFlight, lock>>

\* The transaction ends, and with it the lock; only then does the body run.
StartRun(t) ==
    /\ tick[t] = "granted"
    /\ lock' = IF lock = t THEN Free ELSE lock
    /\ tick' = [tick EXCEPT ![t] = "running"]
    /\ UNCHANGED inFlight

\* The body returned or threw; the finally clause lowers the flag.
EndRun(t) ==
    /\ tick[t] = "running"
    /\ tick' = [tick EXCEPT ![t] = "idle"]
    /\ inFlight' = [inFlight EXCEPT ![InstanceOf[t]] = FALSE]
    /\ UNCHANGED lock

\* The process dies: its flag and its ticks are gone, while Postgres holds the
\* lock of a transaction that was open until it sees the connection is dead.
LoseLoop(i) ==
    /\ inFlight' = [inFlight EXCEPT ![i] = FALSE]
    /\ tick' = [t \in Ticks |-> IF InstanceOf[t] = i THEN "idle" ELSE tick[t]]
    /\ lock' = IF lock \in Ticks /\ InstanceOf[lock] = i THEN Orphan ELSE lock

ConnectionDrops ==
    /\ lock = Orphan
    /\ lock' = Free
    /\ UNCHANGED <<inFlight, tick>>

-----------------------------------------------------------------------------
Running == {t \in Ticks : tick[t] = "running"}

\* One process runs the body of the loop at most once at a time, whatever ticks
\* are delivered while the lock is awaited (tryStart claims the flag first).
SingleFlight ==
    \A t, u \in Ticks :
        (InstanceOf[t] = InstanceOf[u] /\ tick[t] # "idle" /\ tick[u] # "idle") => t = u

\* What scheduler.ts:146 says of the lock: of all instances, one runs the loop.
OneRunInTheFleet == Cardinality(Running) <= 1
=============================================================================
