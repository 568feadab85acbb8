--------------------------- MODULE AlertLifecycle ---------------------------
(***************************************************************************)
(* Alerts and the incident of one device: detection runs (runDetection and *)
(* correlateAndPersist of packages/alerts) that read the active alerts,    *)
(* decide, write them back one by one, send what is to be notified and     *)
(* correlate, while operators acknowledge alerts and patch the incident.   *)
(* A run is the body of a tick of the polling loop.                        *)
(*                                                                         *)
(* A run has one instant `at', taken when it starts; everything it writes  *)
(* carries that instant.  What the detectors find in the samples is free.  *)
(***************************************************************************)
EXTENDS SchedulerLoops, Integers

CONSTANTS
    Kinds,          \* kinds of alert of the device
    MinKinds,       \* kinds that make an incident
    Cooldown,       \* cooldownMs
    ResolveAfter,   \* resolveAfterMs
    EscalateAfter,  \* escalateAfterMs
    MaxTime         \* bound on the clock

ASSUME AlertAssumption ==
    /\ IsFiniteSet(Kinds)
    /\ MinKinds \in Nat \ {0}
    /\ Cooldown \in Nat
    /\ ResolveAfter \in Nat
    /\ EscalateAfter \in Nat
    /\ MaxTime \in Nat

VARIABLES
    now,         \* the clock
    alert,       \* detected_alerts: the row of each kind
    incident,    \* incidents: the status of the row of the device
    run,         \* locals of the detection run of each tick
    told,        \* history: the last message an operator got of each kind
    unsaid,      \* history: kinds whose last message was recorded and never sent
    ackedSince,  \* history: kinds acknowledged since a run last read the alerts
    settled      \* history: nobody patched the incident since a run last decided on it,
                 \* and no run failed since

vars == <<loopVars, now, alert, incident, run, told, unsaid, ackedSince, settled>>
history == <<told, unsaid, ackedSince, settled>>

Severities == {"warning", "critical"}
Row == [status : {"none", "open", "acknowledged", "resolved"}, severity : Severities,
        first : Nat, seen : Nat, notified : Nat]
NoRow == [status |-> "none", severity |-> "warning", first |-> 0, seen |-> 0, notified |-> 0]

IsActive(status) == status \in {"open", "acknowledged"}
ActiveKinds == {k \in Kinds : IsActive(alert[k].status)}

Phases == {"none", "reading", "writing", "sending",
           "correlating", "opening", "linking", "checking", "closing"}
Idle == [phase |-> "none", at |-> 0, todo |-> {}, rows |-> [k \in Kinds |-> NoRow],
         notify |-> {}, correlated |-> FALSE]

\* Severity "none" in `told': no message of the kind went out yet.
TypeOK ==
    /\ LoopTypeOK
    /\ now \in Nat
    /\ alert \in [Kinds -> Row]
    /\ incident \in {"none", "open", "acknowledged", "resolved"}
    /\ run \in [Ticks -> [phase : Phases, at : Nat, todo : SUBSET Kinds,
                          rows : [Kinds -> Row], notify : SUBSET Kinds, correlated : BOOLEAN]]
    /\ told \in [Kinds -> [severity : Severities \cup {"none"}, at : Nat]]
    /\ unsaid \subseteq Kinds
    /\ ackedSince \subseteq Kinds
    /\ settled \in BOOLEAN

Init ==
    /\ LoopInit
    /\ now = 0
    /\ alert = [k \in Kinds |-> NoRow]
    /\ incident = "none"
    /\ run = [t \in Ticks |-> Idle]
    /\ told = [k \in Kinds |-> [severity |-> "none", at |-> 0]]
    /\ unsaid = {}
    /\ ackedSince = {}
    /\ settled = TRUE

-----------------------------------------------------------------------------
\* reconcile(): what a run at instant `at' makes of one kind, given the severity
\* found for it ("none": no finding) and its row as read (only active rows are).

FindingEscalates(found, row) == found = "critical" /\ row.severity = "warning"
AgeEscalates(row, at) == row.severity = "warning" /\ at - row.first >= EscalateAfter
Escalates(found, row, at) == FindingEscalates(found, row) \/ AgeEscalates(row, at)
CooldownElapsed(row, at) == at - row.notified >= Cooldown
IsStale(row, at) == at - row.seen >= ResolveAfter

IsNew(found, row) == found # "none" /\ ~IsActive(row.status)
Matches(found, row) == found # "none" /\ IsActive(row.status)
Expires(found, row, at) == found = "none" /\ IsActive(row.status) /\ IsStale(row, at)

Upserts(found, row, at) == found # "none" \/ Expires(found, row, at)

\* A rise in severity that waits for the cooldown.
NotifiesByCooldown(found, row, at) ==
    \/ IsNew(found, row)
    \/ Matches(found, row) /\ row.status = "open" /\ CooldownElapsed(row, at)

Notifies(found, row, at) ==
    \/ IsNew(found, row)
    \/ /\ Matches(found, row)
       /\ row.status = "open"
       /\ Escalates(found, row, at) \/ CooldownElapsed(row, at)

Refreshed(found, row, at) ==
    [row EXCEPT !.seen = at,
                !.severity = IF Escalates(found, row, at) THEN "critical" ELSE @,
                !.notified = IF Notifies(found, row, at) THEN at ELSE @]

\* A matched alert is open, whatever it was.
SeenIsOpen(found, row, at) == [Refreshed(found, row, at) EXCEPT !.status = "open"]

Seen(found, row, at) ==
    IF row.status = "acknowledged" THEN [row EXCEPT !.seen = at] ELSE Refreshed(found, row, at)

\* An alert recorded as never notified.
Unnotified(found, at) ==
    [status |-> "open", severity |-> found, first |-> at, seen |-> at, notified |-> -1]

NewAlert(found, at) ==
    [status |-> "open", severity |-> found, first |-> at, seen |-> at, notified |-> at]

Reconciled(found, row, at) ==
    CASE IsNew(found, row) -> NewAlert(found, at)
      [] Matches(found, row) -> Seen(found, row, at)
      [] OTHER -> [row EXCEPT !.status = "resolved"]

\* An update that keeps the instant of the last notification.
UpsertedUnnotified(row, record) ==
    IF row.status = "none" THEN record
    ELSE [record EXCEPT !.first = row.first, !.notified = row.notified]

\* upsert: an update keeps the firstSeenAt of the row it finds.
Upserted(row, record) ==
    IF row.status = "none" THEN record ELSE [record EXCEPT !.first = row.first]

-----------------------------------------------------------------------------
InPhase(t, p) == tick[t] = "running" /\ run[t].phase = p

BeginRun(t) ==
    /\ StartRun(t)
    /\ run' = [run EXCEPT ![t] = [Idle EXCEPT !.phase = "reading", !.at = now]]
    /\ UNCHANGED <<now, alert, incident, history>>

\* The active alerts are read, and everything to write is decided.
ReadAlerts(t) ==
    /\ InPhase(t, "reading")
    /\ \E found \in [Kinds -> Severities \cup {"none"}] :
         LET at == run[t].at
             todo == {k \in Kinds : Upserts(found[k], alert[k], at)}
         IN  run' = [run EXCEPT ![t] =
                 [@ EXCEPT !.phase = "writing",
                           !.todo = todo,
                           !.rows = [k \in Kinds |->
                               IF k \in todo THEN Reconciled(found[k], alert[k], at) ELSE NoRow],
                           !.notify = {k \in Kinds : Notifies(found[k], alert[k], at)}]]
    /\ ackedSince' = {}
    /\ UNCHANGED <<loopVars, now, alert, incident, told, unsaid, settled>>

WriteAlert(t, k) ==
    /\ InPhase(t, "writing")
    /\ k \in run[t].todo
    /\ alert' = [alert EXCEPT ![k] = Upserted(@, run[t].rows[k])]
    /\ run' = [run EXCEPT ![t].todo = @ \ {k},
                          ![t].rows[k] = IF k \in run[t].notify THEN @ ELSE NoRow]
    /\ UNCHANGED <<loopVars, now, incident, history>>

AllWritten(t) ==
    /\ InPhase(t, "writing")
    /\ run[t].todo = {}
    /\ run' = [run EXCEPT ![t].phase = IF run[t].notify = {} THEN "correlating" ELSE "sending"]
    /\ UNCHANGED <<loopVars, now, alert, incident, history>>

\* One message carries every alert to notify; the write of lastNotifiedAt is
\* already in the table, whether the channel takes the message or not.
Send(t) ==
    /\ InPhase(t, "sending")
    /\ LET kinds == run[t].notify
       IN  \/ /\ told' = [k \in Kinds |->
                     IF k \in kinds THEN [severity |-> run[t].rows[k].severity, at |-> run[t].at]
                                    ELSE told[k]]
             /\ unsaid' = unsaid \ kinds
          \/ /\ "send" \in Faults
             /\ unsaid' = unsaid \cup kinds
             /\ UNCHANGED told
    /\ run' = [run EXCEPT ![t] = [Idle EXCEPT !.phase = "correlating", !.at = run[t].at]]
    /\ UNCHANGED <<loopVars, now, alert, incident, ackedSince, settled>>

\* Counts the alerts nobody has acknowledged.
OpenKindsSuffice == Cardinality({k \in Kinds : alert[k].status = "open"}) >= MinKinds

KindsSuffice == Cardinality(ActiveKinds) >= MinKinds

\* The correlation awaits every query: an operator may patch the incident between
\* any two of them.
CorrelateRead(t) ==
    /\ InPhase(t, "correlating")
    /\ run' = [run EXCEPT ![t].phase = IF KindsSuffice THEN "opening" ELSE "checking",
                          ![t].correlated = KindsSuffice]
    /\ UNCHANGED <<loopVars, now, alert, incident, history>>

UpsertIncident(t) ==
    /\ InPhase(t, "opening")
    /\ incident' = "open"
    /\ settled' = TRUE
    /\ run' = [run EXCEPT ![t].phase = "linking"]
    /\ UNCHANGED <<loopVars, now, alert, told, unsaid, ackedSince>>

\* incidentId of the alerts is not modelled, the await is.
LinkAlerts(t) ==
    /\ InPhase(t, "linking")
    /\ run' = [run EXCEPT ![t].phase = "checking"]
    /\ UNCHANGED <<loopVars, now, alert, incident, history>>

\* The active incidents are read; one the run correlated is left alone.
FindIncidents(t) ==
    /\ InPhase(t, "checking")
    /\ settled' = (settled \/ ~run[t].correlated)
    /\ IF IsActive(incident) /\ ~run[t].correlated
       THEN /\ run' = [run EXCEPT ![t].phase = "closing"]
            /\ UNCHANGED loopVars
       ELSE /\ run' = [run EXCEPT ![t] = Idle]
            /\ EndRun(t)
    /\ UNCHANGED <<now, alert, incident, told, unsaid, ackedSince>>

CloseIncident(t) ==
    /\ InPhase(t, "closing")
    /\ incident' = IF IsActive(incident) THEN "resolved" ELSE incident
    /\ settled' = TRUE
    /\ run' = [run EXCEPT ![t] = Idle]
    /\ EndRun(t)
    /\ UNCHANGED <<now, alert, told, unsaid, ackedSince>>

\* What a run had written as notified and had not sent yet.
Unsent(t) ==
    IF run[t].phase \in {"writing", "sending"} THEN run[t].notify \ run[t].todo ELSE {}

\* A query throws: the run ends where it is.
Abort(t) ==
    /\ "database" \in Faults
    /\ EndRun(t)
    /\ run' = [run EXCEPT ![t] = Idle]
    /\ unsaid' = unsaid \cup Unsent(t)
    /\ settled' = FALSE
    /\ UNCHANGED <<now, alert, incident, told, ackedSince>>

Crash(i) ==
    /\ "crash" \in Faults
    /\ \E t \in Ticks : InstanceOf[t] = i /\ tick[t] # "idle"
    /\ LoseLoop(i)
    /\ run' = [t \in Ticks |-> IF InstanceOf[t] = i THEN Idle ELSE run[t]]
    /\ unsaid' = unsaid \cup UNION {Unsent(t) : t \in {u \in Ticks : InstanceOf[u] = i}}
    /\ settled' = (settled /\ \A t \in Running : InstanceOf[t] # i)
    /\ UNCHANGED <<now, alert, incident, told, ackedSince>>

-----------------------------------------------------------------------------
\* The requests of operators, between any two steps of a run.

AckAlert(k) ==
    /\ alert[k].status = "open"
    /\ alert' = [alert EXCEPT ![k].status = "acknowledged"]
    /\ ackedSince' = ackedSince \cup {k}
    /\ UNCHANGED <<loopVars, now, incident, run, told, unsaid, settled>>

PatchIncident(status) ==
    /\ incident \notin {"none", status}
    /\ incident' = status
    /\ settled' = FALSE
    /\ UNCHANGED <<loopVars, now, alert, run, told, unsaid, ackedSince>>

Tick ==
    /\ now < MaxTime
    /\ now' = now + 1
    /\ UNCHANGED <<loopVars, alert, incident, run, history>>

LoopOnly == UNCHANGED <<now, alert, incident, run, history>>

Next ==
    \/ \E t \in Ticks :
          \/ TryStart(t) /\ LoopOnly
          \/ LockGranted(t) /\ LoopOnly
          \/ LockRefused(t) /\ LoopOnly
          \/ LockUnknown(t) /\ LoopOnly
          \/ BeginRun(t)
          \/ ReadAlerts(t)
          \/ \E k \in Kinds : WriteAlert(t, k)
          \/ AllWritten(t)
          \/ Send(t)
          \/ CorrelateRead(t)
          \/ UpsertIncident(t)
          \/ LinkAlerts(t)
          \/ FindIncidents(t)
          \/ CloseIncident(t)
          \/ Abort(t)
    \/ ConnectionDrops /\ LoopOnly
    \/ \E i \in Instances : Crash(i)
    \/ \E k \in Kinds : AckAlert(k)
    \/ \E status \in {"open", "acknowledged", "resolved"} : PatchIncident(status)
    \/ Tick

Spec == Init /\ [][Next]_vars

-----------------------------------------------------------------------------
\* A run that reads, decides and writes back one by one resolves only what is
\* still stale in the table when it writes: no other run of the process may have
\* refreshed it since (dedup.ts:134, under the single flight of scheduler.ts:136).
ResolvedOnlyWhenStale ==
    [][\A k \in Kinds :
          IsActive(alert[k].status) /\ alert'[k].status = "resolved"
              => now - alert[k].seen >= ResolveAfter]_vars

Delivers(t, k) ==
    /\ run[t].phase = "sending"
    /\ run'[t].phase = "correlating"
    /\ k \in run[t].notify
    /\ k \notin unsaid'

\* Two messages about one kind are a cooldown apart unless the severity rose, also
\* over resolution and a new alert, failed sends, and runs that died half way
\* (dedup.ts:119; lastNotifiedAt is what manager.ts:57-89 wrote of it).
CooldownRespected ==
    [][\A t \in Ticks, k \in Kinds :
          Delivers(t, k) /\ told[k].severity # "none"
              => \/ told'[k].at - told[k].at >= Cooldown
                 \/ told[k].severity = "warning" /\ told'[k].severity = "critical"]_vars

\* An acknowledgement is taken back only by the run that had read the alert before
\* it was given (manager.ts:259); a run that reads it keeps it (dedup.ts:99).
AckUndoneOnlyWithinRun ==
    [][\A k \in Kinds :
          alert[k].status = "acknowledged" /\ alert'[k].status = "open"
              => k \in ackedSince]_vars

\* What dedup.ts:54 says: an acknowledgement is never lost while its alert lives.
AckNeverLost ==
    [][\A k \in Kinds :
          alert[k].status = "acknowledged" => alert'[k].status # "open"]_vars

Pending(k) == \E t \in Ticks : k \in Unsent(t)

\* An open alert is what an operator was last told, unless the message failed or
\* died with its run: lastNotifiedAt is written before the message is sent, and no
\* escalation goes out silently.
EveryOpenAlertWasTold ==
    \A k \in Kinds :
        alert[k].status = "open" /\ ~Pending(k) /\ k \notin unsaid
            => told[k] = [severity |-> alert[k].severity, at |-> alert[k].notified]

\* Between runs the incident of the device is active exactly when enough kinds are,
\* unless an operator patched it after the run wrote or read it, or the last run failed
\* (manager.ts:100-184: five queries in a row, the counting first).
IncidentIsBacked ==
    settled /\ Running = {} => (IsActive(incident) <=> Cardinality(ActiveKinds) >= MinKinds)
=============================================================================
