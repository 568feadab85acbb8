------------------------ MODULE AlertLifecycleProofs ------------------------
(***************************************************************************)
(* Proofs about the scheduler's guard and the alerts of a detection run.   *)
(*                                                                         *)
(* Types and the single flight hold for any number of processes.  What a   *)
(* run has read is still what it decided on (RunOK) only while no other    *)
(* process runs the loop: the theorems that rest on it have OneProcess as  *)
(* a hypothesis.                                                           *)
(***************************************************************************)
EXTENDS AlertLifecycle, FiniteSetTheorems, TLAPS

-----------------------------------------------------------------------------
(* Types *)

Run == [phase : Phases, at : Nat, todo : SUBSET Kinds,
        rows : [Kinds -> Row], notify : SUBSET Kinds, correlated : BOOLEAN]
Message == [severity : Severities \cup {"none"}, at : Nat]

LEMMA Constants ==
  /\ NoRow \in Row /\ NoRow.status = "none"
  /\ Idle \in Run /\ Idle.phase = "none" /\ Idle.at = 0
<1>1. NoRow \in Row
  BY DEF NoRow, Row, Severities
<1>2. NoRow.status = "none"
  BY DEF NoRow
<1>3. [k \in Kinds |-> NoRow] \in [Kinds -> Row]
  BY <1>1
<1>4. Idle \in Run
  BY <1>3 DEF Idle, Run, Phases
<1>5. Idle.phase = "none" /\ Idle.at = 0
  BY DEF Idle
<1> QED BY <1>1, <1>2, <1>4, <1>5

\* What reconcile() returns for a kind it returns anything for.
LEMMA Decision ==
  ASSUME NEW found \in Severities \cup {"none"}, NEW row \in Row, NEW at \in Nat,
         Upserts(found, row, at)
  PROVE  LET out == Reconciled(found, row, at)
         IN  /\ out \in Row
             /\ out.status \in {"open", "acknowledged", "resolved"}
             /\ Notifies(found, row, at) => out.status = "open" /\ out.notified = at
             /\ out.status = "resolved" =>
                  /\ at - row.seen >= ResolveAfter
                  /\ out.seen = row.seen /\ out.severity = row.severity
                  /\ out.notified = row.notified
             /\ out.status = "open" => row.status # "acknowledged"
             /\ out.status # "resolved" /\ ~Notifies(found, row, at) =>
                  /\ IsActive(row.status)
                  /\ out.severity = row.severity /\ out.notified = row.notified
<1> DEFINE out == Reconciled(found, row, at)
<1>1. CASE IsNew(found, row)
  <2>1. /\ out = NewAlert(found, at)
        /\ Notifies(found, row, at)
        /\ found \in Severities /\ row.status # "acknowledged"
    <3>4. ~Matches(found, row)
      BY <1>1 DEF IsNew, Matches
    <3>1. out = NewAlert(found, at)
      BY <1>1, <3>4 DEF Reconciled
    <3>2. Notifies(found, row, at)
      BY <1>1 DEF Notifies
    <3>3. found \in Severities /\ row.status # "acknowledged"
      BY <1>1 DEF IsNew, IsActive
    <3> QED BY <3>1, <3>2, <3>3
  <2>2. NewAlert(found, at) \in Row
    BY <2>1 DEF NewAlert, Row
  <2>3. out.status = "open" /\ out.notified = at
    BY <2>1 DEF NewAlert
  <2> QED BY <2>1, <2>2, <2>3
<1>2. CASE Matches(found, row)
  <2>1. out = Seen(found, row, at) /\ ~IsNew(found, row)
    BY <1>2 DEF Reconciled, Matches, IsNew
  <2>2. CASE row.status = "acknowledged"
    <3>1. out = [row EXCEPT !.seen = at]
      BY <2>1, <2>2 DEF Seen
    <3>2. out \in Row /\ out.status = row.status /\ out.severity = row.severity
          /\ out.notified = row.notified
      BY <3>1 DEF Row
    <3>3. ~Notifies(found, row, at)
      BY <2>1, <2>2 DEF Notifies
    <3> QED BY <2>2, <3>2, <3>3 DEF IsActive
  <2>3. CASE row.status # "acknowledged"
    <3>1. row.status = "open"
      BY <1>2, <2>3 DEF Matches, IsActive
    <3>2. out = Refreshed(found, row, at)
      BY <2>1, <2>3 DEF Seen
    <3>3. /\ out \in Row /\ out.status = "open"
          /\ out.severity = IF Escalates(found, row, at) THEN "critical" ELSE row.severity
          /\ out.notified = IF Notifies(found, row, at) THEN at ELSE row.notified
      <4> DEFINE severity == IF Escalates(found, row, at) THEN "critical" ELSE row.severity
                 notified == IF Notifies(found, row, at) THEN at ELSE row.notified
      <4>1. Refreshed(found, row, at) =
              [row EXCEPT !.seen = at, !.severity = severity, !.notified = notified]
        BY DEF Refreshed, Row
      <4>2. severity \in Severities /\ notified \in Nat
        BY DEF Row, Severities
      <4> HIDE DEF out, severity, notified
      <4>4. out = [row EXCEPT !.seen = at, !.severity = severity, !.notified = notified]
        BY <3>2, <4>1
      <4>5. out.status = "open" /\ out.severity = severity /\ out.notified = notified
        BY <3>1, <4>4 DEF Row
      <4>6. out \in Row
        BY <4>2, <4>4 DEF Row
      <4>3. /\ out \in Row /\ out.status = "open"
            /\ out.severity = severity /\ out.notified = notified
        BY <4>5, <4>6
      <4> QED BY <4>3 DEF severity, notified
    <3>4. ~Notifies(found, row, at) => ~Escalates(found, row, at)
      BY <1>2, <3>1 DEF Notifies
    <3> QED BY <3>1, <3>3, <3>4 DEF IsActive
  <2> QED BY <2>2, <2>3
<1>3. CASE ~IsNew(found, row) /\ ~Matches(found, row)
  <2>1. Expires(found, row, at)
    BY <1>3 DEF Upserts, IsNew, Matches
  <2>2. at - row.seen >= ResolveAfter
    BY <2>1 DEF Expires, IsStale
  <2>3. out = [row EXCEPT !.status = "resolved"]
    BY <1>3 DEF Reconciled
  <2>4. out \in Row /\ out.status = "resolved" /\ out.seen = row.seen
        /\ out.severity = row.severity /\ out.notified = row.notified
    BY <2>3 DEF Row
  <2>5. ~Notifies(found, row, at)
    BY <1>3 DEF Notifies
  <2> QED BY <2>2, <2>4, <2>5
<1> QED BY <1>1, <1>2, <1>3

\* What the upsert of a row writes.
LEMMA UpsertOf ==
  ASSUME NEW row \in Row, NEW record \in Row
  PROVE  /\ Upserted(row, record) \in Row
         /\ Upserted(row, record).status = record.status
         /\ Upserted(row, record).severity = record.severity
         /\ Upserted(row, record).seen = record.seen
         /\ Upserted(row, record).notified = record.notified
BY DEF Upserted, Row

\* Who notifies is written.
LEMMA NotifiedIsUpserted ==
  ASSUME NEW found, NEW row, NEW at, Notifies(found, row, at)
  PROVE  Upserts(found, row, at)
BY DEF Notifies, Upserts, IsNew, Matches

-----------------------------------------------------------------------------
(* The guard of the loop *)

\* What a step does to the state of the scheduler.
LoopStep ==
    \/ UNCHANGED loopVars
    \/ \E t \in Ticks : TryStart(t) \/ LockGranted(t) \/ LockRefused(t) \/ LockUnknown(t)
                        \/ StartRun(t) \/ EndRun(t)
    \/ ConnectionDrops
    \/ \E i \in Instances : LoseLoop(i)

LEMMA LoopSteps ==
  ASSUME [Next]_vars
  PROVE  LoopStep
BY DEF Next, vars, LoopStep, BeginRun, ReadAlerts, WriteAlert, AllWritten, Send, CorrelateRead,
       UpsertIncident, LinkAlerts, FindIncidents, CloseIncident, Abort, Crash, AckAlert,
       PatchIncident, Tick

LEMMA LoopTypeStep ==
  ASSUME LoopTypeOK, LoopStep
  PROVE  LoopTypeOK'
<1>1. CASE UNCHANGED loopVars
  BY <1>1 DEF loopVars, LoopTypeOK
<1>2. ASSUME NEW t \in Ticks, TryStart(t) \/ LockGranted(t) \/ LockRefused(t) \/ LockUnknown(t)
                              \/ StartRun(t) \/ EndRun(t)
      PROVE  LoopTypeOK'
  BY <1>2, SchedulerAssumption
     DEF TryStart, LockGranted, LockRefused, LockUnknown, StartRun, EndRun, LoopTypeOK
<1>3. CASE ConnectionDrops
  BY <1>3 DEF ConnectionDrops, LoopTypeOK
<1>4. ASSUME NEW i \in Instances, LoseLoop(i)
      PROVE  LoopTypeOK'
  BY <1>4 DEF LoseLoop, LoopTypeOK
<1> QED BY <1>1, <1>2, <1>3, <1>4 DEF LoopStep

\* Whoever is under way holds the flag of its process, and is alone with it.
Flight ==
    /\ \A t \in Ticks : tick[t] # "idle" => inFlight[InstanceOf[t]]
    /\ SingleFlight

LEMMA FlightStep ==
  ASSUME LoopTypeOK, Flight, LoopStep
  PROVE  Flight'
<1>1. /\ tick \in [Ticks -> {"idle", "asking", "granted", "running"}]
      /\ inFlight \in [Instances -> BOOLEAN]
      /\ InstanceOf \in [Ticks -> Instances]
  BY SchedulerAssumption DEF LoopTypeOK
<1>2. CASE UNCHANGED loopVars
  BY <1>2 DEF loopVars, Flight, SingleFlight
<1>3. ASSUME NEW t \in Ticks, TryStart(t)
      PROVE  Flight'
  <2>1. /\ \A u \in Ticks : tick'[u] = IF u = t THEN "asking" ELSE tick[u]
        /\ \A i \in Instances : inFlight'[i] = IF i = InstanceOf[t] THEN TRUE ELSE inFlight[i]
    BY <1>1, <1>3 DEF TryStart
  <2>2. \A u \in Ticks : InstanceOf[u] = InstanceOf[t] => tick[u] = "idle"
    BY <1>3 DEF TryStart, Flight
  <2> QED BY <1>1, <2>1, <2>2 DEF Flight, SingleFlight
<1>4. ASSUME NEW t \in Ticks, LockGranted(t) \/ LockUnknown(t) \/ StartRun(t)
      PROVE  Flight'
  <2>1. /\ inFlight' = inFlight
        /\ tick[t] # "idle"
        /\ \A u \in Ticks : u # t => tick'[u] = tick[u]
    BY <1>1, <1>4 DEF LockGranted, LockUnknown, StartRun
  <2> QED BY <1>1, <2>1 DEF Flight, SingleFlight
<1>5. ASSUME NEW t \in Ticks, LockRefused(t) \/ EndRun(t)
      PROVE  Flight'
  <2>1. /\ tick[t] # "idle"
        /\ \A u \in Ticks : tick'[u] = IF u = t THEN "idle" ELSE tick[u]
        /\ \A i \in Instances : inFlight'[i] = IF i = InstanceOf[t] THEN FALSE ELSE inFlight[i]
    BY <1>1, <1>5 DEF LockRefused, EndRun
  <2>2. \A u \in Ticks : tick'[u] # "idle" => InstanceOf[u] # InstanceOf[t]
    BY <2>1 DEF Flight, SingleFlight
  <2> QED BY <1>1, <2>1, <2>2 DEF Flight, SingleFlight
<1>6. CASE ConnectionDrops
  BY <1>6 DEF ConnectionDrops, Flight, SingleFlight
<1>7. ASSUME NEW i \in Instances, LoseLoop(i)
      PROVE  Flight'
  <2>1. /\ \A u \in Ticks : tick'[u] = IF InstanceOf[u] = i THEN "idle" ELSE tick[u]
        /\ \A j \in Instances : inFlight'[j] = IF j = i THEN FALSE ELSE inFlight[j]
    BY <1>1, <1>7 DEF LoseLoop
  <2> QED BY <1>1, <2>1 DEF Flight, SingleFlight
<1> QED BY <1>2, <1>3, <1>4, <1>5, <1>6, <1>7 DEF LoopStep

-----------------------------------------------------------------------------
(* Types, and that only a tick that runs has locals *)

OnlyRunning == \A t \in Ticks : tick[t] # "running" => run[t] = Idle

\* The steps of the guard around the body of the loop.
Around == LoopOnly /\ \A t \in Ticks : tick'[t] = "running" <=> tick[t] = "running"

LEMMA RunTypes ==
  ASSUME TypeOK
  PROVE  /\ run \in [Ticks -> Run] /\ alert \in [Kinds -> Row] /\ now \in Nat
         /\ told \in [Kinds -> Message]
         /\ incident \in {"none", "open", "acknowledged", "resolved"}
         /\ unsaid \subseteq Kinds /\ ackedSince \subseteq Kinds /\ settled \in BOOLEAN
         /\ tick \in [Ticks -> {"idle", "asking", "granted", "running"}]
BY DEF TypeOK, Run, Message, LoopTypeOK

\* The steps of the correlation: all but the last go on, and none touches the alerts.
Correlates(t) ==
    CorrelateRead(t) \/ UpsertIncident(t) \/ LinkAlerts(t) \/ FindIncidents(t) \/ CloseIncident(t)

CorrelationPhases == {"opening", "linking", "checking", "closing"}

LeavesAlerts(t) ==
    /\ tick[t] = "running"
    /\ run[t].phase \in CorrelationPhases \cup {"correlating"}
    /\ UNCHANGED <<now, alert, told, unsaid, ackedSince>>
    /\ incident' \in {"none", "open", "acknowledged", "resolved"}
    /\ settled' \in BOOLEAN

GoesOn(t) ==
    /\ LeavesAlerts(t)
    /\ UNCHANGED loopVars
    /\ run' = [run EXCEPT ![t] = run'[t]]
    /\ run'[t] \in Run
    /\ run'[t].phase \in CorrelationPhases
    /\ run'[t].at = run[t].at

GoesOff(t) ==
    /\ LeavesAlerts(t)
    /\ EndRun(t)
    /\ run' = [run EXCEPT ![t] = Idle]

LEMMA CorrelationSteps ==
  ASSUME TypeOK, NEW t \in Ticks, Correlates(t)
  PROVE  GoesOn(t) \/ GoesOff(t)
<1>1. /\ run \in [Ticks -> Run] /\ settled \in BOOLEAN
      /\ incident \in {"none", "open", "acknowledged", "resolved"}
  BY RunTypes
<1>2. LeavesAlerts(t)
  BY <1>1 DEF Correlates, CorrelateRead, UpsertIncident, LinkAlerts, FindIncidents, CloseIncident,
              LeavesAlerts, CorrelationPhases, InPhase, history
<1>3. ASSUME NEW phase \in CorrelationPhases, UNCHANGED loopVars,
             run' = [run EXCEPT ![t].phase = phase]
      PROVE  GoesOn(t)
  <2>1. run'[t] = [run[t] EXCEPT !.phase = phase]
    BY <1>1, <1>3
  <2>2. /\ run'[t] \in Run /\ run'[t].phase \in CorrelationPhases
        /\ run'[t].at = run[t].at
    BY <1>1, <2>1 DEF Run, Phases, CorrelationPhases
  <2>3. run' = [run EXCEPT ![t] = run'[t]]
    BY <1>1, <1>3
  <2> QED BY <1>2, <1>3, <2>2, <2>3 DEF GoesOn
<1>4. CASE CorrelateRead(t)
  <2> DEFINE phase == IF KindsSuffice THEN "opening" ELSE "checking"
  <2>1. phase \in CorrelationPhases /\ KindsSuffice \in BOOLEAN
    BY DEF CorrelationPhases, KindsSuffice
  <2>2. run'[t] = [run[t] EXCEPT !.phase = phase, !.correlated = KindsSuffice]
    BY <1>1, <1>4 DEF CorrelateRead
  <2> HIDE DEF phase
  <2>3. /\ run'[t] \in Run /\ run'[t].phase = phase
        /\ run'[t].at = run[t].at
    BY <1>1, <2>1, <2>2 DEF Run, Phases, CorrelationPhases
  <2>4. run' = [run EXCEPT ![t] = run'[t]] /\ UNCHANGED loopVars
    BY <1>1, <1>4 DEF CorrelateRead
  <2> QED BY <1>2, <2>1, <2>3, <2>4 DEF GoesOn
<1>5. CASE UpsertIncident(t)
  BY <1>3, <1>5 DEF UpsertIncident, CorrelationPhases
<1>6. CASE LinkAlerts(t)
  BY <1>3, <1>6 DEF LinkAlerts, CorrelationPhases
<1>7. CASE FindIncidents(t)
  BY <1>2, <1>3, <1>7 DEF FindIncidents, CorrelationPhases, GoesOff
<1>8. CASE CloseIncident(t)
  BY <1>2, <1>8 DEF CloseIncident, GoesOff
<1> QED BY <1>4, <1>5, <1>6, <1>7, <1>8 DEF Correlates

\* The steps of the alerts, by what they change.
LEMMA Steps ==
  ASSUME [Next]_vars, TypeOK
  PROVE  \/ Around
         \/ \E t \in Ticks :
              \/ BeginRun(t) \/ ReadAlerts(t) \/ (\E k \in Kinds : WriteAlert(t, k))
              \/ AllWritten(t) \/ Send(t) \/ Abort(t)
              \/ Correlates(t) /\ (GoesOn(t) \/ GoesOff(t))
         \/ \E i \in Instances : Crash(i)
         \/ \E k \in Kinds : AckAlert(k)
         \/ \E status \in {"open", "acknowledged", "resolved"} : PatchIncident(status)
         \/ Tick
<1>1. CASE UNCHANGED vars
  BY <1>1 DEF vars, loopVars, history, LoopOnly, Around
<1>2. ASSUME NEW t \in Ticks,
             (TryStart(t) \/ LockGranted(t) \/ LockRefused(t) \/ LockUnknown(t)) /\ LoopOnly
      PROVE  Around
  BY <1>2 DEF TryStart, LockGranted, LockRefused, LockUnknown, TypeOK, LoopTypeOK, Around
<1>3. CASE ConnectionDrops /\ LoopOnly
  BY <1>3 DEF ConnectionDrops, Around
<1> QED BY <1>1, <1>2, <1>3, CorrelationSteps DEF Next, Correlates

\* The locals a run has after it decided.
Decides(t, found) ==
    LET at == run[t].at
        todo == {k \in Kinds : Upserts(found[k], alert[k], at)}
    IN  [run[t] EXCEPT !.phase = "writing",
                       !.todo = todo,
                       !.rows = [k \in Kinds |->
                           IF k \in todo THEN Reconciled(found[k], alert[k], at) ELSE NoRow],
                       !.notify = {k \in Kinds : Notifies(found[k], alert[k], at)}]

LEMMA ReadOf ==
  ASSUME TypeOK, NEW t \in Ticks, ReadAlerts(t)
  PROVE  \E found \in [Kinds -> Severities \cup {"none"}] :
           LET r == Decides(t, found)
           IN  /\ r \in Run
               /\ run' = [run EXCEPT ![t] = r]
               /\ r.phase = "writing" /\ r.at = run[t].at
               /\ r.todo = {k \in Kinds : Upserts(found[k], alert[k], r.at)}
               /\ r.notify = {k \in Kinds : Notifies(found[k], alert[k], r.at)}
               /\ \A k \in r.todo : r.rows[k] = Reconciled(found[k], alert[k], r.at)
<1>1. PICK found \in [Kinds -> Severities \cup {"none"}] : run' = [run EXCEPT ![t] = Decides(t, found)]
  BY DEF ReadAlerts, Decides
<1> DEFINE r == Decides(t, found)
           todo == {k \in Kinds : Upserts(found[k], alert[k], run[t].at)}
           rows == [k \in Kinds |->
                      IF k \in todo THEN Reconciled(found[k], alert[k], run[t].at) ELSE NoRow]
           notify == {k \in Kinds : Notifies(found[k], alert[k], run[t].at)}
<1>2. run[t] \in Run /\ alert \in [Kinds -> Row]
  BY RunTypes
<1>3. rows \in [Kinds -> Row]
  <2> SUFFICES ASSUME NEW k \in Kinds
               PROVE  (IF k \in todo THEN Reconciled(found[k], alert[k], run[t].at) ELSE NoRow) \in Row
    OBVIOUS
  <2>1. run[t].at \in Nat /\ alert[k] \in Row /\ found[k] \in Severities \cup {"none"}
    BY <1>2 DEF Run
  <2>2. k \in todo => Reconciled(found[k], alert[k], run[t].at) \in Row
    BY <2>1, Decision
  <2> QED BY <2>2, Constants
<1>4. todo \subseteq Kinds /\ notify \subseteq Kinds
  OBVIOUS
<1>5. r = [run[t] EXCEPT !.phase = "writing", !.todo = todo, !.rows = rows, !.notify = notify]
  BY DEF Decides
<1>6. \A k \in todo : rows[k] = Reconciled(found[k], alert[k], run[t].at)
  OBVIOUS
<1> HIDE DEF r, todo, rows, notify
<1>7. /\ r.phase = "writing" /\ r.at = run[t].at
      /\ r.todo = todo /\ r.rows = rows /\ r.notify = notify
  BY <1>2, <1>5 DEF Run
<1>8. r \in Run
  BY <1>2, <1>3, <1>4, <1>5 DEF Run, Phases
<1>9. \A k \in r.todo : r.rows[k] = Reconciled(found[k], alert[k], r.at)
  BY <1>6, <1>7
<1>10. r.todo = {k \in Kinds : Upserts(found[k], alert[k], r.at)}
  BY <1>7 DEF todo
<1>11. r.notify = {k \in Kinds : Notifies(found[k], alert[k], r.at)}
  BY <1>7 DEF notify
<1> QED BY <1>1, <1>7, <1>8, <1>9, <1>10, <1>11 DEF r

LEMMA WriteOf ==
  ASSUME TypeOK, NEW t \in Ticks, NEW k \in Kinds, WriteAlert(t, k)
  PROVE  /\ run'[t] \in Run
         /\ \A u \in Ticks : u # t => run'[u] = run[u]
         /\ run'[t].phase = "writing" /\ run[t].phase = "writing"
         /\ run'[t].at = run[t].at
         /\ run'[t].todo = run[t].todo \ {k}
         /\ run'[t].notify = run[t].notify
         /\ \A j \in Kinds : j # k => run'[t].rows[j] = run[t].rows[j]
         /\ k \in run[t].notify => run'[t].rows[k] = run[t].rows[k]
         /\ alert'[k] = Upserted(alert[k], run[t].rows[k])
         /\ \A j \in Kinds : j # k => alert'[j] = alert[j]
<1>1. /\ run \in [Ticks -> Run] /\ run[t] \in Run /\ alert \in [Kinds -> Row]
      /\ run[t].phase = "writing"
  BY RunTypes DEF WriteAlert, InPhase
<1> DEFINE rows == [run[t].rows EXCEPT ![k] = IF k \in run[t].notify THEN @ ELSE NoRow]
<1>2. rows \in [Kinds -> Row]
  BY <1>1, Constants DEF Run
<1>3. \A j \in Kinds : (j # k => rows[j] = run[t].rows[j])
                       /\ (k \in run[t].notify => rows[k] = run[t].rows[k])
  BY <1>1 DEF Run
<1>4. run'[t] = [run[t] EXCEPT !.todo = run[t].todo \ {k}, !.rows = rows]
  BY <1>1 DEF WriteAlert, Run
<1>5. \A u \in Ticks : u # t => run'[u] = run[u]
  BY <1>1 DEF WriteAlert
<1> HIDE DEF rows
<1>6. /\ run'[t].phase = run[t].phase /\ run'[t].at = run[t].at
      /\ run'[t].todo = run[t].todo \ {k} /\ run'[t].rows = rows
      /\ run'[t].notify = run[t].notify
  BY <1>1, <1>4 DEF Run
<1>7. run'[t] \in Run
  BY <1>1, <1>2, <1>4 DEF Run
<1>8. alert'[k] = Upserted(alert[k], run[t].rows[k]) /\ \A j \in Kinds : j # k => alert'[j] = alert[j]
  BY <1>1 DEF WriteAlert
<1> QED BY <1>1, <1>3, <1>5, <1>6, <1>7, <1>8

LEMMA TypeStep ==
  ASSUME TypeOK, [Next]_vars
  PROVE  TypeOK'
<1> DEFINE Rest == /\ now' \in Nat
                   /\ alert' \in [Kinds -> Row]
                   /\ incident' \in {"none", "open", "acknowledged", "resolved"}
                   /\ run' \in [Ticks -> Run]
                   /\ told' \in [Kinds -> Message]
                   /\ unsaid' \subseteq Kinds
                   /\ ackedSince' \subseteq Kinds
                   /\ settled' \in BOOLEAN
<1>1. LoopTypeOK'
  BY LoopSteps, LoopTypeStep DEF TypeOK
<1>2. /\ run \in [Ticks -> Run] /\ alert \in [Kinds -> Row] /\ now \in Nat
      /\ told \in [Kinds -> Message]
      /\ incident \in {"none", "open", "acknowledged", "resolved"}
      /\ unsaid \subseteq Kinds /\ ackedSince \subseteq Kinds /\ settled \in BOOLEAN
  BY RunTypes
<1>3. Idle \in Run
  BY Constants
<1>4. ASSUME Around
      PROVE  Rest
  BY <1>2, <1>4 DEF Around, LoopOnly, history
<1>5. ASSUME NEW t \in Ticks, BeginRun(t)
      PROVE  Rest
  <2>1. [Idle EXCEPT !.phase = "reading", !.at = now] \in Run
    BY <1>2, <1>3 DEF Run, Phases
  <2>2. run' \in [Ticks -> Run]
    BY <1>2, <1>5, <2>1 DEF BeginRun
  <2> QED BY <1>2, <1>5, <2>2 DEF BeginRun, history
<1>6. ASSUME NEW t \in Ticks, ReadAlerts(t)
      PROVE  Rest
  <2>1. run' \in [Ticks -> Run]
    BY <1>2, <1>6, ReadOf
  <2> QED BY <1>2, <1>6, <2>1 DEF ReadAlerts
<1>7. ASSUME NEW t \in Ticks, NEW k \in Kinds, WriteAlert(t, k)
      PROVE  Rest
  <2>1. run' \in [Ticks -> Run]
    <3>1. run' = [run EXCEPT ![t] = run'[t]]
      BY <1>2, <1>7 DEF WriteAlert
    <3> QED BY <1>2, <1>7, <3>1, WriteOf
  <2>2. alert' \in [Kinds -> Row]
    <3>1. run[t].rows[k] \in Row /\ alert[k] \in Row
      BY <1>2 DEF Run
    <3>2. Upserted(alert[k], run[t].rows[k]) \in Row
      BY <3>1, UpsertOf
    <3> QED BY <1>2, <1>7, <3>2 DEF WriteAlert
  <2> QED BY <1>2, <1>7, <2>1, <2>2 DEF WriteAlert, history
<1>8. ASSUME NEW t \in Ticks, AllWritten(t)
      PROVE  Rest
  <2>1. run' \in [Ticks -> Run]
    <3>1. PICK phase \in Phases : run' = [run EXCEPT ![t].phase = phase]
      BY <1>8 DEF AllWritten, Phases
    <3> QED BY <1>2, <3>1 DEF Run
  <2> QED BY <1>2, <1>8, <2>1 DEF AllWritten, history
<1>9. ASSUME NEW t \in Ticks, Send(t)
      PROVE  Rest
  <2>1. [Idle EXCEPT !.phase = "correlating", !.at = run[t].at] \in Run
    BY <1>2, <1>3 DEF Run, Phases
  <2>2. run' \in [Ticks -> Run]
    BY <1>2, <1>9, <2>1 DEF Send
  <2>3. run[t] \in Run
    BY <1>2
  <2>4. \A k \in Kinds : [severity |-> run[t].rows[k].severity, at |-> run[t].at] \in Message
    BY <2>3 DEF Run, Row, Message
  <2>5. told' \in [Kinds -> Message]
    BY <1>2, <1>9, <2>4 DEF Send
  <2>6. unsaid' \subseteq Kinds
    BY <1>2, <1>9, <2>3 DEF Send, Run
  <2> QED BY <1>2, <1>9, <2>2, <2>5, <2>6 DEF Send
<1>10. ASSUME NEW t \in Ticks, GoesOn(t)
       PROVE  Rest
  BY <1>2, <1>10 DEF GoesOn, LeavesAlerts
<1>11. ASSUME NEW t \in Ticks, GoesOff(t)
       PROVE  Rest
  BY <1>2, <1>3, <1>11 DEF GoesOff, LeavesAlerts
<1>12. \A t \in Ticks : Unsent(t) \subseteq Kinds
  BY <1>2 DEF Unsent, Run
<1>13. ASSUME NEW t \in Ticks, Abort(t)
       PROVE  Rest
  <2>1. unsaid' \subseteq Kinds
    BY <1>2, <1>12, <1>13 DEF Abort
  <2> QED BY <1>2, <1>3, <1>13, <2>1 DEF Abort
<1>14. ASSUME NEW i \in Instances, Crash(i)
       PROVE  Rest
  <2>1. unsaid' \subseteq Kinds
    BY <1>2, <1>12, <1>14 DEF Crash
  <2>2. run' \in [Ticks -> Run]
    BY <1>2, <1>3, <1>14 DEF Crash
  <2>3. settled' \in BOOLEAN
    BY <1>14 DEF Crash
  <2> QED BY <1>2, <1>14, <2>1, <2>2, <2>3 DEF Crash
<1>15. ASSUME NEW k \in Kinds, AckAlert(k)
       PROVE  Rest
  <2>1. alert' \in [Kinds -> Row]
    BY <1>2, <1>15 DEF AckAlert, Row
  <2> QED BY <1>2, <1>15, <2>1 DEF AckAlert
<1>16. ASSUME NEW status \in {"open", "acknowledged", "resolved"}, PatchIncident(status)
       PROVE  Rest
  BY <1>2, <1>16 DEF PatchIncident
<1>17. ASSUME Tick
       PROVE  Rest
  BY <1>2, <1>17, AlertAssumption DEF Tick, history
<1>18. Rest
  BY Steps, <1>4, <1>5, <1>6, <1>7, <1>8, <1>9, <1>10, <1>11, <1>13, <1>14, <1>15, <1>16, <1>17 DEF TypeOK
<1> QED BY <1>1, <1>18 DEF TypeOK, Run, Message

\* A tick that is not running has no locals.
LEMMA OnlyRunningStep ==
  ASSUME TypeOK, OnlyRunning, [Next]_vars
  PROVE  OnlyRunning'
<1>1. run \in [Ticks -> Run] /\ tick \in [Ticks -> {"idle", "asking", "granted", "running"}]
  BY RunTypes
<1>2. CASE Around
  BY <1>2 DEF Around, LoopOnly, OnlyRunning
<1>3. ASSUME NEW t \in Ticks, BeginRun(t)
      PROVE  OnlyRunning'
  BY <1>1, <1>3 DEF BeginRun, StartRun, OnlyRunning
<1>4. ASSUME NEW t \in Ticks,
             \/ ReadAlerts(t) \/ (\E k \in Kinds : WriteAlert(t, k)) \/ AllWritten(t)
             \/ Send(t) \/ GoesOn(t)
      PROVE  OnlyRunning'
  <2>1. tick[t] = "running" /\ tick' = tick
    BY <1>4 DEF ReadAlerts, WriteAlert, AllWritten, Send, GoesOn, LeavesAlerts, InPhase, loopVars
  <2>2. \A u \in Ticks : u # t => run'[u] = run[u]
    BY <1>1, <1>4 DEF ReadAlerts, WriteAlert, AllWritten, Send, GoesOn
  <2> QED BY <2>1, <2>2 DEF OnlyRunning
<1>5. ASSUME NEW t \in Ticks, GoesOff(t) \/ Abort(t)
      PROVE  OnlyRunning'
  <2>1. /\ \A u \in Ticks : run'[u] = IF u = t THEN Idle ELSE run[u]
        /\ \A u \in Ticks : u # t => tick'[u] = tick[u]
    BY <1>1, <1>5 DEF GoesOff, Abort, EndRun
  <2> QED BY <2>1 DEF OnlyRunning
<1>6. ASSUME NEW i \in Instances, Crash(i)
      PROVE  OnlyRunning'
  <2>1. \A u \in Ticks :
          /\ run'[u] = IF InstanceOf[u] = i THEN Idle ELSE run[u]
          /\ InstanceOf[u] # i => tick'[u] = tick[u]
    BY <1>1, <1>6 DEF Crash, LoseLoop
  <2> QED BY <2>1 DEF OnlyRunning
<1>7. CASE \/ \E k \in Kinds : AckAlert(k)
           \/ \E status \in {"open", "acknowledged", "resolved"} : PatchIncident(status)
           \/ Tick
  BY <1>7 DEF AckAlert, PatchIncident, Tick, loopVars, OnlyRunning
<1> QED BY Steps, <1>2, <1>3, <1>4, <1>5, <1>6, <1>7 DEF TypeOK

LEMMA AlertInit ==
  ASSUME Init
  PROVE  TypeOK /\ Flight /\ OnlyRunning
<1>1. LoopTypeOK /\ Flight
  BY DEF Init, LoopInit, LoopTypeOK, Flight, SingleFlight
<1>2. OnlyRunning
  BY DEF Init, OnlyRunning
<1>3. alert \in [Kinds -> Row] /\ run \in [Ticks -> Run]
  BY Constants DEF Init
<1>4. told \in [Kinds -> Message]
  BY DEF Init, Message
<1>5. now \in Nat /\ incident = "none" /\ unsaid = {} /\ ackedSince = {} /\ settled = TRUE
  BY DEF Init
<1> QED BY <1>1, <1>2, <1>3, <1>4, <1>5 DEF TypeOK, Run, Message

Base == TypeOK /\ Flight /\ OnlyRunning

LEMMA BaseStep == Base /\ [Next]_vars => Base'
BY TypeStep, FlightStep, LoopSteps, OnlyRunningStep DEF Base, TypeOK

\* Every variable keeps its type, for any number of processes, ticks and kinds.
THEOREM TypeCorrect == Spec => []TypeOK
<1>1. Init => Base
  BY AlertInit DEF Base
<1>2. Base => TypeOK
  BY DEF Base
<1> QED BY <1>1, <1>2, BaseStep, PTL DEF Spec

\* One process runs the body of the loop at most once at a time, whatever ticks are
\* delivered while the lock is awaited, however the body ends (scheduler.ts:135-175).
THEOREM OneFlightPerProcess == Spec => []SingleFlight
<1>1. Init => Base
  BY AlertInit DEF Base
<1>2. Base => SingleFlight
  BY DEF Base, Flight
<1> QED BY <1>1, <1>2, BaseStep, PTL DEF Spec

-----------------------------------------------------------------------------
(* One process runs the loop: what a run decided still fits what it read *)

OneProcess == \A t, u \in Ticks : InstanceOf[t] = InstanceOf[u]

\* The row r is going to write for k, next to the row of the table.
Decided(r, k, row, acked) ==
    LET new == r.rows[k]
    IN  /\ new.status \in {"open", "acknowledged", "resolved"}
        /\ k \in r.notify => new.status = "open" /\ new.notified = r.at
        /\ new.status = "resolved" =>
             /\ r.at - row.seen >= ResolveAfter
             /\ new.seen = row.seen /\ new.severity = row.severity /\ new.notified = row.notified
        /\ new.status = "open" /\ row.status = "acknowledged" => acked
        /\ k \notin r.notify /\ new.status # "resolved" =>
             /\ IsActive(row.status)
             /\ new.severity = row.severity /\ new.notified = row.notified

\* The row r wrote for k and has not sent yet.
Written(r, k, row) ==
    IsActive(row.status) /\ row.severity = r.rows[k].severity /\ row.notified = r.at

RunOK(r) ==
    /\ r.at <= now
    /\ r.phase = "writing" => \A k \in r.todo : Decided(r, k, alert[k], k \in ackedSince)
    /\ r.phase \in {"writing", "sending"} => \A k \in r.notify \ r.todo : Written(r, k, alert[k])
    /\ r.phase = "sending" => r.todo = {}

RunsOK == \A t \in Ticks : RunOK(run[t])

LEMMA Alone ==
  ASSUME OneProcess, Base, NEW t \in Ticks, tick[t] # "idle"
  PROVE  \A u \in Ticks : u # t => tick[u] = "idle" /\ run[u] = Idle
BY DEF OneProcess, Base, Flight, SingleFlight, OnlyRunning

LEMMA IdleIsOK == ASSUME Base PROVE RunOK(Idle)
BY Constants DEF RunOK, Base, TypeOK

LEMMA RunsOKStep ==
  ASSUME OneProcess, Base, Base', RunsOK, [Next]_vars
  PROVE  RunsOK'
<1>1. /\ run \in [Ticks -> Run] /\ alert \in [Kinds -> Row] /\ now \in Nat
      /\ tick \in [Ticks -> {"idle", "asking", "granted", "running"}]
  BY RunTypes DEF Base
<1> DEFINE Mine(t) == RunOK(run[t])'
<1>2. CASE Around
  BY <1>2 DEF Around, LoopOnly, history, RunsOK, RunOK
<1>3. Idle.phase = "none" /\ Idle.at = 0 /\ now' \in Nat
  BY Constants, RunTypes DEF Base, TypeOK
<1>4. \A u \in Ticks : run'[u] = Idle => Mine(u)
  BY <1>3 DEF RunOK
<1>5. ASSUME NEW t \in Ticks, tick[t] # "idle", Mine(t), \A u \in Ticks : u # t => run'[u] = run[u]
      PROVE  RunsOK'
  <2>1. \A u \in Ticks : u # t => run'[u] = Idle
    BY <1>5, Alone
  <2> QED BY <1>4, <1>5, <2>1 DEF RunsOK
<1>6. ASSUME NEW t \in Ticks, BeginRun(t)
      PROVE  RunsOK'
  <2>1. tick[t] # "idle" /\ now' = now /\ run' = [run EXCEPT ![t] = [Idle EXCEPT !.phase = "reading", !.at = now]]
    BY <1>6 DEF BeginRun, StartRun
  <2>2. run'[t] = [Idle EXCEPT !.phase = "reading", !.at = now] /\ \A u \in Ticks : u # t => run'[u] = run[u]
    BY <1>1, <2>1
  <2>3. run'[t].phase = "reading" /\ run'[t].at = now
    BY <2>2, Constants DEF Run
  <2>4. Mine(t)
    BY <1>1, <2>1, <2>3 DEF RunOK
  <2> QED BY <1>5, <2>1, <2>2, <2>4
<1>7. ASSUME NEW t \in Ticks, ReadAlerts(t)
      PROVE  RunsOK'
  <2>1. tick[t] # "idle" /\ now' = now /\ alert' = alert
    BY <1>7 DEF ReadAlerts, InPhase
  <2>2. PICK found \in [Kinds -> Severities \cup {"none"}] :
          LET r == Decides(t, found)
          IN  /\ r \in Run
              /\ run' = [run EXCEPT ![t] = r]
              /\ r.phase = "writing" /\ r.at = run[t].at
              /\ r.todo = {k \in Kinds : Upserts(found[k], alert[k], r.at)}
              /\ r.notify = {k \in Kinds : Notifies(found[k], alert[k], r.at)}
              /\ \A k \in r.todo : r.rows[k] = Reconciled(found[k], alert[k], r.at)
    BY <1>7, ReadOf DEF Base
  <2> DEFINE r == Decides(t, found)
  <2>3. /\ r \in Run
        /\ run'[t] = r
        /\ r.phase = "writing" /\ r.at = run[t].at
        /\ r.todo = {k \in Kinds : Upserts(found[k], alert[k], r.at)}
        /\ r.notify = {k \in Kinds : Notifies(found[k], alert[k], r.at)}
        /\ \A k \in r.todo : r.rows[k] = Reconciled(found[k], alert[k], r.at)
    BY <1>1, <2>2
  <2> HIDE DEF r
  <2>4. ASSUME NEW k \in r.todo
        PROVE  Decided(r, k, alert[k], k \in ackedSince')
    <3>1. k \in Kinds /\ Upserts(found[k], alert[k], r.at) /\ r.at \in Nat
      BY <2>3 DEF Run
    <3>2. found[k] \in Severities \cup {"none"} /\ alert[k] \in Row
      BY <1>1, <3>1
    <3>3. LET out == r.rows[k]
          IN  /\ out.status \in {"open", "acknowledged", "resolved"}
              /\ Notifies(found[k], alert[k], r.at) => out.status = "open" /\ out.notified = r.at
              /\ out.status = "resolved" =>
                   /\ r.at - alert[k].seen >= ResolveAfter
                   /\ out.seen = alert[k].seen /\ out.severity = alert[k].severity
                   /\ out.notified = alert[k].notified
              /\ out.status = "open" => alert[k].status # "acknowledged"
              /\ out.status # "resolved" /\ ~Notifies(found[k], alert[k], r.at) =>
                   /\ IsActive(alert[k].status)
                   /\ out.severity = alert[k].severity /\ out.notified = alert[k].notified
      BY <2>3, <3>1, <3>2, Decision
    <3>4. k \in r.notify <=> Notifies(found[k], alert[k], r.at)
      BY <2>3, <3>1
    <3> QED BY <3>3, <3>4 DEF Decided
  <2>5. r.notify \subseteq r.todo
    BY <2>3, NotifiedIsUpserted
  <2>6. r.at <= now
    BY <2>3 DEF RunsOK, RunOK
  <2>7. Mine(t)
    BY <2>1, <2>3, <2>4, <2>5, <2>6 DEF RunOK
  <2> QED BY <1>1, <1>5, <2>1, <2>2, <2>7
<1>8. ASSUME NEW t \in Ticks, NEW k \in Kinds, WriteAlert(t, k)
      PROVE  RunsOK'
  <2>1. tick[t] # "idle" /\ now' = now /\ ackedSince' = ackedSince /\ k \in run[t].todo
    BY <1>8 DEF WriteAlert, InPhase, history
  <2>2. /\ \A u \in Ticks : u # t => run'[u] = run[u]
        /\ run'[t].phase = "writing" /\ run[t].phase = "writing"
        /\ run'[t].at = run[t].at
        /\ run'[t].todo = run[t].todo \ {k}
        /\ run'[t].notify = run[t].notify
        /\ \A j \in Kinds : j # k => run'[t].rows[j] = run[t].rows[j]
        /\ k \in run[t].notify => run'[t].rows[k] = run[t].rows[k]
        /\ alert'[k] = Upserted(alert[k], run[t].rows[k])
        /\ \A j \in Kinds : j # k => alert'[j] = alert[j]
    BY <1>8, WriteOf DEF Base
  <2>3. run[t].todo \subseteq Kinds /\ run[t].notify \subseteq Kinds /\ run[t].rows[k] \in Row
    BY <1>1 DEF Run
  <2>4. /\ alert'[k].status = run[t].rows[k].status
        /\ alert'[k].severity = run[t].rows[k].severity
        /\ alert'[k].notified = run[t].rows[k].notified
    BY <1>1, <2>2, <2>3, UpsertOf
  <2>5. /\ run[t].at <= now
        /\ \A j \in run[t].todo : Decided(run[t], j, alert[j], j \in ackedSince)
        /\ \A j \in run[t].notify \ run[t].todo : Written(run[t], j, alert[j])
    BY <2>2 DEF RunsOK, RunOK
  <2>6. ASSUME NEW j \in run'[t].todo
        PROVE  Decided(run'[t], j, alert'[j], j \in ackedSince')
    <3>1. j # k /\ j \in Kinds /\ j \in run[t].todo
      BY <2>2, <2>3
    <3> QED BY <2>1, <2>2, <2>5, <3>1 DEF Decided
  <2>7. ASSUME NEW j \in run'[t].notify \ run'[t].todo
        PROVE  Written(run'[t], j, alert'[j])
    <3>1. CASE j # k
      <4>1. j \in Kinds /\ j \in run[t].notify \ run[t].todo
        BY <2>2, <2>3, <3>1
      <4> QED BY <2>2, <2>5, <3>1, <4>1 DEF Written
    <3>2. CASE j = k
      <4>1. run[t].rows[k].status = "open" /\ run[t].rows[k].notified = run[t].at
        BY <2>1, <2>2, <2>5, <3>2 DEF Decided
      <4>2. run'[t].rows[k] = run[t].rows[k] /\ run'[t].at = run[t].at
        BY <2>2, <3>2
      <4> QED BY <2>4, <3>2, <4>1, <4>2 DEF Written, IsActive
    <3> QED BY <3>1, <3>2
  <2>8. Mine(t)
    BY <2>1, <2>2, <2>5, <2>6, <2>7 DEF RunOK
  <2> QED BY <1>5, <2>1, <2>2, <2>8
<1>9. ASSUME NEW t \in Ticks, AllWritten(t)
      PROVE  RunsOK'
  <2>1. /\ tick[t] # "idle" /\ now' = now /\ alert' = alert
        /\ run[t].phase = "writing" /\ run[t].todo = {}
    BY <1>9 DEF AllWritten, InPhase
  <2>2. /\ \A u \in Ticks : u # t => run'[u] = run[u]
        /\ run'[t].phase \in {"correlating", "sending"} /\ run'[t].at = run[t].at
        /\ run'[t].todo = {} /\ run'[t].notify = run[t].notify /\ run'[t].rows = run[t].rows
    BY <1>1, <1>9, <2>1 DEF AllWritten, Run
  <2>3. run[t].at <= now /\ \A j \in run[t].notify : Written(run[t], j, alert[j])
    BY <2>1 DEF RunsOK, RunOK
  <2>4. \A j \in run'[t].notify : Written(run'[t], j, alert'[j])
    BY <2>1, <2>2, <2>3 DEF Written
  <2>5. Mine(t)
    BY <2>1, <2>2, <2>3, <2>4 DEF RunOK
  <2> QED BY <1>5, <2>1, <2>2, <2>5
<1>10. ASSUME NEW t \in Ticks, Send(t)
       PROVE  RunsOK'
  <2>1. tick[t] # "idle" /\ now' = now
    BY <1>10 DEF Send, InPhase
  <2>2. /\ run'[t] = [Idle EXCEPT !.phase = "correlating", !.at = run[t].at]
        /\ \A u \in Ticks : u # t => run'[u] = run[u]
    BY <1>1, <1>10 DEF Send
  <2>3. run'[t].phase = "correlating" /\ run'[t].at = run[t].at
    BY <2>2, Constants DEF Run
  <2>4. run[t].at <= now
    BY DEF RunsOK, RunOK
  <2>5. Mine(t)
    BY <2>1, <2>3, <2>4 DEF RunOK
  <2> QED BY <1>5, <2>1, <2>2, <2>5
<1>11. ASSUME NEW t \in Ticks, GoesOn(t)
       PROVE  RunsOK'
  <2>1. tick[t] # "idle" /\ now' = now
    BY <1>11 DEF GoesOn, LeavesAlerts
  <2>2. /\ run'[t].phase \in CorrelationPhases /\ run'[t].at = run[t].at
        /\ \A u \in Ticks : u # t => run'[u] = run[u]
    BY <1>1, <1>11 DEF GoesOn
  <2>3. run[t].at <= now
    BY DEF RunsOK, RunOK
  <2>4. Mine(t)
    BY <2>1, <2>2, <2>3 DEF RunOK, CorrelationPhases
  <2> QED BY <1>5, <2>1, <2>2, <2>4
<1>12. ASSUME NEW t \in Ticks, GoesOff(t) \/ Abort(t)
       PROVE  RunsOK'
  <2>1. tick[t] # "idle"
    BY <1>12 DEF GoesOff, LeavesAlerts, Abort, EndRun
  <2>2. run'[t] = Idle /\ \A u \in Ticks : u # t => run'[u] = run[u]
    BY <1>1, <1>12 DEF GoesOff, Abort
  <2> QED BY <1>4, <1>5, <2>1, <2>2
<1>13. ASSUME NEW i \in Instances, Crash(i)
       PROVE  RunsOK'
  <2>1. PICK t \in Ticks : InstanceOf[t] = i
    BY <1>13 DEF Crash
  <2>2. \A u \in Ticks : run'[u] = Idle
    BY <1>13, <2>1 DEF Crash, OneProcess
  <2> QED BY <1>4, <2>2 DEF RunsOK
<1>14. ASSUME NEW k \in Kinds, AckAlert(k)
       PROVE  RunsOK'
  <2>1. /\ run' = run /\ now' = now /\ ackedSince' = ackedSince \cup {k}
        /\ alert[k].status = "open"
        /\ \A j \in Kinds : j # k => alert'[j] = alert[j]
    BY <1>1, <1>14 DEF AckAlert
  <2>2. /\ alert'[k].status = "acknowledged" /\ alert'[k].severity = alert[k].severity
        /\ alert'[k].seen = alert[k].seen /\ alert'[k].notified = alert[k].notified
    BY <1>1, <1>14 DEF AckAlert, Row
  <2>3. ASSUME NEW t \in Ticks
        PROVE  Mine(t)
    <3>1. run[t].todo \subseteq Kinds /\ run[t].notify \subseteq Kinds
      BY <1>1 DEF Run
    <3>2. \A j \in Kinds : Decided(run[t], j, alert[j], j \in ackedSince)
                             => Decided(run[t], j, alert'[j], j \in ackedSince')
      <4> SUFFICES ASSUME NEW j \in Kinds, Decided(run[t], j, alert[j], j \in ackedSince)
                   PROVE  Decided(run[t], j, alert'[j], j \in ackedSince')
        OBVIOUS
      <4>1. CASE j = k
        BY <2>1, <2>2, <4>1 DEF Decided, IsActive
      <4>2. CASE j # k
        BY <2>1, <4>2 DEF Decided
      <4> QED BY <4>1, <4>2
    <3>3. \A j \in Kinds : Written(run[t], j, alert[j]) => Written(run[t], j, alert'[j])
      BY <2>1, <2>2 DEF Written, IsActive
    <3>4. RunOK(run[t])
      BY DEF RunsOK
    <3> QED BY <2>1, <3>1, <3>2, <3>3, <3>4 DEF RunOK
  <2> QED BY <2>3 DEF RunsOK
<1>15. ASSUME NEW status \in {"open", "acknowledged", "resolved"}, PatchIncident(status)
       PROVE  RunsOK'
  BY <1>15 DEF PatchIncident, RunsOK, RunOK
<1>16. CASE Tick
  <2>1. /\ now' = now + 1 /\ run' = run /\ alert' = alert /\ ackedSince' = ackedSince
        /\ \A t \in Ticks : run[t].at \in Nat
    BY <1>1, <1>16 DEF Tick, history, Run
  <2>2. \A t \in Ticks : run[t].at <= now => run'[t].at <= now'
    BY <1>1, <2>1
  <2> QED BY <2>1, <2>2 DEF RunsOK, RunOK
<1> QED
  BY Steps, <1>2, <1>6, <1>7, <1>8, <1>9, <1>10, <1>11, <1>12, <1>13, <1>14, <1>15, <1>16
     DEF Base, TypeOK

LEMMA OneRun == OneProcess /\ Spec => [](Base /\ RunsOK)
<1>1. Init => Base
  BY AlertInit DEF Base
<1>2. Init => RunsOK
  <2> SUFFICES ASSUME Init PROVE RunsOK
    OBVIOUS
  <2>1. RunOK(Idle)
    BY <1>1, IdleIsOK
  <2>2. \A t \in Ticks : run[t] = Idle
    BY DEF Init
  <2> QED BY <2>1, <2>2 DEF RunsOK
<1>3. OneProcess /\ Base /\ RunsOK /\ [Next]_vars => Base' /\ RunsOK'
  BY BaseStep, RunsOKStep
<1>4. OneProcess => OneProcess'
  BY DEF OneProcess
<1> QED BY <1>1, <1>2, <1>3, <1>4, PTL DEF Spec

\* Whoever changes the status of a row of the table.
LEMMA StatusChanges ==
  ASSUME TypeOK, [Next]_vars, NEW k \in Kinds, alert'[k].status # alert[k].status
  PROVE  \/ AckAlert(k) /\ alert'[k].status = "acknowledged"
         \/ \E t \in Ticks : WriteAlert(t, k) /\ alert'[k].status = run[t].rows[k].status
<1>1. run \in [Ticks -> Run] /\ alert \in [Kinds -> Row]
  BY RunTypes
<1>2. CASE alert' = alert
  BY <1>2
<1>3. ASSUME NEW t \in Ticks, NEW j \in Kinds, WriteAlert(t, j)
      PROVE  WriteAlert(t, k) /\ alert'[k].status = run[t].rows[k].status
  <2>1. j = k /\ alert'[k] = Upserted(alert[k], run[t].rows[k])
    BY <1>3, WriteOf
  <2>2. run[t].rows[k] \in Row /\ alert[k] \in Row
    BY <1>1 DEF Run
  <2> QED BY <1>3, <2>1, <2>2, UpsertOf
<1>4. ASSUME NEW j \in Kinds, AckAlert(j)
      PROVE  AckAlert(k) /\ alert'[k].status = "acknowledged"
  <2>1. j = k
    BY <1>1, <1>4 DEF AckAlert
  <2> QED BY <1>1, <1>4, <2>1 DEF AckAlert, Row
<1>5. CASE Around
  BY <1>2, <1>5 DEF Around, LoopOnly
<1>6. ASSUME NEW t \in Ticks,
             \/ BeginRun(t) \/ ReadAlerts(t) \/ AllWritten(t) \/ Send(t)
             \/ GoesOn(t) \/ GoesOff(t) \/ Abort(t)
      PROVE  alert' = alert
  BY <1>6 DEF BeginRun, ReadAlerts, AllWritten, Send, GoesOn, GoesOff, LeavesAlerts, Abort
<1>7. CASE \/ \E i \in Instances : Crash(i)
           \/ \E status \in {"open", "acknowledged", "resolved"} : PatchIncident(status)
           \/ Tick
  BY <1>2, <1>7 DEF Crash, PatchIncident, Tick
<1> QED BY Steps, <1>2, <1>3, <1>4, <1>5, <1>6, <1>7 DEF TypeOK

\* What a run writes is what it decided.
LEMMA WritesTheDecided ==
  ASSUME RunsOK, NEW t \in Ticks, NEW k \in Kinds, WriteAlert(t, k)
  PROVE  Decided(run[t], k, alert[k], k \in ackedSince) /\ run[t].at <= now
BY DEF WriteAlert, InPhase, RunsOK, RunOK

\* While one process runs the loop, nothing is resolved that another run refreshed since
\* it was found stale: see ResolvedOnlyWhenStale (dedup.ts:134).
THEOREM OnlyTheStaleIsResolved == OneProcess /\ Spec => ResolvedOnlyWhenStale
<1> DEFINE Resolves == \A k \in Kinds :
                         IsActive(alert[k].status) /\ alert'[k].status = "resolved"
                           => now - alert[k].seen >= ResolveAfter
<1>1. Base /\ RunsOK /\ [Next]_vars => [Resolves]_vars
  <2> SUFFICES ASSUME Base, RunsOK, [Next]_vars, NEW k \in Kinds,
                      IsActive(alert[k].status), alert'[k].status = "resolved"
               PROVE  now - alert[k].seen >= ResolveAfter
    OBVIOUS
  <2>1. TypeOK /\ alert'[k].status # alert[k].status
    BY DEF Base, IsActive
  <2>2. PICK t \in Ticks : WriteAlert(t, k) /\ alert'[k].status = run[t].rows[k].status
    BY <2>1, StatusChanges
  <2>3. run[t].at - alert[k].seen >= ResolveAfter /\ run[t].at <= now
    BY <2>2, WritesTheDecided DEF Decided
  <2>4. run[t].at \in Nat /\ alert[k].seen \in Nat /\ now \in Nat /\ ResolveAfter \in Nat
    BY <2>1, RunTypes, AlertAssumption DEF Run, Row
  <2> QED BY <2>3, <2>4
<1> QED BY <1>1, OneRun, PTL DEF Spec, ResolvedOnlyWhenStale

\* While one process runs the loop, an acknowledgement is taken back only by a run that
\* had read the alert before it was given (manager.ts:259, dedup.ts:99).
THEOREM AckSurvivesTheNextRun == OneProcess /\ Spec => AckUndoneOnlyWithinRun
<1> DEFINE Undoes == \A k \in Kinds :
                       alert[k].status = "acknowledged" /\ alert'[k].status = "open"
                         => k \in ackedSince
<1>1. Base /\ RunsOK /\ [Next]_vars => [Undoes]_vars
  <2> SUFFICES ASSUME Base, RunsOK, [Next]_vars, NEW k \in Kinds,
                      alert[k].status = "acknowledged", alert'[k].status = "open"
               PROVE  k \in ackedSince
    OBVIOUS
  <2>1. TypeOK
    BY DEF Base
  <2>2. PICK t \in Ticks : WriteAlert(t, k) /\ alert'[k].status = run[t].rows[k].status
    BY <2>1, StatusChanges
  <2> QED BY <2>2, WritesTheDecided DEF Decided
<1> QED BY <1>1, OneRun, PTL DEF Spec, AckUndoneOnlyWithinRun

-----------------------------------------------------------------------------
(* What an operator was told *)

TellsOf(r) == IF r.phase \in {"writing", "sending"} THEN r.notify \ r.todo ELSE {}

\* Of every alert that is alive, acknowledged or not: an acknowledgement that a run
\* takes back leaves an open alert.
ToldOK ==
    \A k \in Kinds :
      IsActive(alert[k].status) /\ ~Pending(k) /\ k \notin unsaid
        => told[k] = [severity |-> alert[k].severity, at |-> alert[k].notified]

LEMMA PendingAlone ==
  ASSUME OneProcess, Base, NEW t \in Ticks, tick[t] # "idle"
  PROVE  \A k : Pending(k) <=> k \in TellsOf(run[t])
<1>1. \A u \in Ticks : u # t => Unsent(u) = {}
  BY Alone, Constants DEF Unsent
<1>2. Unsent(t) = TellsOf(run[t])
  BY DEF Unsent, TellsOf
<1> QED BY <1>1, <1>2 DEF Pending

LEMMA ToldStep ==
  ASSUME OneProcess, Base, Base', RunsOK, RunsOK', ToldOK, [Next]_vars
  PROVE  ToldOK'
<1>1. /\ run \in [Ticks -> Run] /\ alert \in [Kinds -> Row] /\ told \in [Kinds -> Message]
      /\ tick \in [Ticks -> {"idle", "asking", "granted", "running"}]
  BY RunTypes DEF Base
<1> SUFFICES ASSUME NEW k \in Kinds, IsActive(alert'[k].status), ~Pending(k)', k \notin unsaid'
             PROVE  told'[k] = [severity |-> alert'[k].severity, at |-> alert'[k].notified]
  BY DEF ToldOK
<1> DEFINE Good == told'[k] = [severity |-> alert'[k].severity, at |-> alert'[k].notified]
<1>2. ASSUME IsActive(alert[k].status), ~Pending(k), k \notin unsaid, told' = told,
             alert'[k].severity = alert[k].severity, alert'[k].notified = alert[k].notified
      PROVE  Good
  BY <1>2 DEF ToldOK
<1>3. CASE Around \/ Tick \/ \E status \in {"open", "acknowledged", "resolved"} : PatchIncident(status)
  <2>1. run' = run /\ alert' = alert /\ told' = told /\ unsaid' = unsaid
    BY <1>3 DEF Around, LoopOnly, Tick, PatchIncident, history
  <2>2. ~Pending(k)
    BY <2>1 DEF Pending, Unsent
  <2> QED BY <1>2, <2>1, <2>2
<1>4. ASSUME NEW t \in Ticks, BeginRun(t)
      PROVE  Good
  <2>1. tick[t] # "idle" /\ tick'[t] # "idle" /\ alert' = alert /\ told' = told /\ unsaid' = unsaid
    BY <1>1, <1>4 DEF BeginRun, StartRun, history
  <2>2. run[t] = Idle
    BY <1>4 DEF BeginRun, StartRun, Base, OnlyRunning
  <2>3. ~Pending(k)
    BY <2>1, <2>2, PendingAlone, Constants DEF TellsOf
  <2> QED BY <1>2, <2>1, <2>3
<1>5. ASSUME NEW t \in Ticks, tick[t] # "idle", TellsOf(run[t]) \subseteq TellsOf(run'[t]),
             tick'[t] # "idle", told' = told, unsaid' = unsaid,
             alert'[k].severity = alert[k].severity, alert'[k].notified = alert[k].notified,
             IsActive(alert[k].status)
      PROVE  Good
  <2>1. ~(k \in TellsOf(run'[t]))
    <3>1. \A u \in Ticks : u # t => Unsent(u)' = {}
      <4>1. \A u \in Ticks : u # t => run'[u] = Idle
        <5>1. Flight' /\ OnlyRunning'
          BY DEF Base
        <5>2. \A u \in Ticks : u # t => tick'[u] = "idle"
          BY <1>5, <5>1 DEF Flight, SingleFlight, OneProcess
        <5> QED BY <5>1, <5>2 DEF OnlyRunning
      <4> QED BY <4>1, Constants DEF Unsent
    <3>2. Unsent(t)' = TellsOf(run'[t])
      BY DEF Unsent, TellsOf
    <3> QED BY <3>1, <3>2 DEF Pending
  <2>2. ~Pending(k)
    BY <1>5, <2>1, PendingAlone
  <2> QED BY <1>2, <1>5, <2>2
<1>6. ASSUME NEW t \in Ticks, ReadAlerts(t)
      PROVE  Good
  <2>1. /\ tick[t] # "idle" /\ tick'[t] # "idle" /\ alert' = alert /\ told' = told
        /\ unsaid' = unsaid /\ run[t].phase = "reading"
    BY <1>6 DEF ReadAlerts, InPhase, loopVars
  <2>2. TellsOf(run[t]) = {}
    BY <2>1 DEF TellsOf
  <2> QED BY <1>5, <2>1, <2>2
<1>7. ASSUME NEW t \in Ticks, NEW j \in Kinds, WriteAlert(t, j)
      PROVE  Good
  <2>1. /\ tick[t] # "idle" /\ tick'[t] # "idle" /\ told' = told /\ unsaid' = unsaid
        /\ j \in run[t].todo
    BY <1>7 DEF WriteAlert, InPhase, history, loopVars
  <2>2. /\ run'[t].phase = "writing" /\ run[t].phase = "writing"
        /\ run'[t].todo = run[t].todo \ {j} /\ run'[t].notify = run[t].notify
        /\ alert'[j] = Upserted(alert[j], run[t].rows[j])
        /\ \A i \in Kinds : i # j => alert'[i] = alert[i]
    BY <1>7, WriteOf DEF Base
  <2>3. TellsOf(run[t]) \subseteq TellsOf(run'[t])
    BY <2>2 DEF TellsOf
  <2>4. CASE k # j
    BY <1>5, <2>1, <2>2, <2>3, <2>4
  <2>5. CASE k = j
    <3>1. run[t].rows[k] \in Row /\ alert[k] \in Row
      BY <1>1 DEF Run
    <3>2. /\ alert'[k].status = run[t].rows[k].status
          /\ alert'[k].severity = run[t].rows[k].severity
          /\ alert'[k].notified = run[t].rows[k].notified
      BY <2>2, <2>5, <3>1, UpsertOf
    <3>3. Decided(run[t], k, alert[k], k \in ackedSince)
      BY <1>7, <2>5, WritesTheDecided
    <3>4. k \notin run[t].notify
      <4>1. SUFFICES ASSUME k \in run[t].notify PROVE FALSE
        OBVIOUS
      <4>2. k \in Unsent(t)'
        BY <2>2, <2>5, <4>1 DEF Unsent
      <4> QED BY <4>2 DEF Pending
    <3>5. /\ IsActive(alert[k].status)
          /\ alert'[k].severity = alert[k].severity /\ alert'[k].notified = alert[k].notified
      BY <3>2, <3>3, <3>4 DEF Decided, IsActive
    <3> QED BY <1>5, <2>1, <2>3, <3>5
  <2> QED BY <2>4, <2>5
<1>8. ASSUME NEW t \in Ticks, AllWritten(t)
      PROVE  Good
  <2>1. /\ tick[t] # "idle" /\ tick'[t] # "idle" /\ alert' = alert /\ told' = told
        /\ unsaid' = unsaid /\ run[t].phase = "writing" /\ run[t].todo = {}
    BY <1>8 DEF AllWritten, InPhase, loopVars, history
  <2>2. /\ run'[t].phase = IF run[t].notify = {} THEN "correlating" ELSE "sending"
        /\ run'[t].notify = run[t].notify /\ run'[t].todo = run[t].todo
    BY <1>1, <1>8, <2>1 DEF AllWritten, Run
  <2>3. TellsOf(run[t]) \subseteq TellsOf(run'[t])
    BY <2>1, <2>2 DEF TellsOf
  <2> QED BY <1>5, <2>1, <2>3
<1>9. ASSUME NEW t \in Ticks, Send(t)
      PROVE  Good
  <2>1. tick[t] # "idle" /\ alert' = alert /\ run[t].phase = "sending"
    BY <1>9 DEF Send, InPhase
  <2>2. run[t].todo = {} /\ \A j \in run[t].notify : Written(run[t], j, alert[j])
    BY <2>1 DEF RunsOK, RunOK
  <2>3. Pending(k) <=> k \in run[t].notify
    BY <2>1, <2>2, PendingAlone DEF TellsOf
  <2>4. CASE k \in run[t].notify
    <3>1. told'[k] = [severity |-> run[t].rows[k].severity, at |-> run[t].at]
      BY <1>9, <2>4 DEF Send
    <3>2. alert[k].severity = run[t].rows[k].severity /\ alert[k].notified = run[t].at
      BY <2>2, <2>4 DEF Written
    <3> QED BY <2>1, <3>1, <3>2
  <2>5. CASE k \notin run[t].notify
    <3>1. told'[k] = told[k] /\ k \notin unsaid
      BY <1>9, <2>5 DEF Send
    <3> QED BY <2>1, <2>3, <2>5, <3>1 DEF ToldOK
  <2> QED BY <2>4, <2>5
<1>10. ASSUME NEW t \in Ticks, GoesOn(t)
       PROVE  Good
  <2>1. /\ tick[t] # "idle" /\ tick'[t] # "idle" /\ alert' = alert /\ told' = told
        /\ unsaid' = unsaid /\ run[t].phase \in CorrelationPhases \cup {"correlating"}
    BY <1>10 DEF GoesOn, LeavesAlerts, loopVars
  <2>2. TellsOf(run[t]) = {}
    BY <2>1 DEF TellsOf, CorrelationPhases
  <2> QED BY <1>5, <2>1, <2>2
<1>11. ASSUME NEW t \in Ticks, GoesOff(t)
       PROVE  Good
  <2>1. /\ tick[t] # "idle" /\ alert' = alert /\ told' = told
        /\ unsaid' = unsaid /\ run[t].phase \in CorrelationPhases \cup {"correlating"}
    BY <1>11 DEF GoesOff, LeavesAlerts
  <2>2. ~Pending(k)
    BY <2>1, PendingAlone DEF TellsOf, CorrelationPhases
  <2> QED BY <1>2, <2>1, <2>2
<1>12. ASSUME NEW t \in Ticks, Abort(t)
       PROVE  Good
  <2>1. /\ tick[t] # "idle" /\ alert' = alert /\ told' = told
        /\ unsaid' = unsaid \cup Unsent(t)
    BY <1>12 DEF Abort, EndRun
  <2>2. ~Pending(k)
    BY <2>1, PendingAlone DEF TellsOf, Unsent
  <2> QED BY <1>2, <2>1, <2>2
<1>13. ASSUME NEW i \in Instances, Crash(i)
       PROVE  Good
  <2>1. PICK t \in Ticks : InstanceOf[t] = i /\ tick[t] # "idle"
    BY <1>13 DEF Crash
  <2>2. /\ alert' = alert /\ told' = told /\ unsaid \subseteq unsaid'
        /\ Unsent(t) \subseteq unsaid'
    BY <1>13, <2>1 DEF Crash
  <2>3. ~Pending(k)
    BY <2>1, <2>2, PendingAlone DEF TellsOf, Unsent
  <2> QED BY <1>2, <2>2, <2>3
<1>14. ASSUME NEW j \in Kinds, AckAlert(j)
       PROVE  Good
  <2>1. run' = run /\ told' = told /\ unsaid' = unsaid /\ alert[j].status = "open"
    BY <1>14 DEF AckAlert
  <2>2. /\ alert'[k].severity = alert[k].severity /\ alert'[k].notified = alert[k].notified
        /\ k # j => alert'[k] = alert[k]
    BY <1>1, <1>14 DEF AckAlert, Row
  <2>3. IsActive(alert[k].status)
    BY <2>1, <2>2 DEF IsActive
  <2>4. ~Pending(k)
    BY <2>1 DEF Pending, Unsent
  <2> QED BY <1>2, <2>1, <2>2, <2>3, <2>4
<1> QED
  BY Steps, <1>3, <1>4, <1>6, <1>7, <1>8, <1>9, <1>10, <1>11, <1>12, <1>13, <1>14 DEF Base, TypeOK

\* While one process runs the loop, every open alert is what an operator was last told,
\* unless the message failed or died with its run: see EveryOpenAlertWasTold
\* (dedup.ts:94-126, manager.ts:257-316).
THEOREM OperatorsAreTold == OneProcess /\ Spec => []EveryOpenAlertWasTold
<1>1. Init => ToldOK
  BY DEF Init, ToldOK, NoRow, IsActive
<1>2. OneProcess /\ Base /\ Base' /\ RunsOK /\ RunsOK' /\ ToldOK /\ [Next]_vars => ToldOK'
  BY ToldStep
<1>3. OneProcess => OneProcess'
  BY DEF OneProcess
<1>4. ToldOK => EveryOpenAlertWasTold
  BY DEF ToldOK, EveryOpenAlertWasTold, IsActive
<1> QED BY <1>1, <1>2, <1>3, <1>4, OneRun, PTL DEF Spec

-----------------------------------------------------------------------------
(* The incident of the device *)

Backed == IsActive(incident) <=> KindsSuffice

\* What a run that correlates knows: the count it read still holds, and an incident it
\* upserted is active unless an operator patched it since.
Counted(t) ==
    run[t].phase \in CorrelationPhases =>
      /\ run[t].correlated <=> KindsSuffice
      /\ run[t].phase \in {"opening", "linking"} => run[t].correlated
      /\ run[t].phase = "closing" => ~run[t].correlated
      /\ run[t].phase \in {"linking", "checking"} /\ run[t].correlated /\ settled
           => IsActive(incident)

IncidentOK ==
    /\ \A t \in Ticks : Counted(t)
    /\ settled /\ Running = {} => Backed

LEMMA IncidentStep ==
  ASSUME OneProcess, Base, Base', IncidentOK, [Next]_vars
  PROVE  IncidentOK'
<1>1. /\ run \in [Ticks -> Run] /\ alert \in [Kinds -> Row] /\ settled \in BOOLEAN
      /\ tick \in [Ticks -> {"idle", "asking", "granted", "running"}]
  BY RunTypes DEF Base
<1>2. (\A k \in Kinds : IsActive(alert'[k].status) <=> IsActive(alert[k].status))
        => (KindsSuffice' <=> KindsSuffice)
  <2> SUFFICES ASSUME \A k \in Kinds : IsActive(alert'[k].status) <=> IsActive(alert[k].status)
               PROVE  KindsSuffice' <=> KindsSuffice
    OBVIOUS
  <2>1. ActiveKinds' = ActiveKinds
    BY DEF ActiveKinds
  <2> QED BY <2>1 DEF KindsSuffice
\* The steps of a run before it correlates.
<1>3. ASSUME NEW t \in Ticks, tick[t] # "idle", tick'[t] = "running",
             run'[t].phase \notin CorrelationPhases, \A u \in Ticks : u # t => run'[u] = run[u]
      PROVE  IncidentOK'
  <2>1. \A u \in Ticks : run'[u].phase \notin CorrelationPhases
    BY <1>3, Alone, Constants DEF CorrelationPhases
  <2>2. Running' # {}
    BY <1>3 DEF Running
  <2> QED BY <2>1, <2>2 DEF IncidentOK, Counted
<1>4. ASSUME NEW t \in Ticks,
             BeginRun(t) \/ ReadAlerts(t) \/ (\E k \in Kinds : WriteAlert(t, k)) \/ AllWritten(t) \/ Send(t)
      PROVE  IncidentOK'
  <2>1. tick[t] # "idle" /\ tick'[t] = "running"
    BY <1>1, <1>4 DEF BeginRun, StartRun, ReadAlerts, WriteAlert, AllWritten, Send, InPhase, loopVars
  <2>2. \A u \in Ticks : u # t => run'[u] = run[u]
    BY <1>1, <1>4 DEF BeginRun, ReadAlerts, WriteAlert, AllWritten, Send
  <2>3. CASE BeginRun(t)
    <3>1. run'[t] = [Idle EXCEPT !.phase = "reading", !.at = now]
      BY <1>1, <2>3 DEF BeginRun
    <3>2. run'[t].phase = "reading"
      BY <3>1, Constants DEF Run
    <3> QED BY <1>3, <2>1, <2>2, <3>2 DEF CorrelationPhases
  <2>4. CASE ReadAlerts(t)
    <3>1. run'[t].phase = "writing"
      BY <1>1, <2>4, ReadOf DEF Base
    <3> QED BY <1>3, <2>1, <2>2, <3>1 DEF CorrelationPhases
  <2>5. ASSUME NEW k \in Kinds, WriteAlert(t, k)
        PROVE  IncidentOK'
    <3>1. run'[t].phase = "writing"
      BY <2>5, WriteOf DEF Base
    <3> QED BY <1>3, <2>1, <2>2, <3>1 DEF CorrelationPhases
  <2>6. CASE AllWritten(t)
    <3>1. run'[t].phase \in {"correlating", "sending"}
      BY <1>1, <2>6 DEF AllWritten, Run
    <3> QED BY <1>3, <2>1, <2>2, <3>1 DEF CorrelationPhases
  <2>7. CASE Send(t)
    <3>1. run'[t] = [Idle EXCEPT !.phase = "correlating", !.at = run[t].at]
      BY <1>1, <2>7 DEF Send
    <3>2. run'[t].phase = "correlating"
      BY <3>1, Constants DEF Run
    <3> QED BY <1>3, <2>1, <2>2, <3>2 DEF CorrelationPhases
  <2> QED BY <1>4, <2>3, <2>4, <2>5, <2>6, <2>7
\* The steps of the correlation: the other ticks have no locals.
<1>5. ASSUME NEW t \in Ticks, GoesOn(t), Counted(t)'
      PROVE  IncidentOK'
  <2>1. /\ tick[t] # "idle" /\ tick'[t] = "running"
        /\ \A u \in Ticks : u # t => run'[u] = run[u]
    BY <1>1, <1>5 DEF GoesOn, LeavesAlerts, loopVars
  <2>2. \A u \in Ticks : u # t => run'[u].phase \notin CorrelationPhases
    BY <2>1, Alone, Constants DEF CorrelationPhases
  <2>3. Running' # {}
    BY <2>1 DEF Running
  <2> QED BY <1>5, <2>2, <2>3 DEF IncidentOK, Counted
<1>6. ASSUME NEW t \in Ticks, tick[t] # "idle", run' = [run EXCEPT ![t] = Idle],
             settled' => Backed'
      PROVE  IncidentOK'
  <2>1. run'[t] = Idle /\ \A u \in Ticks : u # t => run'[u] = run[u]
    BY <1>1, <1>6
  <2>2. \A u \in Ticks : run'[u].phase \notin CorrelationPhases
    BY <1>6, <2>1, Alone, Constants DEF CorrelationPhases
  <2> QED BY <1>6, <2>2 DEF IncidentOK, Counted
<1>13. ASSUME NEW t \in Ticks, Correlates(t), GoesOn(t) \/ GoesOff(t)
       PROVE  IncidentOK'
  <2>1. /\ tick[t] # "idle" /\ alert' = alert /\ run[t] \in Run
    BY <1>1, <1>13 DEF GoesOn, GoesOff, LeavesAlerts
  <2>2. KindsSuffice' <=> KindsSuffice
    BY <1>2, <2>1
  <2>3. Counted(t)
    BY DEF IncidentOK
  <2>4. ASSUME NEW phase \in CorrelationPhases, run' = [run EXCEPT ![t].phase = phase]
        PROVE  run'[t].phase = phase /\ run'[t].correlated = run[t].correlated
    BY <1>1, <2>4 DEF Run
  <2>5. ASSUME run' = [run EXCEPT ![t] = Idle]
        PROVE  ~GoesOn(t)
    BY <1>1, <2>5, Constants DEF GoesOn, CorrelationPhases
  <2>6. CASE CorrelateRead(t)
    <3>1. /\ run'[t].correlated = KindsSuffice
          /\ run'[t].phase = IF KindsSuffice THEN "opening" ELSE "checking"
      BY <1>1, <2>6 DEF CorrelateRead, Run
    <3>2. Counted(t)'
      BY <2>2, <3>1 DEF Counted
    <3>3. ~GoesOff(t)
      BY <1>1, <3>1, Constants DEF GoesOff
    <3> QED BY <1>5, <1>13, <3>2, <3>3
  <2>7. CASE UpsertIncident(t)
    <3>1. run'[t].phase = "linking" /\ run'[t].correlated = run[t].correlated
      BY <2>4, <2>7 DEF UpsertIncident, CorrelationPhases
    <3>2. run[t].phase = "opening" /\ incident' = "open"
      BY <2>7 DEF UpsertIncident, InPhase
    <3>3. Counted(t)'
      BY <2>2, <2>3, <3>1, <3>2 DEF Counted, CorrelationPhases, IsActive
    <3>4. ~GoesOff(t)
      BY <1>1, <3>1, Constants DEF GoesOff
    <3> QED BY <1>5, <1>13, <3>3, <3>4
  <2>8. CASE LinkAlerts(t)
    <3>1. run'[t].phase = "checking" /\ run'[t].correlated = run[t].correlated
      BY <2>4, <2>8 DEF LinkAlerts, CorrelationPhases
    <3>2. run[t].phase = "linking" /\ incident' = incident /\ settled' = settled
      BY <2>8 DEF LinkAlerts, InPhase, history
    <3>3. Counted(t)'
      BY <2>2, <2>3, <3>1, <3>2 DEF Counted, CorrelationPhases
    <3>4. ~GoesOff(t)
      BY <1>1, <3>1, Constants DEF GoesOff
    <3> QED BY <1>5, <1>13, <3>3, <3>4
  <2>9. CASE FindIncidents(t)
    <3>1. /\ run[t].phase = "checking" /\ incident' = incident
          /\ settled' = (settled \/ ~run[t].correlated)
      BY <2>9 DEF FindIncidents, InPhase
    <3>2. /\ run[t].correlated <=> KindsSuffice
          /\ run[t].correlated /\ settled => IsActive(incident)
      BY <2>3, <3>1 DEF Counted, CorrelationPhases
    <3>3. CASE IsActive(incident) /\ ~run[t].correlated
      <4>1. run' = [run EXCEPT ![t].phase = "closing"] /\ ~EndRun(t)
        BY <2>1, <2>9, <3>3, <1>1 DEF FindIncidents, EndRun, InPhase, loopVars
      <4>2. run'[t].phase = "closing" /\ run'[t].correlated = run[t].correlated
        BY <2>4, <4>1 DEF CorrelationPhases
      <4>3. Counted(t)'
        BY <2>2, <3>2, <3>3, <4>2 DEF Counted
      <4> QED BY <1>5, <1>13, <4>1, <4>3 DEF GoesOff
    <3>4. CASE ~(IsActive(incident) /\ ~run[t].correlated)
      <4>1. run' = [run EXCEPT ![t] = Idle]
        BY <2>9, <3>4 DEF FindIncidents
      <4>2. settled' => Backed'
        BY <2>2, <3>1, <3>2, <3>4 DEF Backed
      <4> QED BY <1>6, <2>1, <4>1, <4>2
    <3> QED BY <3>3, <3>4
  <2>10. CASE CloseIncident(t)
    <3>1. /\ run[t].phase = "closing" /\ run' = [run EXCEPT ![t] = Idle]
          /\ incident' = IF IsActive(incident) THEN "resolved" ELSE incident
      BY <2>10 DEF CloseIncident, InPhase
    <3>2. ~KindsSuffice
      BY <2>3, <3>1 DEF Counted, CorrelationPhases
    <3>3. Backed'
      BY <2>2, <3>1, <3>2 DEF Backed, IsActive
    <3> QED BY <1>6, <2>1, <3>1, <3>3
  <2> QED BY <1>13, <2>6, <2>7, <2>8, <2>9, <2>10 DEF Correlates
<1>7. ASSUME NEW t \in Ticks, Abort(t)
      PROVE  IncidentOK'
  <2>1. tick[t] # "idle" /\ settled' = FALSE /\ run' = [run EXCEPT ![t] = Idle]
    BY <1>7 DEF Abort, EndRun
  <2> QED BY <1>6, <2>1
<1>8. ASSUME NEW i \in Instances, Crash(i)
      PROVE  IncidentOK'
  <2>1. PICK t \in Ticks : InstanceOf[t] = i
    BY <1>8 DEF Crash
  <2>2. /\ \A u \in Ticks : run'[u] = Idle
        /\ settled' => settled /\ Running = {}
        /\ alert' = alert /\ incident' = incident
    BY <1>8, <2>1 DEF Crash, OneProcess, Running
  <2>3. KindsSuffice' <=> KindsSuffice
    BY <1>2, <2>2
  <2>4. settled' => Backed'
    BY <2>2, <2>3 DEF IncidentOK, Backed
  <2>5. \A u \in Ticks : run'[u].phase \notin CorrelationPhases
    BY <2>2, Constants DEF CorrelationPhases
  <2> QED BY <2>4, <2>5 DEF IncidentOK, Counted
<1>9. ASSUME KindsSuffice' <=> KindsSuffice, run' = run, Running' = Running
      PROVE  \/ incident' = incident /\ settled' = settled
             \/ settled' = FALSE
             => IncidentOK'
  BY <1>9 DEF IncidentOK, Counted, Backed
<1>10. CASE Around \/ Tick
  <2>1. alert' = alert /\ run' = run /\ incident' = incident /\ settled' = settled
    BY <1>10 DEF Around, LoopOnly, Tick, history
  <2>2. Running' = Running
    BY <1>10 DEF Around, Tick, loopVars, Running
  <2>3. KindsSuffice' <=> KindsSuffice
    BY <1>2, <2>1
  <2> QED BY <1>9, <2>1, <2>2, <2>3
<1>11. ASSUME NEW k \in Kinds, AckAlert(k)
       PROVE  IncidentOK'
  <2>1. run' = run /\ incident' = incident /\ settled' = settled
    BY <1>11 DEF AckAlert
  <2>2. \A j \in Kinds : IsActive(alert'[j].status) <=> IsActive(alert[j].status)
    <3>1. alert[k].status = "open"
      BY <1>11 DEF AckAlert
    <3>2. alert'[k].status = "acknowledged" /\ \A j \in Kinds : j # k => alert'[j] = alert[j]
      BY <1>1, <1>11 DEF AckAlert, Row
    <3> QED BY <3>1, <3>2 DEF IsActive
  <2>3. Running' = Running
    BY <1>11 DEF AckAlert, loopVars, Running
  <2>4. KindsSuffice' <=> KindsSuffice
    BY <1>2, <2>2
  <2> QED BY <1>9, <2>1, <2>3, <2>4
<1>12. ASSUME NEW status \in {"open", "acknowledged", "resolved"}, PatchIncident(status)
       PROVE  IncidentOK'
  <2>1. run' = run /\ alert' = alert /\ settled' = FALSE
    BY <1>12 DEF PatchIncident
  <2>2. Running' = Running
    BY <1>12 DEF PatchIncident, loopVars, Running
  <2>3. KindsSuffice' <=> KindsSuffice
    BY <1>2, <2>1
  <2> QED BY <1>9, <2>1, <2>2, <2>3
<1> QED
  BY Steps, <1>4, <1>7, <1>8, <1>10, <1>11, <1>12, <1>13 DEF Base

\* While one process runs the loop, the incident of the device is active between runs
\* exactly when enough kinds are, unless an operator patched it after the run wrote or read
\* it, or the run failed: see IncidentIsBacked (correlate.ts:18, manager.ts:100-184).
THEOREM IncidentsAreBacked == OneProcess /\ Spec => []IncidentIsBacked
<1>1. Init => IncidentOK
  <2> SUFFICES ASSUME Init PROVE IncidentOK
    OBVIOUS
  <2>1. \A t \in Ticks : run[t].phase \notin CorrelationPhases
    BY Constants DEF Init, CorrelationPhases
  <2>2. ActiveKinds = {} /\ ~IsActive(incident)
    BY DEF Init, ActiveKinds, NoRow, IsActive
  <2>3. ~KindsSuffice
    <3>1. Cardinality({}) = 0
      BY FS_EmptySet
    <3> QED BY <2>2, <3>1, AlertAssumption DEF KindsSuffice
  <2> QED BY <2>1, <2>2, <2>3 DEF IncidentOK, Counted, Backed
<1>2. OneProcess /\ Base /\ Base' /\ IncidentOK /\ [Next]_vars => IncidentOK'
  BY IncidentStep
<1>3. OneProcess => OneProcess'
  BY DEF OneProcess
<1>4. IncidentOK => IncidentIsBacked
  BY DEF IncidentOK, Backed, KindsSuffice, IncidentIsBacked
<1> QED BY <1>1, <1>2, <1>3, <1>4, OneRun, PTL DEF Spec

-----------------------------------------------------------------------------
(* The cooldown, where no alert is resolved sooner than it lasts *)

\* A message, next to the row it was about: the row was notified no earlier, and a row
\* that fell back to warning since was notified a cooldown later.
Spaced(message, row) ==
    /\ row.notified <= row.seen
    /\ message.severity # "none" =>
         /\ message.at <= row.notified
         /\ row.severity = "warning" /\ message.severity = "critical"
              => message.at + Cooldown <= row.notified

\* What may be sent after a message.
MayFollow(message, severity, at) ==
    message.severity # "none" =>
      \/ at - message.at >= Cooldown
      \/ message.severity = "warning" /\ severity = "critical"

\* A row as a run that started at `at' may read it.
Readable(message, row, at) ==
    /\ row.seen <= at
    /\ row.status = "none" => message.severity = "none"
    /\ row.status = "resolved" => row.seen + ResolveAfter <= at

LEMMA DecisionSpaces ==
  ASSUME NEW found \in Severities \cup {"none"}, NEW row \in Row, NEW at \in Nat,
         NEW message \in Message, Cooldown <= ResolveAfter,
         Upserts(found, row, at), Spaced(message, row), Readable(message, row, at)
  PROVE  LET out == Reconciled(found, row, at)
         IN  /\ Spaced(message, out) /\ out.seen <= at
             /\ Notifies(found, row, at) => MayFollow(message, out.severity, at)
<1> DEFINE out == Reconciled(found, row, at)
<1>1. /\ row.status \in {"none", "open", "acknowledged", "resolved"}
      /\ row.severity \in Severities /\ row.seen \in Nat /\ row.notified \in Nat
      /\ message.at \in Nat /\ Cooldown \in Nat /\ ResolveAfter \in Nat
  BY AlertAssumption DEF Row, Message
<1>2. CASE IsNew(found, row)
  <2>1. ~Matches(found, row)
    BY <1>2 DEF IsNew, Matches
  <2>2. out = NewAlert(found, at)
    BY <1>2, <2>1 DEF Reconciled
  <2>3. out.seen = at /\ out.notified = at
    BY <2>2 DEF NewAlert
  <2>4. message.severity # "none" => message.at + Cooldown <= at
    <3>1. row.status \in {"none", "resolved"}
      BY <1>1, <1>2 DEF IsNew, IsActive
    <3> QED BY <1>1, <3>1 DEF Spaced, Readable
  <2>5. Spaced(message, out)
    BY <1>1, <2>3, <2>4 DEF Spaced
  <2>6. MayFollow(message, out.severity, at)
    BY <1>1, <2>4 DEF MayFollow
  <2> QED BY <2>3, <2>5, <2>6
<1>3. CASE Matches(found, row)
  <2>1. out = Seen(found, row, at) /\ ~IsNew(found, row)
    BY <1>3 DEF Reconciled, Matches, IsNew
  <2>2. CASE row.status = "acknowledged"
    <3>1. out = [row EXCEPT !.seen = at]
      BY <2>1, <2>2 DEF Seen
    <3>2. out.seen = at /\ out.severity = row.severity /\ out.notified = row.notified
      BY <3>1 DEF Row
    <3>3. ~Notifies(found, row, at)
      BY <2>1, <2>2 DEF Notifies
    <3>4. Spaced(message, out)
      BY <1>1, <3>2 DEF Spaced, Readable
    <3> QED BY <3>2, <3>3, <3>4
  <2>3. CASE row.status # "acknowledged"
    <3> DEFINE severity == IF Escalates(found, row, at) THEN "critical" ELSE row.severity
               notified == IF Notifies(found, row, at) THEN at ELSE row.notified
    <3>1. row.status = "open"
      BY <1>3, <2>3 DEF Matches, IsActive
    <3>2. out = [row EXCEPT !.seen = at, !.severity = severity, !.notified = notified]
      BY <2>1, <2>3 DEF Seen, Refreshed, Row
    <3> HIDE DEF out, severity, notified
    <3>3. out.seen = at /\ out.severity = severity /\ out.notified = notified
      BY <3>2 DEF Row
    <3>4. Escalates(found, row, at) => row.severity = "warning"
      BY DEF Escalates, FindingEscalates, AgeEscalates
    <3>5. Notifies(found, row, at) =>
            Escalates(found, row, at) \/ at - row.notified >= Cooldown
      BY <2>1 DEF Notifies, CooldownElapsed
    <3>6. row.notified <= notified /\ notified <= at
      BY <1>1 DEF notified, Spaced, Readable
    <3>7. severity = "warning" => row.severity = "warning"
      BY DEF severity
    <3>8. Spaced(message, out)
      <4>1. notified \in Nat
        BY <1>1 DEF notified
      <4> QED BY <1>1, <3>3, <3>6, <3>7, <4>1 DEF Spaced
    <3>9. ASSUME Notifies(found, row, at)
          PROVE  MayFollow(message, out.severity, at)
      <4>1. CASE at - row.notified >= Cooldown
        BY <1>1, <4>1 DEF MayFollow, Spaced
      <4>2. CASE Escalates(found, row, at)
        <5>1. out.severity = "critical" /\ row.severity = "warning"
          BY <3>3, <3>4, <4>2 DEF severity
        <5>2. message.severity \in {"none", "warning", "critical"}
          BY DEF Message, Severities
        <5> QED BY <1>1, <5>1, <5>2 DEF MayFollow, Spaced, Readable
      <4> QED BY <3>5, <3>9, <4>1, <4>2
    <3> QED BY <1>1, <3>3, <3>8, <3>9 DEF out
  <2> QED BY <2>2, <2>3
<1>4. CASE ~IsNew(found, row) /\ ~Matches(found, row)
  <2>1. out = [row EXCEPT !.status = "resolved"] /\ ~Notifies(found, row, at)
    BY <1>4 DEF Reconciled, Notifies
  <2>2. out.seen = row.seen /\ out.severity = row.severity /\ out.notified = row.notified
    BY <2>1 DEF Row
  <2>3. Spaced(message, out)
    BY <2>2 DEF Spaced
  <2> QED BY <2>1, <2>2, <2>3 DEF Readable
<1> QED BY <1>2, <1>3, <1>4

RowsSpaced == \A k \in Kinds : Spaced(told[k], alert[k]) /\ Readable(told[k], alert[k], now)

RunSpaced(r) ==
    /\ r.phase = "reading" => \A k \in Kinds : Readable(told[k], alert[k], r.at)
    /\ r.phase = "writing" =>
         \A k \in r.todo : Spaced(told[k], r.rows[k]) /\ r.rows[k].seen <= r.at
    /\ r.phase \in {"writing", "sending"} =>
         \A k \in r.notify : MayFollow(told[k], r.rows[k].severity, r.at)

SpacedOK == RowsSpaced /\ \A t \in Ticks : RunSpaced(run[t])

LEMMA SpacedStep ==
  ASSUME OneProcess, Cooldown <= ResolveAfter, Base, Base', RunsOK, SpacedOK, [Next]_vars
  PROVE  SpacedOK'
<1>1. /\ run \in [Ticks -> Run] /\ alert \in [Kinds -> Row] /\ told \in [Kinds -> Message]
      /\ now \in Nat /\ ResolveAfter \in Nat
      /\ tick \in [Ticks -> {"idle", "asking", "granted", "running"}]
  BY RunTypes, AlertAssumption DEF Base
<1>2. \A u \in Ticks : run'[u] = Idle => RunSpaced(run[u])'
  BY Constants DEF RunSpaced
<1>3. ASSUME NEW t \in Ticks, tick[t] # "idle", RowsSpaced', RunSpaced(run[t])',
             \A u \in Ticks : u # t => run'[u] = run[u]
      PROVE  SpacedOK'
  <2>1. \A u \in Ticks : u # t => run'[u] = Idle
    BY <1>3, Alone
  <2> QED BY <1>2, <1>3, <2>1 DEF SpacedOK
<1>4. alert' = alert /\ told' = told /\ now' = now => RowsSpaced'
  BY DEF SpacedOK, RowsSpaced
<1>5. CASE Around \/ \E status \in {"open", "acknowledged", "resolved"} : PatchIncident(status)
  BY <1>5 DEF Around, LoopOnly, PatchIncident, history, SpacedOK, RowsSpaced, RunSpaced
<1>6. ASSUME NEW t \in Ticks, BeginRun(t)
      PROVE  SpacedOK'
  <2>1. tick[t] # "idle" /\ now' = now /\ alert' = alert /\ told' = told
    BY <1>6 DEF BeginRun, StartRun, history
  <2>2. /\ run'[t] = [Idle EXCEPT !.phase = "reading", !.at = now]
        /\ \A u \in Ticks : u # t => run'[u] = run[u]
    BY <1>1, <1>6 DEF BeginRun
  <2>3. run'[t].phase = "reading" /\ run'[t].at = now
    BY <2>2, Constants DEF Run
  <2>4. RunSpaced(run[t])'
    BY <2>1, <2>3 DEF RunSpaced, SpacedOK, RowsSpaced
  <2> QED BY <1>3, <1>4, <2>1, <2>2, <2>4
<1>7. ASSUME NEW t \in Ticks, ReadAlerts(t)
      PROVE  SpacedOK'
  <2>1. /\ tick[t] # "idle" /\ now' = now /\ alert' = alert /\ told' = told
        /\ run[t].phase = "reading"
    BY <1>7 DEF ReadAlerts, InPhase
  <2>2. PICK found \in [Kinds -> Severities \cup {"none"}] :
          LET r == Decides(t, found)
          IN  /\ r \in Run
              /\ run' = [run EXCEPT ![t] = r]
              /\ r.phase = "writing" /\ r.at = run[t].at
              /\ r.todo = {k \in Kinds : Upserts(found[k], alert[k], r.at)}
              /\ r.notify = {k \in Kinds : Notifies(found[k], alert[k], r.at)}
              /\ \A k \in r.todo : r.rows[k] = Reconciled(found[k], alert[k], r.at)
    BY <1>7, ReadOf DEF Base
  <2> DEFINE r == Decides(t, found)
  <2>3. /\ r \in Run
        /\ run'[t] = r
        /\ r.phase = "writing" /\ r.at = run[t].at
        /\ r.todo = {k \in Kinds : Upserts(found[k], alert[k], r.at)}
        /\ r.notify = {k \in Kinds : Notifies(found[k], alert[k], r.at)}
        /\ \A k \in r.todo : r.rows[k] = Reconciled(found[k], alert[k], r.at)
    BY <1>1, <2>2
  <2> HIDE DEF r
  <2>4. ASSUME NEW k \in r.todo
        PROVE  /\ Spaced(told[k], r.rows[k]) /\ r.rows[k].seen <= r.at
               /\ Notifies(found[k], alert[k], r.at) => MayFollow(told[k], r.rows[k].severity, r.at)
    <3>1. k \in Kinds /\ Upserts(found[k], alert[k], r.at) /\ r.at \in Nat
          /\ r.rows[k] = Reconciled(found[k], alert[k], r.at)
      BY <2>3 DEF Run
    <3>2. found[k] \in Severities \cup {"none"} /\ alert[k] \in Row /\ told[k] \in Message
      BY <1>1, <3>1
    <3>3. Spaced(told[k], alert[k]) /\ Readable(told[k], alert[k], r.at)
      BY <2>1, <2>3, <3>1 DEF SpacedOK, RowsSpaced, RunSpaced
    <3> QED BY <3>1, <3>2, <3>3, DecisionSpaces
  <2>5. \A k \in r.notify : k \in r.todo /\ Notifies(found[k], alert[k], r.at)
    BY <2>3, NotifiedIsUpserted
  <2>6. RunSpaced(run[t])'
    BY <2>1, <2>3, <2>4, <2>5 DEF RunSpaced
  <2> QED BY <1>1, <1>3, <1>4, <2>1, <2>2, <2>6
<1>8. ASSUME NEW t \in Ticks, NEW k \in Kinds, WriteAlert(t, k)
      PROVE  SpacedOK'
  <2>1. tick[t] # "idle" /\ now' = now /\ told' = told /\ k \in run[t].todo
    BY <1>8 DEF WriteAlert, InPhase, history
  <2>2. /\ \A u \in Ticks : u # t => run'[u] = run[u]
        /\ run'[t].phase = "writing" /\ run[t].phase = "writing"
        /\ run'[t].at = run[t].at
        /\ run'[t].todo = run[t].todo \ {k}
        /\ run'[t].notify = run[t].notify
        /\ \A j \in Kinds : j # k => run'[t].rows[j] = run[t].rows[j]
        /\ k \in run[t].notify => run'[t].rows[k] = run[t].rows[k]
        /\ alert'[k] = Upserted(alert[k], run[t].rows[k])
        /\ \A j \in Kinds : j # k => alert'[j] = alert[j]
    BY <1>8, WriteOf DEF Base
  <2>3. run[t].todo \subseteq Kinds /\ run[t].notify \subseteq Kinds
        /\ run[t].rows[k] \in Row /\ run[t].at \in Nat
    BY <1>1 DEF Run
  <2>4. /\ alert'[k].status = run[t].rows[k].status
        /\ alert'[k].severity = run[t].rows[k].severity
        /\ alert'[k].seen = run[t].rows[k].seen
        /\ alert'[k].notified = run[t].rows[k].notified
    BY <1>1, <2>2, <2>3, UpsertOf
  <2>5. /\ Decided(run[t], k, alert[k], k \in ackedSince) /\ run[t].at <= now
        /\ Spaced(told[k], run[t].rows[k]) /\ run[t].rows[k].seen <= run[t].at
    BY <1>8, <2>1, <2>2, WritesTheDecided DEF SpacedOK, RunSpaced
  <2>6. Spaced(told'[k], alert'[k])
    BY <2>1, <2>4, <2>5 DEF Spaced
  <2>7. Readable(told'[k], alert'[k], now')
    <3>1. alert'[k].seen \in Nat /\ alert[k].seen \in Nat
      BY <1>1, <2>3, <2>4 DEF Row
    <3>2. alert'[k].seen <= now'
      BY <1>1, <2>1, <2>3, <2>4, <2>5, <3>1
    <3>3. alert'[k].status # "none"
      BY <2>4, <2>5 DEF Decided
    <3>4. alert'[k].status = "resolved" => alert'[k].seen + ResolveAfter <= now'
      BY <1>1, <2>1, <2>3, <2>4, <2>5, <3>1 DEF Decided
    <3> QED BY <3>2, <3>3, <3>4 DEF Readable
  <2>8. RowsSpaced'
    BY <2>1, <2>2, <2>6, <2>7 DEF RowsSpaced, SpacedOK
  <2>9. RunSpaced(run[t])'
    BY <2>1, <2>2, <2>3 DEF RunSpaced, SpacedOK
  <2> QED BY <1>3, <2>1, <2>2, <2>8, <2>9
<1>9. ASSUME NEW t \in Ticks, AllWritten(t)
      PROVE  SpacedOK'
  <2>1. tick[t] # "idle" /\ now' = now /\ alert' = alert /\ told' = told /\ run[t].phase = "writing"
    BY <1>9 DEF AllWritten, InPhase, history
  <2>2. /\ \A u \in Ticks : u # t => run'[u] = run[u]
        /\ run'[t].phase \in {"correlating", "sending"} /\ run'[t].at = run[t].at
        /\ run'[t].notify = run[t].notify /\ run'[t].rows = run[t].rows
    BY <1>1, <1>9, <2>1 DEF AllWritten, Run
  <2>3. RunSpaced(run[t])'
    BY <2>1, <2>2 DEF RunSpaced, SpacedOK
  <2> QED BY <1>3, <1>4, <2>1, <2>2, <2>3
<1>10. ASSUME NEW t \in Ticks, Send(t)
       PROVE  SpacedOK'
  <2>1. tick[t] # "idle" /\ now' = now /\ alert' = alert /\ run[t].phase = "sending"
    BY <1>10 DEF Send, InPhase
  <2>2. /\ run'[t] = [Idle EXCEPT !.phase = "correlating", !.at = run[t].at]
        /\ \A u \in Ticks : u # t => run'[u] = run[u]
    BY <1>1, <1>10 DEF Send
  <2>3. run'[t].phase = "correlating"
    BY <2>2, Constants DEF Run
  <2>4. run[t].todo = {} /\ \A k \in run[t].notify : Written(run[t], k, alert[k])
    BY <2>1 DEF RunsOK, RunOK
  <2>5. ASSUME NEW k \in Kinds
        PROVE  Spaced(told'[k], alert'[k]) /\ Readable(told'[k], alert'[k], now')
    <3>1. Spaced(told[k], alert[k]) /\ Readable(told[k], alert[k], now)
      BY DEF SpacedOK, RowsSpaced
    <3>2. CASE told'[k] = told[k]
      BY <2>1, <3>1, <3>2
    <3>3. CASE told'[k] # told[k]
      <4>1. k \in run[t].notify
            /\ told'[k] = [severity |-> run[t].rows[k].severity, at |-> run[t].at]
        BY <1>10, <3>3 DEF Send
      <4>2. /\ told'[k].severity = alert[k].severity /\ told'[k].at = alert[k].notified
            /\ IsActive(alert[k].status)
        BY <2>4, <4>1 DEF Written
      <4>3. alert[k].notified <= alert[k].seen
        BY <3>1 DEF Spaced
      <4> QED BY <1>1, <2>1, <3>1, <4>2, <4>3 DEF Spaced, Readable, IsActive, Row
    <3> QED BY <3>2, <3>3
  <2> QED BY <1>3, <2>1, <2>2, <2>3, <2>5 DEF RowsSpaced, RunSpaced
<1>11. ASSUME NEW t \in Ticks, GoesOn(t)
       PROVE  SpacedOK'
  <2>1. tick[t] # "idle" /\ now' = now /\ alert' = alert /\ told' = told
    BY <1>11 DEF GoesOn, LeavesAlerts
  <2>2. /\ run'[t].phase \in CorrelationPhases
        /\ \A u \in Ticks : u # t => run'[u] = run[u]
    BY <1>1, <1>11 DEF GoesOn
  <2>3. RunSpaced(run[t])'
    BY <2>2 DEF RunSpaced, CorrelationPhases
  <2> QED BY <1>3, <1>4, <2>1, <2>2, <2>3
<1>12. ASSUME NEW t \in Ticks, GoesOff(t) \/ Abort(t)
       PROVE  SpacedOK'
  <2>1. tick[t] # "idle" /\ now' = now /\ alert' = alert /\ told' = told
    BY <1>12 DEF GoesOff, LeavesAlerts, Abort, EndRun
  <2>2. run'[t] = Idle /\ \A u \in Ticks : u # t => run'[u] = run[u]
    BY <1>1, <1>12 DEF GoesOff, Abort
  <2> QED BY <1>2, <1>3, <1>4, <2>1, <2>2
<1>13. ASSUME NEW i \in Instances, Crash(i)
       PROVE  SpacedOK'
  <2>1. PICK t \in Ticks : InstanceOf[t] = i
    BY <1>13 DEF Crash
  <2>2. (\A u \in Ticks : run'[u] = Idle) /\ alert' = alert /\ told' = told /\ now' = now
    BY <1>13, <2>1 DEF Crash, OneProcess
  <2> QED BY <1>2, <1>4, <2>2 DEF SpacedOK
<1>14. ASSUME NEW k \in Kinds, AckAlert(k)
       PROVE  SpacedOK'
  <2>1. /\ run' = run /\ now' = now /\ told' = told /\ alert[k].status = "open"
        /\ \A j \in Kinds : j # k => alert'[j] = alert[j]
    BY <1>1, <1>14 DEF AckAlert
  <2>2. /\ alert'[k].status = "acknowledged" /\ alert'[k].severity = alert[k].severity
        /\ alert'[k].seen = alert[k].seen /\ alert'[k].notified = alert[k].notified
    BY <1>1, <1>14 DEF AckAlert, Row
  <2>3. \A j \in Kinds : Spaced(told[j], alert[j]) => Spaced(told'[j], alert'[j])
    BY <2>1, <2>2 DEF Spaced
  <2>4. \A j \in Kinds, at \in Nat : Readable(told[j], alert[j], at) => Readable(told'[j], alert'[j], at)
    BY <2>1, <2>2 DEF Readable
  <2>5. \A t \in Ticks : run[t].at \in Nat
    BY <1>1 DEF Run
  <2>6. RowsSpaced'
    BY <1>1, <2>1, <2>3, <2>4 DEF SpacedOK, RowsSpaced
  <2>7. \A t \in Ticks : RunSpaced(run[t])'
    BY <2>1, <2>4, <2>5 DEF SpacedOK, RunSpaced
  <2> QED BY <2>6, <2>7 DEF SpacedOK
<1>15. CASE Tick
  <2>1. run' = run /\ now' = now + 1 /\ told' = told /\ alert' = alert
    BY <1>15 DEF Tick, history
  <2>2. \A k \in Kinds : Readable(told[k], alert[k], now) => Readable(told[k], alert[k], now + 1)
    <3>1. \A k \in Kinds : alert[k].seen \in Nat
      BY <1>1 DEF Row
    <3> QED BY <1>1, <3>1 DEF Readable
  <2>3. RowsSpaced'
    BY <2>1, <2>2 DEF SpacedOK, RowsSpaced
  <2>4. \A t \in Ticks : RunSpaced(run[t])'
    BY <2>1 DEF SpacedOK, RunSpaced
  <2> QED BY <2>3, <2>4 DEF SpacedOK
<1> QED
  BY Steps, <1>5, <1>6, <1>7, <1>8, <1>9, <1>10, <1>11, <1>12, <1>13, <1>14, <1>15
     DEF Base, TypeOK

\* While one process runs the loop, and no alert is resolved sooner than the cooldown
\* lasts (as with the defaults of scheduler.ts:256-257), the messages about a kind are a
\* cooldown apart unless the severity rose: see CooldownRespected (dedup.ts:119).
THEOREM CooldownIsKept == OneProcess /\ Cooldown <= ResolveAfter /\ Spec => CooldownRespected
<1> DEFINE Limit == Cooldown <= ResolveAfter
           Tells == \A t \in Ticks, k \in Kinds :
                      Delivers(t, k) /\ told[k].severity # "none"
                        => \/ told'[k].at - told[k].at >= Cooldown
                           \/ told[k].severity = "warning" /\ told'[k].severity = "critical"
<1>1. Init => SpacedOK
  <2> SUFFICES ASSUME Init PROVE SpacedOK
    OBVIOUS
  <2>1. RowsSpaced
    <3>1. \A k \in Kinds : alert[k] = NoRow /\ told[k].severity = "none"
      BY DEF Init
    <3>2. NoRow.notified = 0 /\ NoRow.seen = 0 /\ NoRow.status = "none" /\ now = 0
      BY DEF Init, NoRow
    <3> QED BY <3>1, <3>2 DEF RowsSpaced, Spaced, Readable
  <2>2. \A t \in Ticks : RunSpaced(run[t])
    BY Constants DEF Init, RunSpaced
  <2> QED BY <2>1, <2>2 DEF SpacedOK
<1>2. OneProcess /\ Limit /\ Base /\ Base' /\ RunsOK /\ SpacedOK /\ [Next]_vars => SpacedOK'
  BY SpacedStep
<1>3. OneProcess /\ Limit => (OneProcess /\ Limit)'
  BY DEF OneProcess
<1>4. Base /\ SpacedOK /\ [Next]_vars => [Tells]_vars
  <2> SUFFICES ASSUME Base, SpacedOK, [Next]_vars, NEW t \in Ticks, NEW k \in Kinds,
                      Delivers(t, k), told[k].severity # "none"
               PROVE  \/ told'[k].at - told[k].at >= Cooldown
                      \/ told[k].severity = "warning" /\ told'[k].severity = "critical"
    OBVIOUS
  <2>1. /\ run \in [Ticks -> Run]
        /\ run[t].phase = "sending" /\ run'[t].phase = "correlating"
        /\ k \in run[t].notify /\ k \notin unsaid'
    BY RunTypes DEF Base, Delivers
  <2>2. Send(t)
    <3>1. run'[t] # run[t] /\ run'[t] # Idle
      BY <2>1, Constants
    <3>2. ASSUME NEW u \in Ticks, u # t,
                 \/ BeginRun(u) \/ ReadAlerts(u) \/ (\E j \in Kinds : WriteAlert(u, j))
                 \/ AllWritten(u) \/ Send(u) \/ GoesOn(u) \/ GoesOff(u) \/ Abort(u)
          PROVE  FALSE
      BY <2>1, <3>1, <3>2 DEF BeginRun, ReadAlerts, WriteAlert, AllWritten, Send, GoesOn,
                              GoesOff, Abort
    <3>3. ~ReadAlerts(t) /\ ~AllWritten(t) /\ ~GoesOn(t) /\ \A j \in Kinds : ~WriteAlert(t, j)
      BY <2>1 DEF ReadAlerts, AllWritten, GoesOn, LeavesAlerts, CorrelationPhases, WriteAlert, InPhase
    <3>4. ~GoesOff(t) /\ ~Abort(t)
      BY <2>1, <3>1 DEF GoesOff, Abort
    <3>5. ~BeginRun(t)
      BY <2>1, Constants DEF BeginRun, StartRun, Base, OnlyRunning
    <3>6. \A i \in Instances : ~Crash(i)
      BY <2>1, <3>1 DEF Crash
    <3>7. run' # run
      BY <3>1
    <3> QED
      BY Steps, <3>2, <3>3, <3>4, <3>5, <3>6, <3>7
         DEF Base, TypeOK, Around, LoopOnly, AckAlert, PatchIncident, Tick
  <2>3. told'[k] = [severity |-> run[t].rows[k].severity, at |-> run[t].at]
    BY <2>1, <2>2 DEF Send
  <2>4. MayFollow(told[k], run[t].rows[k].severity, run[t].at)
    BY <2>1 DEF SpacedOK, RunSpaced
  <2> QED BY <2>3, <2>4 DEF MayFollow
<1> HIDE DEF Limit
<1>5. OneProcess /\ Limit /\ Spec => CooldownRespected
  BY <1>1, <1>2, <1>3, <1>4, OneRun, PTL DEF Spec, CooldownRespected
<1> QED BY <1>5 DEF Limit
=============================================================================
