-------------------------- MODULE DeadLetterReplay --------------------------
(***************************************************************************)
(* The replay of the dead-letter file (replayDeadLetter), run by an        *)
(* operator as a process of its own next to the worker that drains the     *)
(* same spool directory.                                                   *)
(*                                                                         *)
(* The replay reads the file before it asks for the directory and rewrites *)
(* it after it has given the directory back, so owner.lock covers neither. *)
(*                                                                         *)
(* Each process has its own view of the spool: the size and the offset it  *)
(* read when it opened the directory and has counted since, and the        *)
(* descriptor it appends to, which follows a file that is renamed.  Sizes  *)
(* and offsets are counted in lines; a pass of the worker takes one line.  *)
(* The dead-letter file is a set of events: an event is its ingestId.      *)
(***************************************************************************)
EXTENDS SpoolOwnership, Sequences

CONSTANTS
    Workers,     \* the other instances run a replay
    Events,
    TenantOf,    \* TenantOf[e]
    RotateAt,    \* maxBytes, in lines
    HardMax      \* hardMaxBytes, in lines

\* Lines nobody can read: a fragment without its end, and what was appended to one.
Torn == "torn"
Glued == "glued"

ASSUME ReplayAssumption ==
    /\ Workers \subseteq Instances
    /\ IsFiniteSet(Events)
    /\ {Torn, Glued} \cap Events = {}
    /\ RotateAt \in Nat \ {0}
    /\ HardMax \in Nat
    /\ RotateAt <= HardMax

VARIABLES
    data,        \* events.jsonl
    offsetFile,  \* events.offset
    stored,      \* rows in Postgres
    dlq,         \* events.dlq.jsonl
    view,        \* what each process that has the directory open knows of the spool
    replay,      \* locals of each replay
    atRisk,      \* history: events that one of the steps marked below may lose
    shared       \* history: two processes used the directory at once

fileVars == <<data, offsetFile, stored, dlq>>
vars == <<ownVars, fileVars, view, replay, atRisk, shared>>

Replays == Instances \ Workers
Replaying == {r \in Replays : replay[r].phase # "none"}

\* What a rewrite under way has in its hands.
InRewrite == UNION {replay[r].kept : r \in {q \in Replays : replay[q].phase = "truncated"}}

\* What is stored is out of danger; once the directory was shared nothing is claimed.
Risk(events) == atRisk' = IF shared THEN {} ELSE (atRisk \cup events) \ stored
RiskIf(condition, events) == Risk(IF condition THEN events ELSE {})

\* Only a claim that succeeds adds a user of the directory.
Sharing == shared' = (shared \/ ~OneOwner')

Phases == {"none", "opening", "closing", "truncated"}
NoReplay == [phase |-> "none", todo |-> {}, kept |-> {}]

\* rotation: where rotate() is; got, to, done: the line of the pass, the offset that
\* follows it, and whether it is stored or dead-lettered.
NoView == [size |-> 0, offset |-> 0, fd |-> "none", rotation |-> "none",
           got |-> {}, to |-> 0, done |-> FALSE]

View == [size : Nat, offset : Nat, fd : {"none", "active", "moved"},
         rotation : {"none", "due", "renamed", "released"},
         got : SUBSET Events, to : Nat, done : BOOLEAN]

TypeOK ==
    /\ OwnTypeOK
    /\ data \in Seq(Events \cup {Torn, Glued})
    /\ offsetFile \in Nat
    /\ stored \subseteq Events
    /\ dlq \subseteq Events
    /\ view \in [Instances -> View]
    /\ replay \in [Instances -> [phase : Phases, todo : SUBSET Events, kept : SUBSET Events]]
    /\ atRisk \subseteq Events
    /\ shared \in BOOLEAN

\* Some of the events are dead-lettered already, for a foreign key that is broken; the
\* others wait in the spool, in any order.
Init ==
    /\ OwnInit
    /\ dlq \in SUBSET Events
    /\ data \in [1 .. Cardinality(Events \ dlq) -> Events \ dlq]
    /\ \A e \in Events \ dlq : \E i \in DOMAIN data : data[i] = e
    /\ offsetFile = 0
    /\ stored = {}
    /\ view = [p \in Instances |-> NoView]
    /\ replay = [p \in Instances |-> NoReplay]
    /\ atRisk = {}
    /\ shared = FALSE

-----------------------------------------------------------------------------
(* The worker drains what it owns *)

Drains(w) == w \in Workers /\ pc[w] = "open" /\ view[w].rotation = "none"

\* The lines of a batch may lie beyond the size the process knows of.
Readable(w) == {i \in view[w].offset + 1 .. Len(data) : data[i] \in Events}

\* readBatch, up to the await of the insert. A line that cannot be read is skipped
\* with the next one that can.
ReadLine(w) ==
    /\ Drains(w)
    /\ view[w].got = {}
    /\ view[w].offset < view[w].size
    /\ \E i \in Readable(w) :
         /\ \A j \in Readable(w) : i <= j
         /\ view' = [view EXCEPT ![w].got = {data[i]}, ![w].to = i]
    /\ UNCHANGED <<ownVars, fileVars, replay, atRisk, shared>>

Writes(w) == Drains(w) /\ view[w].got # {} /\ ~view[w].done

Store(w) ==
    /\ Writes(w)
    /\ stored' = stored \cup view[w].got
    /\ atRisk' = atRisk \ view[w].got
    /\ view' = [view EXCEPT ![w].done = TRUE]
    /\ UNCHANGED <<ownVars, data, offsetFile, dlq, replay, shared>>

\* A row that is there already absorbs the insert.
DeadLetter(w) ==
    /\ Writes(w)
    /\ view[w].got \cap stored = {}
    /\ dlq' = dlq \cup view[w].got
    /\ RiskIf(Replaying # {}, view[w].got)
    /\ view' = [view EXCEPT ![w].done = TRUE]
    /\ UNCHANGED <<ownVars, data, offsetFile, stored, replay, shared>>

\* The insert fails for now: the line is read again in a later pass.
Defer(w) ==
    /\ Writes(w)
    /\ view' = [view EXCEPT ![w].got = {}, ![w].to = 0]
    /\ UNCHANGED <<ownVars, fileVars, replay, atRisk, shared>>

\* The offset of a commit never passes the size its process knows of.
Committed(w) == IF view[w].to < view[w].size THEN view[w].to ELSE view[w].size

Commit(w) ==
    /\ Drains(w)
    /\ view[w].done
    /\ offsetFile' = Committed(w)
    /\ view' = [view EXCEPT ![w] =
         [@ EXCEPT !.offset = Committed(w), !.got = {}, !.to = 0, !.done = FALSE,
                   !.rotation = IF Committed(w) = view[w].size THEN "due" ELSE "none"]]
    /\ UNCHANGED <<ownVars, data, stored, dlq, replay, atRisk, shared>>

-----------------------------------------------------------------------------
(* replayDeadLetter *)

Selections == {dlq} \cup {{e \in dlq : TenantOf[e] = t} : t \in {TenantOf[e] : e \in Events}}

\* The file is read first, the directory asked for after it. What another rewrite has
\* taken out of the file and not put back yet is not read.
ReadRecords(r) ==
    /\ r \in Replays
    /\ replay[r].phase = "none"
    /\ Boot(r)
    /\ \E selected \in Selections :
         replay' = [replay EXCEPT ![r] = [phase |-> "opening", todo |-> selected,
                                          kept |-> dlq \ selected]]
    /\ Risk(InRewrite \ dlq)
    /\ UNCHANGED <<fileVars, view, shared>>

Requeues(r) == replay[r].phase = "opening" /\ pc[r] = "open" /\ view[r].rotation = "none"

\* writeEntry rotates a file that is large and of which every line is consumed.
RotatesFirst(p) == view[p].size >= RotateAt /\ view[p].offset = view[p].size

\* The next step of r is the write of one line.
Appends(r) == Requeues(r) /\ view[r].size < HardMax /\ ~RotatesFirst(r)

EndsTorn == data # <<>> /\ data[Len(data)] = Torn

\* The line goes to the file the descriptor was opened on. A line behind a fragment is
\* never read, and a line may be skipped at the next boot if it lies before an offset
\* that was left over from an earlier file.
Requeue(r, e) ==
    /\ Appends(r)
    /\ e \in replay[r].todo
    /\ replay' = [replay EXCEPT ![r].todo = @ \ {e}]
    /\ data' = IF view[r].fd = "moved" THEN data
                 ELSE Append(data, IF EndsTorn THEN Glued ELSE e)
    /\ view' = [view EXCEPT ![r] =
         [@ EXCEPT !.size = view[r].size + 1,
                   !.fd = IF view[r].fd = "moved" THEN "moved" ELSE "active"]]
    /\ RiskIf(EndsTorn \/ view[r].offset # offsetFile, {e})
    /\ UNCHANGED <<ownVars, offsetFile, stored, dlq, shared>>

\* An event the spool has no room for is only counted.
RefuseEvent(r, e) ==
    /\ Requeues(r)
    /\ e \in replay[r].todo
    /\ view[r].size >= HardMax
    /\ replay' = [replay EXCEPT ![r].todo = @ \ {e}]
    /\ Risk({e})
    /\ UNCHANGED <<ownVars, fileVars, view, shared>>

\* The process closes the spool and forgets what it knew of it.
Leaves(p) == Close(p) /\ view' = [view EXCEPT ![p] = NoView]

AllRequeued(r) ==
    /\ Requeues(r)
    /\ replay[r].todo = {}
    /\ Leaves(r)
    /\ replay' = [replay EXCEPT ![r].phase = "closing"]
    /\ UNCHANGED <<fileVars, atRisk, shared>>

\* A rewrite that a failed replay reaches too.
ThrowsIntoRewrite(r) ==
    /\ Appends(r)
    /\ replay[r].todo # {}
    /\ Leaves(r)
    /\ replay' = [replay EXCEPT ![r].phase = "closing"]
    /\ UNCHANGED <<fileVars, atRisk, shared>>

\* requeue throws: the finally clause closes the spool, the file stays as it is.
RequeueThrows(r) ==
    /\ Appends(r)
    /\ replay[r].todo # {}
    /\ Leaves(r)
    /\ replay' = [replay EXCEPT ![r] = NoReplay]
    /\ UNCHANGED <<fileVars, atRisk, shared>>

\* The process dies with part of the line on disk.
DiesInWrite(r) ==
    /\ Appends(r)
    /\ replay[r].todo # {}
    /\ view[r].fd # "moved"
    /\ ~EndsTorn
    /\ Crash(r)
    /\ data' = Append(data, Torn)
    /\ view' = [view EXCEPT ![r] = NoView]
    /\ replay' = [replay EXCEPT ![r] = NoReplay]
    /\ UNCHANGED <<offsetFile, stored, dlq, atRisk, shared>>

Rewrites(r, phase) == pc[r] = "out" /\ replay[r].phase = phase

TruncateDlq(r) ==
    /\ Rewrites(r, "closing")
    /\ dlq' = {}
    /\ replay' = [replay EXCEPT ![r].phase = "truncated"]
    /\ UNCHANGED <<ownVars, data, offsetFile, stored, view, atRisk, shared>>

\* What was appended since the truncation may be overwritten.
WriteDlq(r) ==
    /\ Rewrites(r, "truncated")
    /\ \E survivors \in SUBSET dlq : dlq' = replay[r].kept \cup survivors
    /\ replay' = [replay EXCEPT ![r] = NoReplay]
    /\ UNCHANGED <<ownVars, data, offsetFile, stored, view, atRisk, shared>>

DiesInRewrite(r) ==
    /\ r \in Replaying
    /\ pc[r] = "out"
    /\ crashes < MaxCrashes
    /\ crashes' = crashes + 1
    /\ RiskIf(replay[r].phase = "truncated", replay[r].kept)
    /\ replay' = [replay EXCEPT ![r] = NoReplay]
    /\ UNCHANGED <<pc, tries, holds, beats, lock, gap, fileVars, view, shared>>

-----------------------------------------------------------------------------
(* rotate(), after a commit of the last line or before an append *)

\* The descriptors that others hold stay with the file that is renamed.
Renamed(p) ==
    [q \in Instances |->
       IF q = p THEN [view[q] EXCEPT !.rotation = "renamed"]
       ELSE IF view[q].fd = "active" THEN [view[q] EXCEPT !.fd = "moved"] ELSE view[q]]

Rename(p) ==
    /\ pc[p] = "open"
    /\ \/ view[p].rotation = "due"
       \/ Requeues(p) /\ replay[p].todo # {} /\ view[p].size < HardMax /\ RotatesFirst(p)
    /\ data' = <<>>
    /\ view' = Renamed(p)
    /\ UNCHANGED <<ownVars, offsetFile, stored, dlq, replay, atRisk, shared>>

\* close(), from rotate: the descriptor is closed, the lock given away.
CloseOnRotate(p) ==
    /\ view[p].rotation = "renamed"
    /\ Rotate(p)
    /\ view' = [view EXCEPT ![p].rotation = "released", ![p].fd = "none"]
    /\ UNCHANGED <<fileVars, replay, atRisk, shared>>

EndRotation(p) ==
    /\ pc[p] = "open"
    /\ view[p].rotation = "released"
    /\ view' = [view EXCEPT ![p].rotation = "none", ![p].size = 0, ![p].offset = 0]
    /\ offsetFile' = 0
    /\ UNCHANGED <<ownVars, data, stored, dlq, replay, atRisk, shared>>

-----------------------------------------------------------------------------
(* The steps of owner.lock, under either *)

\* An offset past the file belongs to a file that was rotated away.
Opened == [NoView EXCEPT !.size = Len(data),
                         !.offset = IF offsetFile <= Len(data) THEN offsetFile ELSE 0]

\* A process that is given the directory reads size and offset; a replay that is not
\* throws.
ProtocolStep(p) ==
    /\ Protocol(p)
    /\ view' = IF pc[p] = "fill" THEN [view EXCEPT ![p] = Opened] ELSE view
    /\ replay' = IF pc'[p] = "out" /\ replay[p].phase = "opening"
                   THEN [replay EXCEPT ![p] = NoReplay] ELSE replay
    /\ UNCHANGED <<fileVars, atRisk>>
    /\ Sharing

\* The replay runs to its close without yielding, so its timer never fires; the worker
\* yields between its passes and while it inserts.
WorkerBoot(w) == w \in Workers /\ Boot(w) /\ UNCHANGED <<fileVars, view, replay, atRisk, shared>>

WorkerStep(w) ==
    /\ Drains(w)
    /\ ~view[w].done
    /\ \/ Beat(w) /\ UNCHANGED view
       \/ Leaves(w)
    /\ UNCHANGED <<fileVars, replay, atRisk, shared>>

Die(p) ==
    /\ Crash(p)
    /\ view' = [view EXCEPT ![p] = NoView]
    /\ replay' = [replay EXCEPT ![p] = NoReplay]
    /\ UNCHANGED <<fileVars, atRisk, shared>>

TimePasses == Tick /\ UNCHANGED <<fileVars, view, replay, atRisk, shared>>

Next ==
    \/ \E p \in Instances :
          \/ ProtocolStep(p)
          \/ WorkerBoot(p)
          \/ WorkerStep(p)
          \/ Die(p)
          \/ ReadLine(p)
          \/ Store(p)
          \/ DeadLetter(p)
          \/ Defer(p)
          \/ Commit(p)
          \/ Rename(p)
          \/ CloseOnRotate(p)
          \/ EndRotation(p)
          \/ ReadRecords(p)
          \/ AllRequeued(p)
          \/ RequeueThrows(p)
          \/ DiesInWrite(p)
          \/ TruncateDlq(p)
          \/ WriteDlq(p)
          \/ DiesInRewrite(p)
          \/ \E e \in Events : Requeue(p, e) \/ RefuseEvent(p, e)
    \/ TimePasses

\* A process that was started finishes opening the directory, the supervisor starts
\* the worker again whenever it ends, and time passes.
Fairness ==
    /\ \A p \in Instances : WF_vars(ProtocolStep(p))
    /\ \A w \in Workers : WF_vars(WorkerBoot(w))
    /\ WF_vars(TimePasses)

Spec == Init /\ [][Next]_vars /\ Fairness

-----------------------------------------------------------------------------
Waiting == {data[i] : i \in offsetFile + 1 .. Len(data)}

\* As long as no two processes used the directory at once, an event is lost only if
\* one of these steps put this very event at risk: the worker dead-lettered it while a
\* replay was under way, the spool refused it, a replay read the file while another
\* rewrite had it in its hands or died with it there, or it was put back behind a
\* fragment or an offset a death had left. Every other event stays in the spool, the
\* table or the dead-letter file, whichever replays overlap, throw or die
\* (dead-letter-replay.ts:123, 147-174, spool.ts:417-447, 529-539, 694-703).
DeadLettersKept ==
    ~shared => Events \ atRisk \subseteq Waiting \cup stored \cup dlq \cup InRewrite
=============================================================================
