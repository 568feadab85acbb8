----------------------- MODULE DeadLetterReplayProofs -----------------------
(***************************************************************************)
(* Proofs about owner.lock and the replay of the dead-letter file.         *)
(*                                                                         *)
(* While no gap was met, the lock file says of every process that uses the *)
(* directory, or is about to, that it is its own (Held); two such          *)
(* processes are therefore one.  As long as two processes never used the   *)
(* directory at once, what the one that uses it knows of the spool is what *)
(* the files hold (InSync), so that it moves its offset, or the file, past *)
(* no line that still waits; and an event that waits nowhere and is not in *)
(* the table is in the dead-letter file or in a rewrite's hands, and known *)
(* to every replay under way (Resting).                                    *)
(***************************************************************************)
EXTENDS DeadLetterReplay, FiniteSetTheorems, SequenceTheorems, TLAPS

-----------------------------------------------------------------------------
(* The steps that touch owner.lock *)

OwnStep(p) == Boot(p) \/ Beat(p) \/ Close(p) \/ Rotate(p) \/ Crash(p) \/ Protocol(p)

\* Of the lock, nothing but the count of crashes.
Aside == UNCHANGED <<pc, tries, holds, beats, lock, gap>> /\ crashes' \in 0 .. MaxCrashes

LEMMA OwnSteps ==
  ASSUME OwnTypeOK, [Next]_vars
  PROVE  (\E p \in Instances : OwnStep(p)) \/ Tick \/ Aside
<1>1. CASE UNCHANGED vars
  BY <1>1 DEF vars, ownVars, Aside, OwnTypeOK
<1>2. CASE TimePasses
  BY <1>2 DEF TimePasses
<1>3. ASSUME NEW p \in Instances,
             \/ ProtocolStep(p) \/ WorkerBoot(p) \/ WorkerStep(p) \/ Die(p) \/ CloseOnRotate(p)
             \/ ReadRecords(p) \/ AllRequeued(p) \/ RequeueThrows(p) \/ DiesInWrite(p)
      PROVE  OwnStep(p)
  BY <1>3 DEF ProtocolStep, WorkerBoot, WorkerStep, Die, CloseOnRotate, ReadRecords, AllRequeued,
              RequeueThrows, DiesInWrite, Leaves, OwnStep
<1>4. ASSUME NEW p \in Instances,
             \/ ReadLine(p) \/ Store(p) \/ DeadLetter(p) \/ Defer(p) \/ Commit(p)
             \/ Rename(p) \/ EndRotation(p) \/ TruncateDlq(p) \/ WriteDlq(p)
      PROVE  Aside
  BY <1>4 DEF ReadLine, Store, DeadLetter, Defer, Commit, Rename, EndRotation, TruncateDlq, WriteDlq,
              ownVars, Aside, OwnTypeOK
<1>5. ASSUME NEW p \in Instances, DiesInRewrite(p)
      PROVE  Aside
  BY <1>5, OwnershipAssumption DEF DiesInRewrite, fileVars, Aside, OwnTypeOK
<1>6. ASSUME NEW p \in Instances, NEW e \in Events, Requeue(p, e) \/ RefuseEvent(p, e)
      PROVE  Aside
  BY <1>6 DEF Requeue, RefuseEvent, ownVars, Aside, OwnTypeOK
<1> QED
  BY <1>1, <1>2, <1>3, <1>4, <1>5, <1>6 DEF Next

\* What is known of a lock file.
LEMMA Locks ==
  ASSUME OwnershipAssumption
  PROVE  /\ Absent \in LockFile
         /\ Absent.state = "absent"
         /\ \A p \in Instances, s \in {"blank", "full"} :
              /\ LockBy(p, s) \in LockFile
              /\ LockBy(p, s).state = s /\ LockBy(p, s).by = p /\ LockBy(p, s).gone = FALSE
         /\ \A l \in LockFile :
              l.state # "absent" =>
                l \in [state : {"blank", "full"}, by : Instances, age : 0 .. Stale, gone : BOOLEAN]
         /\ \A l \in LockFile : l.state = "absent" => l = Absent
<1>1. 0 \in 0 .. Stale
  BY DEF OwnershipAssumption
<1>2. \A p \in Instances, s \in {"blank", "full"} :
        /\ LockBy(p, s) \in LockFile
        /\ LockBy(p, s).state = s /\ LockBy(p, s).by = p /\ LockBy(p, s).gone = FALSE
  BY <1>1 DEF LockBy, LockFile
<1>3. Absent \in LockFile /\ Absent.state = "absent"
  BY DEF Absent, LockFile
<1>4. ASSUME NEW l \in [state : {"blank", "full"}, by : Instances, age : 0 .. Stale, gone : BOOLEAN]
      PROVE  l.state # "absent"
  OBVIOUS
<1> QED BY <1>2, <1>3, <1>4 DEF LockFile

LEMMA ContentOf ==
  ASSUME OwnTypeOK, OwnershipAssumption, NEW p \in Instances
  PROVE  /\ Content(p) \in LockFile
         /\ Content(p) # lock =>
              Content(p) = LockBy(p, "full") /\ lock.state = "blank" /\ lock.by = p
         /\ lock.state = "blank" /\ lock.by = p => Content(p) = LockBy(p, "full")
BY Locks DEF Content, OwnTypeOK

LEMMA OwnTypeStep ==
  ASSUME OwnTypeOK, (\E p \in Instances : OwnStep(p)) \/ Tick \/ Aside
  PROVE  OwnTypeOK'
<1>1. CASE Aside
  BY <1>1 DEF Aside, OwnTypeOK
<1>2. CASE Tick
  <2>1. lock \in [state : {"blank", "full"}, by : Instances, age : 0 .. Stale, gone : BOOLEAN]
    BY <1>2, Locks, OwnershipAssumption DEF Tick, OwnTypeOK
  <2>2. lock.age + 1 \in 0 .. Stale
    BY <1>2, <2>1, OwnershipAssumption DEF Tick
  <2>3. lock' \in LockFile
    BY <1>2, <2>1, <2>2 DEF Tick, LockFile
  <2> QED BY <1>2, <2>3 DEF Tick, OwnTypeOK
<1>3. ASSUME NEW p \in Instances, OwnStep(p)
      PROVE  OwnTypeOK'
  <2>1. /\ Absent \in LockFile
        /\ LockBy(p, "blank") \in LockFile
        /\ Content(p) \in LockFile
    BY Locks, ContentOf, OwnershipAssumption
  <2>2. CASE Boot(p) \/ Exists(p) \/ Refuse(p) \/ JudgeGone(p)
    <3>1. UNCHANGED lock /\ crashes' = crashes /\ holds' = holds /\ beats' = beats
      BY <2>2 DEF Boot, Exists, Refuse, JudgeGone
    <3>2. pc' \in [Instances -> Claiming \cup Using \cup {"out"}]
      BY <2>2 DEF Boot, Exists, Refuse, JudgeGone, Goes, OwnTypeOK, Claiming
    <3>3. tries' \in [Instances -> 0 .. 1]
      BY <2>2 DEF Boot, Exists, Refuse, JudgeGone, OwnTypeOK
    <3>4. gap' = gap \/ gap' = (gap \/ (IsLive /\ CannotShow))
      BY <2>2 DEF Boot, Exists, Refuse, JudgeGone, GapIf
    <3>5. gap' \in BOOLEAN
      BY <3>4 DEF OwnTypeOK
    <3> QED BY <3>1, <3>2, <3>3, <3>5 DEF OwnTypeOK
  <2>3. CASE Create(p) \/ Fill(p)
    <3>1. lock' \in LockFile /\ crashes' = crashes /\ gap' = gap
      BY <2>1, <2>3 DEF Create, Fill
    <3>2. pc' \in [Instances -> Claiming \cup Using \cup {"out"}]
      BY <2>3 DEF Create, Fill, Goes, OwnTypeOK, Claiming, Using
    <3>3. tries' \in [Instances -> 0 .. 1]
      BY <2>3 DEF Create, Fill, OwnTypeOK
    <3>4. holds' \in [Instances -> BOOLEAN] /\ beats' \in [Instances -> BOOLEAN]
      BY <2>3 DEF Create, Fill, OwnTypeOK
    <3> QED BY <3>1, <3>2, <3>3, <3>4 DEF OwnTypeOK
  <2>4. CASE Evict(p)
    <3>1. tries[p] \in 0 .. 1
      BY DEF OwnTypeOK
    <3>2. 1 - tries[p] \in 0 .. 1
      BY <3>1
    <3>3. tries' \in [Instances -> 0 .. 1]
      BY <2>4, <3>2 DEF Evict, OwnTypeOK
    <3>4. pc' \in [Instances -> Claiming \cup Using \cup {"out"}] /\ gap' \in BOOLEAN
      BY <2>4 DEF Evict, Goes, GapIf, OwnTypeOK, Claiming
    <3> QED BY <2>1, <2>4, <3>3, <3>4 DEF Evict, OwnTypeOK
  <2>5. CASE Truncate(p) \/ Rewrite(p)
    BY <2>1, <2>5 DEF Truncate, Rewrite, Goes, GapIf, OwnTypeOK, Using
  <2>6. CASE UnlinkOnClose(p) \/ UnlinkOnRotate(p)
    BY <2>1, <2>6 DEF UnlinkOnClose, UnlinkOnRotate, Unlink, Goes, GapIf, OwnTypeOK, Using
  <2>7. CASE Beat(p) \/ Close(p) \/ Rotate(p)
    BY <2>7 DEF Beat, Close, Rotate, Release, Goes, OwnTypeOK, Using
  <2>8. CASE Crash(p)
    <3>1. lock' \in LockFile
      <4>1. CASE IsLive /\ lock.by = p
        <5>1. lock \in [state : {"blank", "full"}, by : Instances, age : 0 .. Stale, gone : BOOLEAN]
          BY <4>1, Locks, OwnershipAssumption DEF IsLive, OwnTypeOK
        <5> QED BY <2>8, <4>1, <5>1 DEF Crash, LockFile
      <4>2. CASE ~(IsLive /\ lock.by = p)
        BY <2>8, <4>2 DEF Crash, OwnTypeOK
      <4> QED BY <4>1, <4>2
    <3>2. crashes' \in 0 .. MaxCrashes
      BY <2>8, OwnershipAssumption DEF Crash, OwnTypeOK
    <3> QED BY <2>8, <3>1, <3>2 DEF Crash, OwnTypeOK
  <2> QED
    BY <1>3, <2>2, <2>3, <2>4, <2>5, <2>6, <2>7, <2>8 DEF OwnStep, Protocol
<1> QED BY <1>1, <1>2, <1>3

-----------------------------------------------------------------------------
(* While no gap was met, the lock file names whoever uses the directory *)

Held ==
    ~gap =>
      \A p \in Instances :
        /\ pc[p] \in {"fill", "rewrite"} => lock.state = "blank" /\ lock.by = p /\ ~lock.gone
        /\ pc[p] \in {"open", "beat", "close", "rotate"} => IsMine(p)

\* Whoever is under way has a lock file that is there, is its own, and shows it alive.
LEMMA HeldByOne ==
  ASSUME Held, ~gap, NEW p \in Instances,
         pc[p] \in {"fill", "rewrite", "open", "beat", "close", "rotate"}
  PROVE  lock.state # "absent" /\ lock.by = p /\ ~lock.gone
BY DEF Held, IsMine

\* A live owner is never evicted unseen: in its own table it is found alive, and
\* elsewhere either its heartbeat is fresh or the eviction is a gap.
LEMMA EvictsTheDead ==
  ASSUME NEW p \in Instances, Evict(p), ~gap', OwnTypeOK
  PROVE  ~gap /\ ~IsLive
<1>1. /\ IsLive => ~isOwnerAlive(p) /\ ~CannotShow
      /\ ~gap
  BY DEF Evict, GapIf
<1>2. ASSUME IsLive, ~CannotShow
      PROVE  isOwnerAlive(p)
  <2>1. lock \in [state : {"blank", "full"}, by : Instances, age : 0 .. Stale, gone : BOOLEAN]
    BY <1>2, Locks, OwnershipAssumption DEF IsLive, OwnTypeOK
  <2>2. lock.age < Stale
    BY <1>2, <2>1, OwnershipAssumption DEF CannotShow
  <2> QED BY <1>2, <2>2 DEF IsLive, isOwnerAlive
<1> QED BY <1>1, <1>2

LEMMA HeldStep ==
  ASSUME OwnTypeOK, Held, (\E p \in Instances : OwnStep(p)) \/ Tick \/ Aside
  PROVE  Held'
<1> SUFFICES ASSUME ~gap', NEW q \in Instances
             PROVE  /\ pc'[q] \in {"fill", "rewrite"} =>
                         lock'.state = "blank" /\ lock'.by = q /\ ~lock'.gone
                    /\ pc'[q] \in {"open", "beat", "close", "rotate"} => IsMine(q)'
  BY DEF Held
<1> DEFINE Good == /\ pc'[q] \in {"fill", "rewrite"} =>
                        lock'.state = "blank" /\ lock'.by = q /\ ~lock'.gone
                   /\ pc'[q] \in {"open", "beat", "close", "rotate"} =>
                        lock'.state = "full" /\ lock'.by = q /\ ~lock'.gone
<1> SUFFICES Good
  BY DEF IsMine
<1>1. CASE Aside
  BY <1>1 DEF Aside, Held, IsMine
<1>2. CASE Tick
  <2>1. lock \in [state : {"blank", "full"}, by : Instances, age : 0 .. Stale, gone : BOOLEAN]
    BY <1>2, Locks, OwnershipAssumption DEF Tick, OwnTypeOK
  <2>2. lock'.state = lock.state /\ lock'.by = lock.by /\ lock'.gone = lock.gone
    BY <1>2, <2>1 DEF Tick
  <2> QED BY <1>2, <2>2 DEF Tick, Held, IsMine
<1>3. ASSUME NEW p \in Instances, OwnStep(p)
      PROVE  Good
  <2>1. pc \in [Instances -> Claiming \cup Using \cup {"out"}]
    BY DEF OwnTypeOK
  <2>2. ~gap
    <3>1. gap \in BOOLEAN
      BY DEF OwnTypeOK
    <3> QED
      BY <1>3, <3>1 DEF OwnStep, Protocol, Boot, Beat, Close, Rotate, Release, Crash, Create, Exists,
                        Fill, Refuse, JudgeGone, Evict, Truncate, Rewrite, UnlinkOnClose,
                        UnlinkOnRotate, Unlink, GapIf
  <2>3. CASE Boot(p) \/ Exists(p) \/ Refuse(p) \/ JudgeGone(p)
    <3>1. UNCHANGED lock
      BY <2>3 DEF Boot, Exists, Refuse, JudgeGone
    <3>2. pc'[q] = pc[q] \/ pc'[q] \in {"claim", "found", "out", "evict"}
      BY <2>1, <2>3 DEF Boot, Exists, Refuse, JudgeGone, Goes
    <3> QED BY <2>2, <3>1, <3>2 DEF Held, IsMine
  <2>4. CASE Create(p)
    <3>1. lock.state = "absent" /\ lock' = LockBy(p, "blank")
      BY <2>4, Locks, OwnershipAssumption DEF Create
    <3>2. pc'[q] = IF q = p THEN "fill" ELSE pc[q]
      BY <2>1, <2>4 DEF Create, Goes
    <3>3. CASE q = p
      BY <3>1, <3>2, <3>3, Locks, OwnershipAssumption
    <3>4. CASE q # p
      BY <2>2, <3>1, <3>2, <3>4, HeldByOne
    <3> QED BY <3>3, <3>4
  <2>5. CASE Fill(p) \/ Rewrite(p)
    <3>1. pc[p] \in {"fill", "rewrite"} /\ lock' = Content(p)
      BY <2>5 DEF Fill, Rewrite, Goes
    <3>2. pc'[q] = IF q = p THEN "open" ELSE pc[q]
      BY <2>1, <2>5 DEF Fill, Rewrite, Goes
    <3>3. lock.state = "blank" /\ lock.by = p
      BY <2>2, <3>1 DEF Held
    <3>4. lock' = LockBy(p, "full")
      BY <3>1, <3>3 DEF Content
    <3>5. CASE q = p
      BY <3>2, <3>4, <3>5, Locks, OwnershipAssumption
    <3>6. CASE q # p
      BY <2>2, <3>2, <3>3, <3>6, HeldByOne
    <3> QED BY <3>5, <3>6
  <2>6. CASE Evict(p)
    <3>1. ~IsLive
      BY <2>6, EvictsTheDead
    <3>2. pc'[q] = pc[q] \/ pc'[q] \in {"claim", "out"}
      BY <2>1, <2>6 DEF Evict, Goes
    <3> QED BY <2>2, <3>1, <3>2, HeldByOne DEF IsLive
  <2>7. CASE Truncate(p)
    <3>1. IsMine(p) /\ lock' = LockBy(p, "blank")
      BY <2>7 DEF Truncate, GapIf
    <3>2. pc'[q] = IF q = p THEN "rewrite" ELSE pc[q]
      BY <2>1, <2>7 DEF Truncate, Goes
    <3>3. CASE q = p
      BY <3>1, <3>2, <3>3, Locks, OwnershipAssumption
    <3>4. CASE q # p
      BY <2>2, <3>1, <3>2, <3>4, HeldByOne DEF IsMine
    <3> QED BY <3>3, <3>4
  <2>8. CASE UnlinkOnClose(p)
    <3>1. IsMine(p)
      BY <2>8 DEF UnlinkOnClose, GapIf
    <3>2. pc'[q] = IF q = p THEN "out" ELSE pc[q]
      BY <2>1, <2>8 DEF UnlinkOnClose, Unlink, Goes
    <3> QED BY <2>2, <3>1, <3>2, HeldByOne DEF IsMine
  <2>9. CASE UnlinkOnRotate(p)
    BY <2>9 DEF UnlinkOnRotate, GapIf
  <2>10. CASE Beat(p) \/ Close(p) \/ Rotate(p)
    <3>1. UNCHANGED lock /\ pc[p] = "open"
      BY <2>10 DEF Beat, Close, Rotate, Release, Goes
    <3>2. pc'[q] = pc[q] \/ (q = p /\ pc'[q] \in {"open", "beat", "close", "rotate", "out"})
      BY <2>1, <2>10 DEF Beat, Close, Rotate, Release, Goes
    <3> QED BY <2>2, <3>1, <3>2 DEF Held, IsMine
  <2>11. CASE Crash(p)
    <3>1. pc'[q] = IF q = p THEN "out" ELSE pc[q]
      BY <2>1, <2>11 DEF Crash
    <3>2. CASE pc'[q] \in {"fill", "rewrite", "open", "beat", "close", "rotate"}
      <4>1. q # p /\ pc[q] = pc'[q]
        BY <3>1, <3>2
      <4>2. lock.by = q
        BY <2>2, <3>2, <4>1, HeldByOne
      <4>3. UNCHANGED lock
        BY <2>11, <4>1, <4>2 DEF Crash
      <4> QED BY <2>2, <4>1, <4>3 DEF Held, IsMine
    <3> QED BY <3>2
  <2> QED
    BY <1>3, <2>3, <2>4, <2>5, <2>6, <2>7, <2>8, <2>9, <2>10, <2>11 DEF OwnStep, Protocol
<1> QED BY <1>1, <1>2, <1>3

LEMMA HeldIsOneOwner ==
  ASSUME Held
  PROVE  OneOwnerUnlessGap
<1> SUFFICES ASSUME ~gap PROVE Cardinality(Owners) <= 1
  BY DEF OneOwnerUnlessGap, OneOwner
<1>1. \A p \in Owners : lock.by = p
  BY HeldByOne DEF Owners, Using
<1>2. CASE Owners = {}
  BY <1>2, FS_EmptySet
<1>3. ASSUME NEW p \in Owners
      PROVE  Cardinality(Owners) <= 1
  <2>1. Owners = {p}
    BY <1>1, <1>3
  <2>2. Cardinality({p}) = 1
    BY FS_Singleton
  <2> QED BY <2>1, <2>2
<1> QED BY <1>2, <1>3

-----------------------------------------------------------------------------
(* The types of the files, the views and the replays *)

Line == Events \cup {Torn, Glued}
Replay == [phase : Phases, todo : SUBSET Events, kept : SUBSET Events]

FileTypeOK ==
    /\ data \in Seq(Line)
    /\ offsetFile \in Nat
    /\ stored \subseteq Events
    /\ dlq \subseteq Events
    /\ atRisk \subseteq Events

\* What a process has just read, or reads anew, is of its type.
LEMMA Parts ==
  ASSUME TypeOK
  PROVE  /\ NoReplay \in Replay /\ NoReplay.phase = "none" /\ NoReplay.todo = {}
         /\ NoView \in View /\ Opened \in View
         /\ Len(data) \in Nat
         /\ \A p \in Instances : view[p] \in View /\ replay[p] \in Replay
<1>1. Len(data) \in Nat /\ offsetFile \in Nat
  BY DEF TypeOK
<1>2. NoView \in View
  BY DEF NoView, View
<1>3. Opened \in View
  BY <1>1 DEF Opened, NoView, View
<1> QED BY <1>1, <1>2, <1>3 DEF TypeOK, NoReplay, Replay, Phases

LEMMA ViewTypeStep ==
  ASSUME TypeOK, [Next]_vars
  PROVE  view' \in [Instances -> View]
<1> USE DEF TypeOK
<1>1. CASE UNCHANGED vars \/ TimePasses
  BY <1>1 DEF vars, TimePasses
<1>2. ASSUME NEW p \in Instances,
             \/ WorkerBoot(p) \/ ReadRecords(p) \/ TruncateDlq(p) \/ WriteDlq(p) \/ DiesInRewrite(p)
             \/ \E e \in Events : RefuseEvent(p, e)
      PROVE  view' = view
  BY <1>2 DEF WorkerBoot, ReadRecords, TruncateDlq, WriteDlq, DiesInRewrite, RefuseEvent
<1>3. ASSUME NEW p \in Instances, \E v \in View : view' = [view EXCEPT ![p] = v]
      PROVE  view' \in [Instances -> View]
  BY <1>3
<1>4. ASSUME NEW p \in Instances,
             \/ ProtocolStep(p) \/ WorkerStep(p) \/ Die(p) \/ AllRequeued(p) \/ RequeueThrows(p)
             \/ DiesInWrite(p)
      PROVE  view' \in [Instances -> View]
  BY <1>4, Parts DEF ProtocolStep, WorkerStep, Die, AllRequeued, RequeueThrows, DiesInWrite, Leaves
<1>5. ASSUME NEW p \in Instances, ReadLine(p)
      PROVE  view' \in [Instances -> View]
  <2>1. PICK i \in Readable(p) : view' = [view EXCEPT ![p].got = {data[i]}, ![p].to = i]
    BY <1>5 DEF ReadLine
  <2>2. data[i] \in Events /\ i \in Nat
    BY <2>1, Parts DEF Readable, View
  <2>3. [view[p] EXCEPT !.got = {data[i]}, !.to = i] \in View
    BY <2>2 DEF View
  <2> QED BY <2>1, <2>3
<1>6. ASSUME NEW p \in Instances,
             Store(p) \/ DeadLetter(p) \/ Defer(p) \/ CloseOnRotate(p) \/ EndRotation(p)
      PROVE  view' \in [Instances -> View]
  <2>1. /\ [view[p] EXCEPT !.done = TRUE] \in View
        /\ [view[p] EXCEPT !.got = {}, !.to = 0] \in View
        /\ [view[p] EXCEPT !.rotation = "released", !.fd = "none"] \in View
        /\ [view[p] EXCEPT !.rotation = "none", !.size = 0, !.offset = 0] \in View
    BY DEF View
  <2> QED BY <1>6, <2>1 DEF Store, DeadLetter, Defer, CloseOnRotate, EndRotation
<1>7. ASSUME NEW p \in Instances, Commit(p)
      PROVE  view' \in [Instances -> View]
  <2>1. Committed(p) \in Nat
    BY DEF Committed, View
  <2> DEFINE after == [view[p] EXCEPT !.offset = Committed(p), !.got = {}, !.to = 0, !.done = FALSE,
                         !.rotation = IF Committed(p) = view[p].size THEN "due" ELSE "none"]
  <2>2. after \in View
    BY <2>1 DEF View
  <2>3. view' = [view EXCEPT ![p] = after]
    BY <1>7 DEF Commit
  <2> QED BY <2>2, <2>3
<1>8. ASSUME NEW p \in Instances, Rename(p)
      PROVE  view' \in [Instances -> View]
  BY <1>8 DEF Rename, Renamed, View
<1>9. ASSUME NEW p \in Instances, NEW e \in Events, Requeue(p, e)
      PROVE  view' \in [Instances -> View]
  <2>1. view[p].size + 1 \in Nat
    BY DEF View
  <2> DEFINE after == [view[p] EXCEPT !.size = view[p].size + 1,
                                    !.fd = IF view[p].fd = "moved" THEN "moved" ELSE "active"]
  <2>2. after \in View
    BY <2>1 DEF View
  <2>3. view' = [view EXCEPT ![p] = after]
    BY <1>9 DEF Requeue
  <2> QED BY <2>2, <2>3
<1> QED
  BY <1>1, <1>2, <1>4, <1>5, <1>6, <1>7, <1>8, <1>9 DEF Next

LEMMA ReplayTypeStep ==
  ASSUME TypeOK, [Next]_vars
  PROVE  replay' \in [Instances -> Replay]
<1>1. replay \in [Instances -> Replay] /\ NoReplay \in Replay
  BY Parts DEF TypeOK, Replay
<1>2. CASE UNCHANGED vars \/ TimePasses
  BY <1>1, <1>2 DEF vars, TimePasses
<1>3. ASSUME NEW p \in Instances,
             \/ WorkerBoot(p) \/ WorkerStep(p) \/ ReadLine(p) \/ Store(p) \/ DeadLetter(p) \/ Defer(p)
             \/ Commit(p) \/ Rename(p) \/ CloseOnRotate(p) \/ EndRotation(p)
      PROVE  replay' = replay
  BY <1>3 DEF WorkerBoot, WorkerStep, ReadLine, Store, DeadLetter, Defer, Commit, Rename,
              CloseOnRotate, EndRotation
<1>4. ASSUME NEW p \in Instances,
             \/ ProtocolStep(p) \/ Die(p) \/ RequeueThrows(p) \/ DiesInWrite(p) \/ WriteDlq(p)
             \/ DiesInRewrite(p)
      PROVE  replay' \in [Instances -> Replay]
  BY <1>1, <1>4 DEF ProtocolStep, Die, RequeueThrows, DiesInWrite, WriteDlq, DiesInRewrite
<1>5. ASSUME NEW p \in Instances, ReadRecords(p)
      PROVE  replay' \in [Instances -> Replay]
  <2>1. PICK selected \in Selections :
          replay' = [replay EXCEPT ![p] = [phase |-> "opening", todo |-> selected,
                                           kept |-> dlq \ selected]]
    BY <1>5 DEF ReadRecords
  <2>2. selected \subseteq Events
    BY DEF Selections, TypeOK
  <2>3. [phase |-> "opening", todo |-> selected, kept |-> dlq \ selected] \in Replay
    BY <2>2 DEF Replay, Phases, TypeOK
  <2> QED BY <1>1, <2>1, <2>3
<1>6. ASSUME NEW p \in Instances, AllRequeued(p) \/ TruncateDlq(p)
      PROVE  replay' \in [Instances -> Replay]
  BY <1>1, <1>6 DEF AllRequeued, TruncateDlq, Replay, Phases
<1>7. ASSUME NEW p \in Instances, NEW e \in Events, Requeue(p, e) \/ RefuseEvent(p, e)
      PROVE  replay' \in [Instances -> Replay]
  BY <1>1, <1>7 DEF Requeue, RefuseEvent, Replay
<1> QED
  BY <1>1, <1>2, <1>3, <1>4, <1>5, <1>6, <1>7 DEF Next

LEMMA FilesStep ==
  ASSUME TypeOK, [Next]_vars
  PROVE  FileTypeOK' /\ shared' \in BOOLEAN
<1> USE DEF TypeOK, FileTypeOK, fileVars, Line
<1>1. CASE UNCHANGED vars \/ TimePasses
  BY <1>1 DEF vars, TimePasses
<1>2. ASSUME NEW p \in Instances,
             \/ WorkerBoot(p) \/ WorkerStep(p) \/ Die(p) \/ ReadLine(p) \/ Defer(p)
             \/ CloseOnRotate(p) \/ AllRequeued(p) \/ RequeueThrows(p)
      PROVE  FileTypeOK' /\ shared' \in BOOLEAN
  BY <1>2 DEF WorkerBoot, WorkerStep, Die, ReadLine, Defer, CloseOnRotate, AllRequeued, RequeueThrows
<1>3. ASSUME NEW p \in Instances, ProtocolStep(p)
      PROVE  FileTypeOK' /\ shared' \in BOOLEAN
  <2>1. shared' = (shared \/ ~OneOwner')
    BY <1>3 DEF ProtocolStep, Sharing
  <2>2. shared' \in BOOLEAN
    BY <2>1
  <2> QED BY <1>3, <2>2 DEF ProtocolStep
<1>4. ASSUME NEW p \in Instances, Store(p) \/ DeadLetter(p)
      PROVE  FileTypeOK' /\ shared' \in BOOLEAN
  <2>1. view[p].got \subseteq Events
    BY DEF View
  <2> QED BY <1>4, <2>1 DEF Store, DeadLetter, RiskIf, Risk
<1>5. ASSUME NEW p \in Instances, Commit(p) \/ EndRotation(p)
      PROVE  FileTypeOK' /\ shared' \in BOOLEAN
  <2>1. Committed(p) \in Nat
    BY DEF Committed, View
  <2> QED BY <1>5, <2>1 DEF Commit, EndRotation
<1>6. ASSUME NEW p \in Instances, Rename(p)
      PROVE  FileTypeOK' /\ shared' \in BOOLEAN
  BY <1>6 DEF Rename
<1>7. ASSUME NEW p \in Instances, TruncateDlq(p) \/ WriteDlq(p) \/ DiesInRewrite(p)
      PROVE  FileTypeOK' /\ shared' \in BOOLEAN
  BY <1>7 DEF TruncateDlq, WriteDlq, DiesInRewrite, RiskIf, Risk
<1>8. ASSUME NEW p \in Instances, ReadRecords(p)
      PROVE  FileTypeOK' /\ shared' \in BOOLEAN
  <2>1. InRewrite \subseteq Events
    BY DEF InRewrite, Replays
  <2> QED BY <1>8, <2>1 DEF ReadRecords, Risk
<1>9. ASSUME NEW p \in Instances, DiesInWrite(p)
      PROVE  FileTypeOK' /\ shared' \in BOOLEAN
  BY <1>9 DEF DiesInWrite
<1>10. ASSUME NEW p \in Instances, NEW e \in Events, Requeue(p, e) \/ RefuseEvent(p, e)
       PROVE  FileTypeOK' /\ shared' \in BOOLEAN
  BY <1>10 DEF Requeue, RefuseEvent, RiskIf, Risk
<1> QED
  BY <1>1, <1>2, <1>3, <1>4, <1>5, <1>6, <1>7, <1>8, <1>9, <1>10 DEF Next

LEMMA FileTypeStep ==
  ASSUME TypeOK, [Next]_vars
  PROVE  TypeOK'
<1>1. OwnTypeOK'
  BY OwnSteps, OwnTypeStep DEF TypeOK
<1> QED
  BY <1>1, ViewTypeStep, ReplayTypeStep, FilesStep DEF TypeOK, FileTypeOK, Line, Replay

LEMMA FileTypeInit ==
  ASSUME Init
  PROVE  TypeOK /\ Held
<1>1. OwnTypeOK
  <2>1. /\ pc = [p \in Instances |-> "out"] /\ tries = [p \in Instances |-> 0]
        /\ holds = [p \in Instances |-> FALSE] /\ beats = [p \in Instances |-> FALSE]
        /\ lock = Absent /\ crashes = 0 /\ gap = FALSE
    BY DEF Init, OwnInit
  <2>2. lock \in LockFile /\ crashes \in 0 .. MaxCrashes
    BY <2>1, Locks, OwnershipAssumption
  <2>3. pc \in [Instances -> Claiming \cup Using \cup {"out"}] /\ tries \in [Instances -> 0 .. 1]
    BY <2>1
  <2>4. holds \in [Instances -> BOOLEAN] /\ beats \in [Instances -> BOOLEAN] /\ gap \in BOOLEAN
    BY <2>1
  <2> QED BY <2>2, <2>3, <2>4 DEF OwnTypeOK
<1>2. Held
  BY DEF Init, OwnInit, Held
<1>3. replay \in [Instances -> Replay] /\ view \in [Instances -> View]
  BY DEF Init, NoReplay, Replay, Phases, NoView, View
<1>4. Cardinality(Events \ dlq) \in Nat
  BY ReplayAssumption, FS_Difference, FS_CardinalityType
<1>5. data \in Seq(Line)
  <2>1. data \in [1 .. Cardinality(Events \ dlq) -> Line]
    BY DEF Init, Line
  <2> QED BY <1>4, <2>1, SeqDef
<1>6. /\ offsetFile \in Nat /\ stored \subseteq Events /\ dlq \subseteq Events
      /\ atRisk \subseteq Events /\ shared \in BOOLEAN
  BY DEF Init
<1> QED BY <1>1, <1>2, <1>3, <1>5, <1>6 DEF TypeOK, Replay, Line

\* The types hold, and with them what the lock file says of its owner.
LEMMA Ownership == Spec => [](TypeOK /\ Held)
<1>1. TypeOK /\ Held /\ [Next]_vars => TypeOK' /\ Held'
  BY FileTypeStep, OwnSteps, HeldStep DEF TypeOK
<1> QED BY <1>1, FileTypeInit, PTL DEF Spec

\* Every variable keeps its type; the age of the lock file and the count of crashes
\* stay within their bounds.
THEOREM TypeCorrect == Spec => []TypeOK
BY Ownership, PTL

\* Two processes never use a spool directory unless one of the gaps was met, for any
\* number of processes and containers: claims, refusals, takeovers from the dead,
\* heartbeats, closes and crashes keep them apart (spool.ts:293-324, 622-672).
THEOREM OneProcessOwnsTheDirectory == Spec => []OneOwnerUnlessGap
BY Ownership, HeldIsOneOwner, PTL

-----------------------------------------------------------------------------
(* A step is one process's; the others stay where they are *)

StepOf(p) ==
    \/ ProtocolStep(p) \/ WorkerBoot(p) \/ WorkerStep(p) \/ Die(p)
    \/ ReadLine(p) \/ Store(p) \/ DeadLetter(p) \/ Defer(p) \/ Commit(p)
    \/ Rename(p) \/ CloseOnRotate(p) \/ EndRotation(p)
    \/ ReadRecords(p) \/ AllRequeued(p) \/ RequeueThrows(p) \/ DiesInWrite(p)
    \/ TruncateDlq(p) \/ WriteDlq(p) \/ DiesInRewrite(p)
    \/ \E e \in Events : Requeue(p, e) \/ RefuseEvent(p, e)

Still == UNCHANGED <<pc, fileVars, view, replay, atRisk, shared>>

LEMMA Steps ==
  ASSUME [Next]_vars
  PROVE  Still \/ \E p \in Instances : StepOf(p)
BY DEF Next, StepOf, Still, vars, ownVars, TimePasses, Tick

\* Where a step of p may find it, and where it leaves it.
LEMMA OwnMoves ==
  ASSUME OwnTypeOK, NEW p \in Instances, OwnStep(p)
  PROVE  /\ \A q \in Instances : q # p => pc'[q] = pc[q]
         /\ Boot(p) => pc[p] = "out" /\ pc'[p] = "claim"
         /\ Beat(p) => pc[p] = "open" /\ pc'[p] \in {"open", "beat"}
         /\ Close(p) => pc[p] = "open" /\ pc'[p] \in {"close", "out"}
         /\ Rotate(p) => pc[p] = "open" /\ pc'[p] \in {"rotate", "open"}
         /\ Crash(p) => pc[p] # "out" /\ pc'[p] = "out"
         /\ Protocol(p) =>
              /\ pc[p] # "out"
              /\ pc[p] = "fill" => pc'[p] = "open"
              /\ pc'[p] \in {"open", "beat", "rewrite", "rotate"} =>
                   pc[p] \in {"fill", "open", "beat", "rewrite", "rotate"}
              /\ pc'[p] \in Using => pc[p] \in Using \cup {"fill"}
<1>1. pc \in [Instances -> Claiming \cup Using \cup {"out"}]
  BY DEF OwnTypeOK
<1>2. CASE Boot(p) \/ Beat(p) \/ Crash(p)
  BY <1>1, <1>2 DEF Boot, Beat, Crash, Goes, Close, Rotate, Release, Protocol, Create, Exists, Fill, Refuse,
                    JudgeGone, Evict, Truncate, Rewrite, UnlinkOnClose, UnlinkOnRotate, Unlink, Using
<1>3. CASE Close(p) \/ Rotate(p)
  BY <1>1, <1>3 DEF Boot, Beat, Crash, Goes, Close, Rotate, Release, Protocol, Create, Exists, Fill, Refuse,
                    JudgeGone, Evict, Truncate, Rewrite, UnlinkOnClose, UnlinkOnRotate, Unlink, Using
<1>4. CASE Protocol(p)
  BY <1>1, <1>4 DEF Boot, Beat, Crash, Goes, Close, Rotate, Release, Protocol, Create, Exists, Fill, Refuse,
                    JudgeGone, Evict, Truncate, Rewrite, UnlinkOnClose, UnlinkOnRotate, Unlink, Using
<1> QED BY <1>2, <1>3, <1>4 DEF OwnStep

\* The view of a process after each step that updates it.
LEMMA Views ==
  ASSUME TypeOK, NEW p \in Instances
  PROVE  /\ Store(p) \/ DeadLetter(p) => view'[p] = [view[p] EXCEPT !.done = TRUE]
         /\ Defer(p) => view'[p] = [view[p] EXCEPT !.got = {}, !.to = 0]
         /\ Commit(p) =>
              view'[p] = [view[p] EXCEPT !.offset = Committed(p), !.got = {}, !.to = 0, !.done = FALSE,
                            !.rotation = IF Committed(p) = view[p].size THEN "due" ELSE "none"]
         /\ Rename(p) => view'[p] = [view[p] EXCEPT !.rotation = "renamed"]
         /\ CloseOnRotate(p) => view'[p] = [view[p] EXCEPT !.rotation = "released", !.fd = "none"]
         /\ EndRotation(p) => view'[p] = [view[p] EXCEPT !.rotation = "none", !.size = 0, !.offset = 0]
         /\ \A e \in Events :
              Requeue(p, e) =>
                view'[p] = [view[p] EXCEPT !.size = view[p].size + 1,
                              !.fd = IF view[p].fd = "moved" THEN "moved" ELSE "active"]
<1>1. view \in [Instances -> View]
  BY DEF TypeOK
<1>2. /\ Store(p) \/ DeadLetter(p) => view'[p] = [view[p] EXCEPT !.done = TRUE]
      /\ Defer(p) => view'[p] = [view[p] EXCEPT !.got = {}, !.to = 0]
  BY <1>1 DEF Store, DeadLetter, Defer
<1>3. Commit(p) =>
        view'[p] = [view[p] EXCEPT !.offset = Committed(p), !.got = {}, !.to = 0, !.done = FALSE,
                      !.rotation = IF Committed(p) = view[p].size THEN "due" ELSE "none"]
  BY <1>1 DEF Commit
<1>4. /\ Rename(p) => view'[p] = [view[p] EXCEPT !.rotation = "renamed"]
      /\ CloseOnRotate(p) => view'[p] = [view[p] EXCEPT !.rotation = "released", !.fd = "none"]
      /\ EndRotation(p) => view'[p] = [view[p] EXCEPT !.rotation = "none", !.size = 0, !.offset = 0]
  BY <1>1 DEF Rename, Renamed, CloseOnRotate, EndRotation
<1>5. \A e \in Events :
        Requeue(p, e) =>
          view'[p] = [view[p] EXCEPT !.size = view[p].size + 1,
                        !.fd = IF view[p].fd = "moved" THEN "moved" ELSE "active"]
  BY <1>1 DEF Requeue
<1> QED BY <1>2, <1>3, <1>4, <1>5

\* Who does not move keeps its place, its pass and its replay.
LEMMA Aloof ==
  ASSUME TypeOK, NEW p \in Instances, StepOf(p), NEW q \in Instances, q # p
  PROVE  /\ pc'[q] = pc[q]
         /\ replay'[q] = replay[q]
         /\ view'[q].got = view[q].got
         /\ view'[q].done = view[q].done
         /\ pc[p] = "open" \/ (view'[q] = view[q] /\ UNCHANGED <<data, offsetFile>>)
<1>1. view \in [Instances -> View] /\ replay \in [Instances -> Replay] /\ OwnTypeOK
  BY DEF TypeOK, Replay
<1>2. CASE \/ ProtocolStep(p) \/ WorkerBoot(p) \/ WorkerStep(p) \/ Die(p) \/ CloseOnRotate(p)
            \/ ReadRecords(p) \/ AllRequeued(p) \/ RequeueThrows(p)
  <2>1. OwnStep(p)
    BY <1>2 DEF OwnStep, ProtocolStep, WorkerBoot, WorkerStep, Die, CloseOnRotate, ReadRecords, AllRequeued,
                RequeueThrows, Leaves
  <2>2. pc'[q] = pc[q]
    BY <1>1, <2>1, OwnMoves
  <2>3. view'[q] = view[q] /\ replay'[q] = replay[q] /\ UNCHANGED <<data, offsetFile>>
    BY <1>1, <1>2 DEF ProtocolStep, WorkerBoot, WorkerStep, Die, CloseOnRotate, ReadRecords, AllRequeued,
                      RequeueThrows, Leaves, fileVars
  <2> QED BY <2>2, <2>3
<1>3. CASE DiesInWrite(p)
  <2>1. pc'[q] = pc[q]
    BY <1>1, <1>3, OwnMoves DEF DiesInWrite, OwnStep
  <2> QED BY <1>1, <1>3, <2>1 DEF DiesInWrite, Appends, Requeues
<1>4. CASE \/ ReadLine(p) \/ Store(p) \/ DeadLetter(p) \/ Defer(p) \/ Commit(p) \/ EndRotation(p)
  BY <1>1, <1>4 DEF ReadLine, Store, DeadLetter, Defer, Commit, EndRotation, Writes, Drains, ownVars
<1>5. CASE Rename(p)
  <2>1. view'[q] = IF view[q].fd = "active" THEN [view[q] EXCEPT !.fd = "moved"] ELSE view[q]
    BY <1>1, <1>5 DEF Rename, Renamed
  <2>2. view[q] \in View
    BY <1>1
  <2>3. view'[q].got = view[q].got /\ view'[q].done = view[q].done
    BY <2>1, <2>2 DEF View
  <2> QED BY <1>5, <2>3 DEF Rename, ownVars
<1>6. CASE TruncateDlq(p) \/ WriteDlq(p) \/ DiesInRewrite(p)
  BY <1>1, <1>6 DEF TruncateDlq, WriteDlq, DiesInRewrite, ownVars, fileVars
<1>7. ASSUME NEW e \in Events, Requeue(p, e) \/ RefuseEvent(p, e)
      PROVE  /\ pc'[q] = pc[q]
             /\ replay'[q] = replay[q]
             /\ view'[q] = view[q]
             /\ pc[p] = "open"
  BY <1>1, <1>7 DEF Requeue, RefuseEvent, Appends, Requeues, ownVars
<1> QED BY <1>2, <1>3, <1>4, <1>5, <1>6, <1>7 DEF StepOf

-----------------------------------------------------------------------------
(* Where a replay and a pass may be *)

InPlace(q) ==
    /\ replay[q].phase # "none" => q \notin Workers
    /\ replay[q].phase \in {"closing", "truncated"} => replay[q].todo = {}
    /\ replay[q].phase = "truncated" => pc[q] = "out"
    /\ view[q].got # {} => q \in Workers
    /\ view[q].done => view[q].got # {}

Places == \A q \in Instances : InPlace(q)

LEMMA PlacesInit == Init => Places
BY DEF Init, Places, InPlace, NoReplay, NoView

LEMMA PlacesStep ==
  ASSUME TypeOK, Places, [Next]_vars
  PROVE  Places'
<1>1. CASE Still
  BY <1>1 DEF Still, Places, InPlace
<1>2. ASSUME NEW p \in Instances, StepOf(p), NEW q \in Instances, q # p
      PROVE  InPlace(q)'
  BY <1>2, Aloof DEF Places, InPlace
<1>3. ASSUME NEW p \in Instances, StepOf(p)
      PROVE  InPlace(p)'
  <2>1. /\ view \in [Instances -> View] /\ view[p] \in View
        /\ replay \in [Instances -> Replay] /\ replay[p] \in Replay
        /\ OwnTypeOK
    BY DEF TypeOK, Replay
  <2>2. InPlace(p)
    BY DEF Places
  <2>3. /\ NoReplay.phase = "none" /\ NoReplay.todo = {}
        /\ NoView.got = {} /\ NoView.done = FALSE
        /\ Opened.got = {} /\ Opened.done = FALSE
    BY DEF NoReplay, NoView, Opened
  <2>4. CASE ProtocolStep(p)
    <3>1. pc[p] # "out"
      BY <2>1, <2>4, OwnMoves DEF ProtocolStep, OwnStep
    <3>2. replay'[p] = replay[p] \/ replay'[p] = NoReplay
      BY <2>1, <2>4 DEF ProtocolStep
    <3>3. view'[p] = view[p] \/ view'[p] = Opened
      BY <2>1, <2>4 DEF ProtocolStep
    <3> QED BY <2>2, <2>3, <3>1, <3>2, <3>3 DEF InPlace
  <2>5. CASE WorkerBoot(p) \/ WorkerStep(p)
    <3>1. p \in Workers /\ replay'[p] = replay[p]
      BY <2>5 DEF WorkerBoot, WorkerStep, Drains
    <3>2. view'[p] = view[p] \/ view'[p] = NoView
      BY <2>1, <2>5 DEF WorkerBoot, WorkerStep, Leaves
    <3> QED BY <2>2, <2>3, <3>1, <3>2 DEF InPlace
  <2>6. CASE Die(p) \/ RequeueThrows(p) \/ DiesInWrite(p)
    BY <2>1, <2>3, <2>6 DEF Die, RequeueThrows, DiesInWrite, Leaves, InPlace
  <2>7. CASE ReadLine(p)
    <3>1. p \in Workers /\ replay'[p] = replay[p] /\ pc'[p] = pc[p] /\ view[p].got = {}
      BY <2>7 DEF ReadLine, Drains, ownVars
    <3>2. view'[p].got # {} /\ view'[p].done = view[p].done
      BY <2>1, <2>7 DEF ReadLine, View
    <3> QED BY <2>2, <3>1, <3>2 DEF InPlace
  <2>8. CASE Store(p) \/ DeadLetter(p) \/ Defer(p) \/ Commit(p)
    <3>1. p \in Workers /\ replay'[p] = replay[p] /\ pc'[p] = pc[p]
      BY <2>8 DEF Store, DeadLetter, Defer, Commit, Writes, Drains, ownVars
    <3>2. view'[p].done => view'[p].got # {}
      <4>1. CASE Store(p) \/ DeadLetter(p) \/ Defer(p)
        <5>1. view[p].got # {} /\ ~view[p].done
          BY <4>1 DEF Store, DeadLetter, Defer, Writes
        <5>2. \/ view'[p] = [view[p] EXCEPT !.done = TRUE]
              \/ view'[p] = [view[p] EXCEPT !.got = {}, !.to = 0]
          BY <4>1, Views
        <5> QED BY <2>1, <5>1, <5>2 DEF View
      <4>2. CASE Commit(p)
        <5>1. view'[p] = [view[p] EXCEPT !.offset = Committed(p), !.got = {}, !.to = 0, !.done = FALSE,
                            !.rotation = IF Committed(p) = view[p].size THEN "due" ELSE "none"]
          BY <4>2, Views
        <5> QED BY <2>1, <5>1 DEF View
      <4> QED BY <2>8, <4>1, <4>2
    <3> QED BY <2>2, <3>1, <3>2 DEF InPlace
  <2>9. CASE Rename(p) \/ CloseOnRotate(p) \/ EndRotation(p)
    <3>1. replay'[p] = replay[p]
      BY <2>9 DEF Rename, CloseOnRotate, EndRotation
    <3>2. pc[p] = "open"
      BY <2>1, <2>9, OwnMoves DEF Rename, CloseOnRotate, EndRotation, OwnStep
    <3>3. view'[p].done = view[p].done /\ view'[p].got = view[p].got
      BY <2>1, <2>9 DEF Rename, Renamed, CloseOnRotate, EndRotation, View
    <3> QED BY <2>2, <3>1, <3>2, <3>3 DEF InPlace
  <2>10. CASE ReadRecords(p)
    <3>1. p \notin Workers /\ view' = view
      BY <2>10 DEF ReadRecords, Replays
    <3>2. replay'[p].phase = "opening"
      BY <2>1, <2>10 DEF ReadRecords
    <3> QED BY <2>2, <3>1, <3>2 DEF InPlace
  <2>11. CASE AllRequeued(p)
    <3>1. replay[p].phase = "opening" /\ replay[p].todo = {}
      BY <2>11 DEF AllRequeued, Requeues
    <3>2. replay'[p].phase = "closing" /\ replay'[p].todo = {}
      BY <2>1, <2>11, <3>1 DEF AllRequeued, Replay
    <3>3. view'[p] = NoView
      BY <2>1, <2>11 DEF AllRequeued, Leaves
    <3> QED BY <2>2, <2>3, <3>1, <3>2, <3>3 DEF InPlace
  <2>12. CASE TruncateDlq(p)
    <3>1. replay[p].phase = "closing" /\ pc'[p] = "out" /\ view' = view
      BY <2>12 DEF TruncateDlq, Rewrites, ownVars
    <3>2. replay'[p].phase = "truncated" /\ replay'[p].todo = replay[p].todo
      BY <2>1, <2>12 DEF TruncateDlq, Replay
    <3> QED BY <2>2, <3>1, <3>2 DEF InPlace
  <2>13. CASE WriteDlq(p) \/ DiesInRewrite(p)
    BY <2>1, <2>2, <2>3, <2>13 DEF WriteDlq, DiesInRewrite, InPlace
  <2>14. ASSUME NEW e \in Events, Requeue(p, e) \/ RefuseEvent(p, e)
         PROVE  InPlace(p)'
    <3>1. replay[p].phase = "opening"
      BY <2>14 DEF Requeue, RefuseEvent, Appends, Requeues
    <3>2. replay'[p].phase = "opening"
      BY <2>1, <2>14, <3>1 DEF Requeue, RefuseEvent, Replay
    <3>3. view'[p].done = view[p].done /\ view'[p].got = view[p].got
      <4>1. CASE Requeue(p, e)
        <5>1. view'[p] = [view[p] EXCEPT !.size = view[p].size + 1,
                            !.fd = IF view[p].fd = "moved" THEN "moved" ELSE "active"]
          BY <4>1, Views
        <5> QED BY <2>1, <5>1 DEF View
      <4>2. CASE RefuseEvent(p, e)
        BY <4>2 DEF RefuseEvent
      <4> QED BY <2>14, <4>1, <4>2
    <3> QED BY <2>2, <3>1, <3>2, <3>3 DEF InPlace
  <2> QED
    BY <1>3, <2>4, <2>5, <2>6, <2>7, <2>8, <2>9, <2>10, <2>11, <2>12, <2>13, <2>14 DEF StepOf
<1> QED
  BY Steps, <1>1, <1>2, <1>3 DEF Places

-----------------------------------------------------------------------------
(* Who uses the directory alone knows what the files hold *)

Alone == \A p, q \in Owners : p = q

Active(q) == pc[q] \in {"open", "beat", "rewrite", "rotate"}

\* What v, the view of a process, has to do with the file d and its offset o.
InSync(v, d, o) ==
    /\ v.fd # "moved"
    /\ v.rotation \in {"none", "due"} => v.size = Len(d) /\ v.offset <= v.size /\ v.offset <= o
    /\ v.rotation = "due" => v.offset = v.size
    /\ v.rotation \in {"renamed", "released"} => d = <<>>
    /\ v.got # {} =>
         /\ v.rotation = "none"
         /\ v.to \in v.offset + 1 .. Len(d)
         /\ v.got = {d[v.to]}
         /\ \A j \in v.offset + 1 .. Len(d) : d[j] \in Events => v.to <= j

Synced == \A q \in Instances : Active(q) => InSync(view[q], data, offsetFile)

LEMMA OneOwnerIsAlone ==
  ASSUME OneOwner
  PROVE  Alone
<1> SUFFICES ASSUME NEW p \in Owners, NEW q \in Owners, p # q
             PROVE  FALSE
  BY DEF Alone
<1>1. IsFiniteSet(Owners)
  BY FS_Subset, OwnershipAssumption DEF Owners
<1>2. IsFiniteSet({p}) /\ Cardinality({p}) = 1
  BY FS_Singleton
<1>3. Cardinality({p} \cup {q}) = 2
  BY <1>2, FS_AddElement
<1>4. Cardinality({p} \cup {q}) <= Cardinality(Owners)
  BY <1>1, FS_Subset
<1>5. Cardinality(Owners) \in Nat
  BY <1>1, FS_CardinalityType
<1> QED BY <1>3, <1>4, <1>5 DEF OneOwner

LEMMA AloneStep ==
  ASSUME TypeOK, [Next]_vars, ~shared', ~shared => Alone
  PROVE  ~shared /\ Alone /\ Alone'
<1>1. shared \in BOOLEAN /\ OwnTypeOK
  BY DEF TypeOK
<1>2. CASE Still
  BY <1>2 DEF Still, Alone, Owners
<1>3. ASSUME NEW p \in Instances, ProtocolStep(p)
      PROVE  ~shared /\ Alone /\ Alone'
  <2>1. shared' = (shared \/ ~OneOwner')
    BY <1>3 DEF ProtocolStep, Sharing
  <2>2. ~shared /\ OneOwner'
    BY <2>1
  <2>3. OneOwner' => Alone'
    BY OneOwnerIsAlone, PTL
  <2> QED BY <2>2, <2>3
<1>4. ASSUME NEW p \in Instances, StepOf(p), ~ProtocolStep(p)
      PROVE  ~shared /\ Alone /\ Alone'
  <2>1. shared' = shared
    BY <1>4 DEF StepOf, WorkerBoot, WorkerStep, Die, ReadLine, Store, DeadLetter, Defer, Commit, Rename,
                CloseOnRotate, EndRotation, ReadRecords, AllRequeued, RequeueThrows, DiesInWrite,
                TruncateDlq, WriteDlq, DiesInRewrite, Requeue, RefuseEvent
  <2>2. pc'[p] \in Using => pc[p] \in Using
    <3>1. CASE Boot(p) \/ Beat(p) \/ Close(p) \/ Rotate(p) \/ Crash(p)
      BY <1>1, <3>1, OwnMoves DEF OwnStep, Using
    <3>2. CASE UNCHANGED pc
      BY <3>2
    <3>3. (Boot(p) \/ Beat(p) \/ Close(p) \/ Rotate(p) \/ Crash(p)) \/ UNCHANGED pc
      BY <1>4 DEF StepOf, WorkerBoot, WorkerStep, Die, ReadLine, Store, DeadLetter, Defer, Commit, Rename,
                  CloseOnRotate, EndRotation, ReadRecords, AllRequeued, RequeueThrows, DiesInWrite,
                  TruncateDlq, WriteDlq, DiesInRewrite, Requeue, RefuseEvent, Leaves, ownVars
    <3> QED BY <3>1, <3>2, <3>3
  <2>3. \A q \in Instances : q # p => pc'[q] = pc[q]
    BY <1>4, Aloof
  <2> QED BY <2>1, <2>2, <2>3 DEF Alone, Owners
<1> QED BY Steps, <1>2, <1>3, <1>4

\* Sizes and offsets are numbers, and a line is appended behind all others.
LEMMA AppendOf ==
  ASSUME NEW S, NEW d \in Seq(S), NEW x \in S
  PROVE  /\ Len(Append(d, x)) = Len(d) + 1
         /\ Append(d, x)[Len(d) + 1] = x
         /\ \A i \in 1 .. Len(d) : Append(d, x)[i] = d[i]
OBVIOUS

LEMMA SyncedStep ==
  ASSUME TypeOK, Places, Alone, Synced, [Next]_vars
  PROVE  Synced'
<1> SUFFICES ASSUME NEW q \in Instances, Active(q)'
             PROVE  InSync(view'[q], data', offsetFile')
  BY DEF Synced
<1> DEFINE Good == InSync(view'[q], data', offsetFile')
<1>1. CASE Still
  BY <1>1 DEF Still, Synced, Active, fileVars
<1>2. ASSUME NEW p \in Instances, StepOf(p), q # p
      PROVE  Good
  <2>1. pc'[q] = pc[q]
    BY <1>2, Aloof
  <2>2. q \in Owners
    BY <2>1 DEF Active, Owners, Using
  <2>3. pc[p] = "open" => p \in Owners
    BY DEF Owners, Using
  <2>4. view'[q] = view[q] /\ UNCHANGED <<data, offsetFile>>
    BY <1>2, <2>2, <2>3, Aloof DEF Alone
  <2> QED BY <2>1, <2>4 DEF Synced, Active
<1>3. ASSUME StepOf(q)
      PROVE  Good
  <2>1. /\ view \in [Instances -> View] /\ view[q] \in View /\ OwnTypeOK
        /\ data \in Seq(Line) /\ Len(data) \in Nat /\ offsetFile \in Nat
    BY DEF TypeOK, Line
  <2>2. /\ view[q].size \in Nat /\ view[q].offset \in Nat /\ view[q].to \in Nat
    BY <2>1 DEF View
  <2>3. Active(q) => InSync(view[q], data, offsetFile)
    BY DEF Synced
  <2>4. pc[q] = "open" => Active(q)
    BY DEF Active
  <2>5. CASE ProtocolStep(q)
    <3>1. UNCHANGED <<data, offsetFile>>
      BY <2>5 DEF ProtocolStep, fileVars
    <3>2. CASE pc[q] = "fill"
      <4>1. view'[q] = Opened
        BY <2>1, <2>5, <3>2 DEF ProtocolStep
      <4>2. /\ Opened.size = Len(data) /\ Opened.fd = "none" /\ Opened.rotation = "none" /\ Opened.got = {}
            /\ Opened.offset = IF offsetFile <= Len(data) THEN offsetFile ELSE 0
        BY DEF Opened, NoView
      <4>3. Opened.offset <= Len(data) /\ Opened.offset <= offsetFile
        BY <2>1, <4>2
      <4> QED BY <3>1, <4>1, <4>2, <4>3 DEF InSync
    <3>3. CASE pc[q] # "fill"
      <4>1. view'[q] = view[q]
        BY <2>5, <3>3 DEF ProtocolStep
      <4>2. Active(q)
        BY <2>1, <2>5, <3>3, OwnMoves DEF ProtocolStep, OwnStep, Active
      <4> QED BY <2>3, <3>1, <4>1, <4>2
    <3> QED BY <3>2, <3>3
  <2>6. CASE WorkerBoot(q) \/ ReadRecords(q) \/ Die(q) \/ AllRequeued(q) \/ RequeueThrows(q) \/ DiesInWrite(q)
    <3>1. Boot(q) \/ Crash(q) \/ Close(q)
      BY <2>6 DEF WorkerBoot, ReadRecords, Die, AllRequeued, RequeueThrows, DiesInWrite, Leaves
    <3> QED BY <2>1, <3>1, OwnMoves DEF OwnStep, Active
  <2>7. CASE WorkerStep(q)
    <3>1. UNCHANGED <<data, offsetFile>> /\ pc[q] = "open"
      BY <2>7 DEF WorkerStep, Drains, fileVars
    <3>2. Close(q) \/ view' = view
      BY <2>7 DEF WorkerStep, Leaves
    <3>3. view' = view
      BY <2>1, <3>2, OwnMoves DEF OwnStep, Active
    <3> QED BY <2>3, <2>4, <3>1, <3>3
  <2>8. CASE TruncateDlq(q) \/ WriteDlq(q) \/ DiesInRewrite(q)
    BY <2>8 DEF TruncateDlq, WriteDlq, DiesInRewrite, Rewrites, Active, ownVars
  <2>9. CASE ReadLine(q)
    <3>1. view[q].rotation = "none" /\ pc[q] = "open" /\ UNCHANGED <<data, offsetFile>>
      BY <2>9 DEF ReadLine, Drains, fileVars
    <3>2. PICK i \in Readable(q) :
            /\ \A j \in Readable(q) : i <= j
            /\ view' = [view EXCEPT ![q].got = {data[i]}, ![q].to = i]
      BY <2>9 DEF ReadLine
    <3>3. view'[q] = [view[q] EXCEPT !.got = {data[i]}, !.to = i]
      BY <2>1, <3>2
    <3>4. /\ view'[q].got = {data[i]} /\ view'[q].to = i /\ view'[q].fd = view[q].fd
          /\ view'[q].size = view[q].size /\ view'[q].offset = view[q].offset
          /\ view'[q].rotation = view[q].rotation
      BY <2>1, <3>3 DEF View
    <3>5. i \in view[q].offset + 1 .. Len(data)
      BY <3>2 DEF Readable
    <3>6. \A j \in view[q].offset + 1 .. Len(data) : data[j] \in Events => i <= j
      BY <3>2 DEF Readable
    <3> QED BY <2>3, <2>4, <3>1, <3>4, <3>5, <3>6 DEF InSync
  <2>10. CASE Store(q) \/ DeadLetter(q) \/ Defer(q)
    <3>1. pc[q] = "open" /\ UNCHANGED <<data, offsetFile>>
      BY <2>10 DEF Store, DeadLetter, Defer, Writes, Drains, fileVars
    <3>2. view'[q] = [view[q] EXCEPT !.done = TRUE] \/ view'[q] = [view[q] EXCEPT !.got = {}, !.to = 0]
      BY <2>10, Views
    <3>3. /\ view'[q].fd = view[q].fd /\ view'[q].size = view[q].size
          /\ view'[q].offset = view[q].offset /\ view'[q].rotation = view[q].rotation
          /\ view'[q].got = {} \/ (view'[q].got = view[q].got /\ view'[q].to = view[q].to)
      BY <2>1, <3>2 DEF View
    <3> QED BY <2>3, <2>4, <3>1, <3>3 DEF InSync
  <2>11. CASE Commit(q)
    <3>1. /\ pc[q] = "open" /\ view[q].rotation = "none" /\ view[q].done
          /\ offsetFile' = Committed(q) /\ data' = data
      BY <2>11 DEF Commit, Drains
    <3>2. view'[q] = [view[q] EXCEPT !.offset = Committed(q), !.got = {}, !.to = 0, !.done = FALSE,
                        !.rotation = IF Committed(q) = view[q].size THEN "due" ELSE "none"]
      BY <2>11, Views
    <3>3. /\ view'[q].fd = view[q].fd /\ view'[q].size = view[q].size
          /\ view'[q].offset = Committed(q) /\ view'[q].got = {}
          /\ view'[q].rotation = IF Committed(q) = view[q].size THEN "due" ELSE "none"
      BY <2>1, <3>2 DEF View
    <3>4. Committed(q) \in Nat /\ Committed(q) <= view[q].size
      BY <2>2 DEF Committed
    <3>5. view[q].fd # "moved" /\ view[q].size = Len(data)
      BY <2>3, <2>4, <3>1 DEF InSync
    <3> QED BY <2>1, <3>1, <3>3, <3>4, <3>5 DEF InSync
  <2>12. CASE Rename(q)
    <3>1. pc[q] = "open" /\ data' = <<>>
      BY <2>12 DEF Rename
    <3>2. view[q].rotation = "due" \/ Requeues(q)
      BY <2>12 DEF Rename
    <3>3. view'[q] = [view[q] EXCEPT !.rotation = "renamed"]
      BY <2>12, Views
    <3>4. view'[q].rotation = "renamed" /\ view'[q].fd = view[q].fd /\ view'[q].got = view[q].got
      BY <2>1, <3>3 DEF View
    <3>5. view[q].got = {}
      BY <2>3, <2>4, <3>1, <3>2 DEF InSync, Requeues, Places, InPlace
    <3> QED BY <2>3, <2>4, <3>1, <3>4, <3>5 DEF InSync
  <2>13. CASE CloseOnRotate(q)
    <3>1. view[q].rotation = "renamed" /\ UNCHANGED <<data, offsetFile>>
      BY <2>13 DEF CloseOnRotate, fileVars
    <3>2. pc[q] = "open"
      BY <2>1, <2>13, OwnMoves DEF CloseOnRotate, OwnStep
    <3>3. view'[q] = [view[q] EXCEPT !.rotation = "released", !.fd = "none"]
      BY <2>13, Views
    <3>4. view'[q].rotation = "released" /\ view'[q].fd = "none" /\ view'[q].got = view[q].got
      BY <2>1, <3>3 DEF View
    <3> QED BY <2>3, <2>4, <3>1, <3>2, <3>4 DEF InSync
  <2>14. CASE EndRotation(q)
    <3>1. pc[q] = "open" /\ view[q].rotation = "released" /\ offsetFile' = 0 /\ data' = data
      BY <2>14 DEF EndRotation
    <3>2. view'[q] = [view[q] EXCEPT !.rotation = "none", !.size = 0, !.offset = 0]
      BY <2>14, Views
    <3>3. /\ view'[q].rotation = "none" /\ view'[q].fd = view[q].fd /\ view'[q].got = view[q].got
          /\ view'[q].size = 0 /\ view'[q].offset = 0
      BY <2>1, <3>2 DEF View
    <3>4. data = <<>> /\ view[q].fd # "moved" /\ view[q].got = {}
      BY <2>3, <2>4, <3>1 DEF InSync
    <3>5. Len(data') = 0
      BY <3>1, <3>4
    <3> QED BY <3>1, <3>3, <3>4, <3>5 DEF InSync
  <2>15. ASSUME NEW e \in Events, Requeue(q, e)
         PROVE  Good
    <3>1. pc[q] = "open" /\ view[q].rotation = "none" /\ replay[q].phase = "opening" /\ offsetFile' = offsetFile
      BY <2>15 DEF Requeue, Appends, Requeues
    <3>2. view[q].fd # "moved" /\ view[q].size = Len(data) /\ view[q].offset <= view[q].size /\ view[q].offset <= offsetFile
      BY <2>3, <2>4, <3>1 DEF InSync
    <3>3. data' = Append(data, IF EndsTorn THEN Glued ELSE e)
      BY <2>15, <3>2 DEF Requeue
    <3>4. Len(data') = Len(data) + 1
      BY <2>1, <3>3, AppendOf DEF Line
    <3>5. view'[q] = [view[q] EXCEPT !.size = view[q].size + 1,
                        !.fd = IF view[q].fd = "moved" THEN "moved" ELSE "active"]
      BY <2>15, Views
    <3>6. /\ view'[q].rotation = "none" /\ view'[q].fd = "active" /\ view'[q].got = view[q].got
          /\ view'[q].size = view[q].size + 1 /\ view'[q].offset = view[q].offset
      BY <2>1, <3>1, <3>2, <3>5 DEF View
    <3>7. view[q].got = {}
      BY <3>1 DEF Places, InPlace
    <3> QED BY <2>1, <2>2, <3>1, <3>2, <3>4, <3>6, <3>7 DEF InSync
  <2>16. ASSUME NEW e \in Events, RefuseEvent(q, e)
         PROVE  Good
    BY <2>3, <2>4, <2>16 DEF RefuseEvent, Requeues, fileVars
  <2> QED
    BY <1>3, <2>5, <2>6, <2>7, <2>8, <2>9, <2>10, <2>11, <2>12, <2>13, <2>14, <2>15, <2>16 DEF StepOf
<1> QED BY Steps, <1>1, <1>2, <1>3

-----------------------------------------------------------------------------
(* An event that waits in no line is stored, at risk, or in the dead-letter file *)

Carried(f, e) == \E r \in Replays : f[r].phase = "truncated" /\ e \in f[r].kept

\* The file d or a rewrite has e, and every replay of f that is under way knows of it.
Resting(f, d, e) ==
    /\ \A r \in Instances : f[r].phase # "none" => e \in f[r].todo \cup f[r].kept
    /\ e \in d \/ Carried(f, e)

Settled(e) == e \in atRisk \/ e \in stored \/ Resting(replay, dlq, e)

\* A replay that is not in its rewrite leaves nothing behind when it ends.
LEMMA RestsWhenOneEnds ==
  ASSUME TypeOK, NEW p \in Instances, replay[p].phase # "truncated",
         replay' = [replay EXCEPT ![p] = NoReplay], dlq' = dlq, NEW e \in Events,
         Resting(replay, dlq, e)
  PROVE  Resting(replay', dlq', e)
<1>1. \A r \in Instances : replay'[r] = IF r = p THEN NoReplay ELSE replay[r]
  BY DEF TypeOK
<1>2. NoReplay.phase = "none"
  BY DEF NoReplay
<1>3. Carried(replay, e) => Carried(replay', e)
  BY <1>1 DEF Carried, Replays
<1> QED BY <1>1, <1>2, <1>3 DEF Resting

LEMMA SettledStep ==
  ASSUME TypeOK, Places, [Next]_vars, ~shared, NEW e \in Events, Settled(e),
         \A r \in Instances : ~Requeue(r, e)
  PROVE  Settled(e)'
<1> DEFINE Rests == Resting(replay, dlq, e)
           Good == e \in atRisk' \/ e \in stored' \/ Resting(replay', dlq', e)
<1> SUFFICES Good
  BY DEF Settled, Resting, Carried
<1> USE DEF Settled
<1>1. CASE Still
  BY <1>1 DEF Still, fileVars
<1>2. ASSUME NEW p \in Instances, StepOf(p)
      PROVE  Good
  <2>1. /\ replay \in [Instances -> Replay] /\ replay[p] \in Replay
        /\ NoReplay.phase = "none" /\ OwnTypeOK
    BY Parts DEF TypeOK, Replay
  <2>2. InPlace(p)
    BY DEF Places
  <2>3. CASE \/ WorkerBoot(p) \/ WorkerStep(p) \/ ReadLine(p) \/ Defer(p) \/ Commit(p)
             \/ Rename(p) \/ CloseOnRotate(p) \/ EndRotation(p)
    BY <2>3 DEF WorkerBoot, WorkerStep, ReadLine, Defer, Commit, Rename, CloseOnRotate, EndRotation, fileVars
  <2>4. CASE ProtocolStep(p)
    <3>1. UNCHANGED <<stored, dlq, atRisk>>
      BY <2>4 DEF ProtocolStep, fileVars
    <3>2. replay' = replay \/ (replay[p].phase = "opening" /\ replay' = [replay EXCEPT ![p] = NoReplay])
      BY <2>4 DEF ProtocolStep
    <3>3. CASE replay' = replay
      BY <3>1, <3>3
    <3>4. CASE replay[p].phase = "opening" /\ replay' = [replay EXCEPT ![p] = NoReplay]
      BY <3>1, <3>4, RestsWhenOneEnds
    <3> QED BY <3>2, <3>3, <3>4
  <2>5. CASE Die(p) \/ RequeueThrows(p) \/ DiesInWrite(p)
    <3>1. UNCHANGED <<stored, dlq, atRisk>> /\ replay' = [replay EXCEPT ![p] = NoReplay]
      BY <2>5 DEF Die, RequeueThrows, DiesInWrite, fileVars
    <3>2. pc[p] # "out"
      BY <2>1, <2>5, OwnMoves DEF Die, RequeueThrows, DiesInWrite, OwnStep, Leaves
    <3>3. replay[p].phase # "truncated"
      BY <2>2, <3>2 DEF InPlace
    <3> QED BY <3>1, <3>3, RestsWhenOneEnds
  <2>6. CASE Store(p)
    BY <2>6 DEF Store
  <2>7. CASE DeadLetter(p)
    <3>1. replay' = replay /\ stored' = stored /\ dlq \subseteq dlq'
      BY <2>7 DEF DeadLetter
    <3>2. e \in atRisk => e \in atRisk' \/ e \in stored
      BY <2>7 DEF DeadLetter, RiskIf, Risk
    <3>3. Rests => Resting(replay', dlq', e)
      BY <3>1 DEF Resting
    <3> QED BY <3>1, <3>2, <3>3
  <2>8. CASE ReadRecords(p)
    <3>1. /\ dlq' = dlq /\ stored' = stored
          /\ atRisk' = (atRisk \cup (InRewrite \ dlq)) \ stored
          /\ p \in Replays /\ replay[p].phase = "none"
      BY <2>8 DEF ReadRecords, Risk, fileVars
    <3>2. PICK selected \in Selections :
            replay' = [replay EXCEPT ![p] = [phase |-> "opening", todo |-> selected,
                                             kept |-> dlq \ selected]]
      BY <2>8 DEF ReadRecords
    <3>3. \A r \in Instances :
            replay'[r] = IF r = p THEN [phase |-> "opening", todo |-> selected, kept |-> dlq \ selected]
                                  ELSE replay[r]
      BY <2>1, <3>2
    <3>4. Carried(replay, e) => Carried(replay', e) /\ e \in InRewrite
      BY <3>1, <3>3 DEF Carried, InRewrite, Replays
    <3>5. CASE Rests /\ e \in dlq
      BY <3>1, <3>3, <3>5 DEF Resting
    <3>6. CASE Rests /\ e \notin dlq
      <4>1. e \in InRewrite
        BY <3>4, <3>6 DEF Resting
      <4> QED BY <3>1, <3>6, <4>1
    <3> QED BY <3>1, <3>5, <3>6
  <2>9. CASE AllRequeued(p)
    <3>1. /\ dlq' = dlq /\ stored' = stored /\ atRisk' = atRisk
          /\ replay[p].phase = "opening"
          /\ replay' = [replay EXCEPT ![p].phase = "closing"]
      BY <2>9 DEF AllRequeued, Requeues, fileVars
    <3>2. /\ \A r \in Instances : r # p => replay'[r] = replay[r]
          /\ replay'[p].todo = replay[p].todo /\ replay'[p].kept = replay[p].kept
      BY <2>1, <3>1 DEF Replay
    <3>3. Carried(replay, e) => Carried(replay', e)
      BY <3>1, <3>2 DEF Carried, Replays
    <3>4. Rests => Resting(replay', dlq', e)
      BY <3>1, <3>2, <3>3 DEF Resting
    <3> QED BY <3>1, <3>4
  <2>10. CASE TruncateDlq(p)
    <3>1. /\ stored' = stored /\ atRisk' = atRisk
          /\ replay[p].phase = "closing"
          /\ replay' = [replay EXCEPT ![p].phase = "truncated"]
      BY <2>10 DEF TruncateDlq, Rewrites
    <3>2. /\ \A r \in Instances : r # p => replay'[r] = replay[r]
          /\ replay'[p].phase = "truncated"
          /\ replay'[p].todo = replay[p].todo /\ replay'[p].kept = replay[p].kept
      BY <2>1, <3>1 DEF Replay
    <3>3. p \in Replays /\ replay[p].todo = {}
      BY <2>2, <3>1 DEF InPlace, Replays
    <3>4. Rests => Carried(replay', e)
      BY <3>1, <3>2, <3>3 DEF Resting, Carried
    <3>5. Rests => Resting(replay', dlq', e)
      BY <3>1, <3>2, <3>4 DEF Resting
    <3> QED BY <3>1, <3>5
  <2>11. CASE WriteDlq(p)
    <3>1. /\ stored' = stored /\ atRisk' = atRisk /\ replay[p].kept \subseteq dlq'
          /\ replay[p].phase = "truncated"
          /\ replay' = [replay EXCEPT ![p] = NoReplay]
      BY <2>11 DEF WriteDlq, Rewrites
    <3>2. \A r \in Instances : replay'[r] = IF r = p THEN NoReplay ELSE replay[r]
      BY <2>1, <3>1
    <3>3. replay[p].todo = {}
      BY <2>2, <3>1 DEF InPlace
    <3>4. Rests => e \in dlq'
      BY <3>1, <3>3 DEF Resting
    <3>5. Rests => Resting(replay', dlq', e)
      BY <2>1, <3>2, <3>4 DEF Resting
    <3> QED BY <3>1, <3>5
  <2>12. CASE DiesInRewrite(p)
    <3>1. /\ stored' = stored /\ dlq' = dlq
          /\ atRisk' = (atRisk \cup IF replay[p].phase = "truncated" THEN replay[p].kept ELSE {}) \ stored
          /\ replay' = [replay EXCEPT ![p] = NoReplay]
      BY <2>12 DEF DiesInRewrite, RiskIf, Risk, fileVars
    <3>2. e \in atRisk => e \in atRisk' \/ e \in stored
      BY <3>1
    <3>3. CASE replay[p].phase # "truncated"
      BY <3>1, <3>2, <3>3, RestsWhenOneEnds
    <3>4. CASE replay[p].phase = "truncated"
      <4>1. replay[p].todo = {}
        BY <2>2, <3>4 DEF InPlace
      <4>2. Rests => e \in atRisk' \/ e \in stored
        BY <3>1, <3>4, <4>1 DEF Resting
      <4> QED BY <3>1, <3>2, <4>2
    <3> QED BY <3>3, <3>4
  <2>13. ASSUME NEW d \in Events, Requeue(p, d) \/ RefuseEvent(p, d)
         PROVE  Good
    <3>1. /\ stored' = stored /\ dlq' = dlq
          /\ \E S \in SUBSET {d} : atRisk' = (atRisk \cup S) \ stored
          /\ RefuseEvent(p, d) => atRisk' = (atRisk \cup {d}) \ stored
          /\ replay[p].phase = "opening"
          /\ replay' = [replay EXCEPT ![p].todo = @ \ {d}]
      BY <2>13 DEF Requeue, RefuseEvent, RiskIf, Risk, Appends, Requeues, fileVars
    <3>2. e \in atRisk => e \in atRisk' \/ e \in stored
      BY <3>1
    <3>3. /\ \A r \in Instances : r # p => replay'[r] = replay[r]
          /\ replay'[p].todo = replay[p].todo \ {d} /\ replay'[p].kept = replay[p].kept
      BY <2>1, <3>1 DEF Replay
    <3>4. Carried(replay, e) => Carried(replay', e)
      BY <3>1, <3>3 DEF Carried, Replays
    <3>5. CASE d = e
      <4>1. RefuseEvent(p, e)
        BY <2>13, <3>5
      <4> QED BY <3>1, <3>5, <4>1
    <3>6. CASE d # e
      <4>1. Rests => Resting(replay', dlq', e)
        BY <3>1, <3>3, <3>4, <3>6 DEF Resting
      <4> QED BY <3>1, <3>2, <4>1
    <3> QED BY <3>5, <3>6
  <2> QED
    BY <1>2, <2>3, <2>4, <2>5, <2>6, <2>7, <2>8, <2>9, <2>10, <2>11, <2>12, <2>13 DEF StepOf
<1> QED BY Steps, <1>1, <1>2

-----------------------------------------------------------------------------
(* A line that waits is passed over only when its event is settled *)

Handled == \A q \in Instances : Active(q) /\ view[q].done => \A e \in view[q].got : Settled(e)
Accounted == \A e \in Events : e \in Waiting \/ Settled(e)

\* The line is still there, behind the offset.
LEMMA StillWaits ==
  ASSUME NEW i \in offsetFile + 1 .. Len(data), i \in offsetFile' + 1 .. Len(data'), data'[i] = data[i]
  PROVE  data[i] \in Waiting'
BY DEF Waiting

LEMMA WaitingStep ==
  ASSUME TypeOK, Places, Synced, Handled, [Next]_vars, ~shared,
         NEW e \in Events, e \in Waiting
  PROVE  e \in Waiting' \/ Settled(e)'
<1>1. /\ view \in [Instances -> View] /\ data \in Seq(Line) /\ Len(data) \in Nat /\ offsetFile \in Nat
  BY DEF TypeOK, Line
<1>2. PICK i \in offsetFile + 1 .. Len(data) : data[i] = e
  BY DEF Waiting
<1>3. i \in Nat /\ i \in 1 .. Len(data)
  BY <1>1, <1>2
<1>4. CASE UNCHANGED <<data, offsetFile>>
  BY <1>2, <1>4 DEF Waiting
<1>5. ASSUME NEW p \in Instances, Commit(p)
      PROVE  e \in Waiting' \/ Settled(e)'
  <2>1. data' = data /\ offsetFile' = Committed(p) /\ pc[p] = "open" /\ view[p].done /\ view[p].rotation = "none"
    BY <1>5 DEF Commit, Drains
  <2>2. /\ view[p].got # {} /\ view[p].to \in Nat /\ view[p].size \in Nat /\ view[p].offset \in Nat
    BY <1>1, <2>1 DEF Places, InPlace, View
  <2>3. Committed(p) \in Nat /\ Committed(p) <= view[p].to
    BY <2>2 DEF Committed
  <2>4. InSync(view[p], data, offsetFile)
    BY <2>1 DEF Synced, Active
  <2>5. CASE i > Committed(p)
    BY <1>2, <1>3, <2>1, <2>3, <2>5 DEF Waiting
  <2>6. CASE ~(i > Committed(p))
    <3>1. i \in view[p].offset + 1 .. Len(data) /\ i <= view[p].to
      BY <1>1, <1>2, <1>3, <2>1, <2>2, <2>3, <2>4, <2>6 DEF InSync
    <3>2. i = view[p].to
      BY <1>2, <1>3, <2>2, <2>4, <3>1 DEF InSync
    <3>3. e \in view[p].got
      BY <1>2, <2>2, <2>4, <3>2 DEF InSync
    <3>4. Settled(e)
      BY <2>1, <3>3 DEF Handled, Active
    <3>5. UNCHANGED <<replay, dlq, stored, atRisk>>
      BY <1>5 DEF Commit
    <3> QED BY <3>4, <3>5 DEF Settled, Resting, Carried
  <2> QED BY <2>5, <2>6
<1>6. ASSUME NEW p \in Instances, Rename(p)
      PROVE  FALSE
  <2>1. /\ pc[p] = "open"
        /\ view[p].rotation = "due" \/ (view[p].rotation = "none" /\ view[p].offset = view[p].size)
    BY <1>6 DEF Rename, Requeues, RotatesFirst
  <2>2. InSync(view[p], data, offsetFile) /\ view[p].size \in Nat /\ view[p].offset \in Nat
    BY <1>1, <2>1 DEF Synced, Active, View
  <2>3. Len(data) <= offsetFile
    BY <2>1, <2>2 DEF InSync
  <2> QED BY <1>1, <1>2, <2>3
<1>7. ASSUME NEW p \in Instances, EndRotation(p)
      PROVE  e \in Waiting'
  BY <1>1, <1>2, <1>3, <1>7 DEF EndRotation, Waiting
<1>8. ASSUME NEW p \in Instances, \E x \in Line : data' = Append(data, x), offsetFile' = offsetFile
      PROVE  e \in Waiting'
  <2>1. Len(data') = Len(data) + 1 /\ data'[i] = data[i]
    BY <1>1, <1>3, <1>8, AppendOf
  <2> QED BY <1>1, <1>2, <1>3, <1>8, <2>1 DEF Waiting
<1>9. ASSUME NEW p \in Instances, DiesInWrite(p) \/ \E d \in Events : Requeue(p, d)
      PROVE  e \in Waiting'
  <2>1. offsetFile' = offsetFile /\ (data' = data \/ \E x \in Line : data' = Append(data, x))
    BY <1>9 DEF DiesInWrite, Requeue, Line
  <2> QED BY <1>2, <1>8, <2>1 DEF Waiting
<1>10. ASSUME NEW p \in Instances, StepOf(p)
       PROVE  \/ UNCHANGED <<data, offsetFile>> \/ Commit(p) \/ Rename(p) \/ EndRotation(p)
              \/ DiesInWrite(p) \/ \E d \in Events : Requeue(p, d)
  BY <1>10 DEF StepOf, ProtocolStep, WorkerBoot, WorkerStep, Die, ReadLine, Store, DeadLetter, Defer,
               CloseOnRotate, ReadRecords, AllRequeued, RequeueThrows, TruncateDlq, WriteDlq,
               DiesInRewrite, RefuseEvent, fileVars
<1>11. CASE Still
  BY <1>4, <1>11 DEF Still, fileVars
<1> QED BY Steps, <1>4, <1>5, <1>6, <1>7, <1>9, <1>10, <1>11

\* What a replay puts back waits, or is at risk.
LEMMA RequeueStep ==
  ASSUME TypeOK, Synced, ~shared, NEW r \in Instances, NEW e \in Events, Requeue(r, e)
  PROVE  e \in Waiting' \/ Settled(e)'
<1>1. /\ data \in Seq(Line) /\ Len(data) \in Nat /\ offsetFile \in Nat /\ view[r] \in View
      /\ view[r].size \in Nat /\ view[r].offset \in Nat
  BY DEF TypeOK, Line, View
<1>2. pc[r] = "open" /\ view[r].rotation = "none" /\ offsetFile' = offsetFile /\ stored' = stored
  BY DEF Requeue, Appends, Requeues
<1>3. InSync(view[r], data, offsetFile)
  BY <1>2 DEF Synced, Active
<1>4. /\ data' = Append(data, IF EndsTorn THEN Glued ELSE e)
      /\ atRisk' = (atRisk \cup IF EndsTorn \/ view[r].offset # offsetFile THEN {e} ELSE {}) \ stored
  BY <1>3 DEF Requeue, InSync, RiskIf, Risk
<1>5. CASE EndsTorn \/ view[r].offset # offsetFile
  BY <1>2, <1>4, <1>5 DEF Settled
<1>6. CASE ~EndsTorn /\ view[r].offset = offsetFile
  <2>1. Len(data') = Len(data) + 1 /\ data'[Len(data) + 1] = e
    BY <1>1, <1>4, <1>6, AppendOf DEF Line
  <2>2. offsetFile' <= Len(data)
    BY <1>1, <1>2, <1>3, <1>6 DEF InSync
  <2>3. Len(data) + 1 \in offsetFile' + 1 .. Len(data')
    BY <1>1, <1>2, <2>1, <2>2
  <2> QED BY <2>1, <2>3 DEF Waiting
<1> QED BY <1>5, <1>6

LEMMA AccountedStep ==
  ASSUME TypeOK, Places, Synced, Handled, Accounted, [Next]_vars, ~shared
  PROVE  Accounted'
<1> SUFFICES ASSUME NEW e \in Events
             PROVE  (e \in Waiting \/ Settled(e))'
  BY DEF Accounted
<1>1. CASE \E r \in Instances : Requeue(r, e)
  BY <1>1, RequeueStep
<1>2. CASE \A r \in Instances : ~Requeue(r, e)
  BY <1>2, SettledStep, WaitingStep DEF Accounted
<1> QED BY <1>1, <1>2

\* What the worker took from a line is settled before the offset passes the line.
LEMMA HandledStep ==
  ASSUME TypeOK, Places, Alone, Handled, [Next]_vars, ~shared
  PROVE  Handled'
<1> SUFFICES ASSUME NEW q \in Instances, Active(q)', view'[q].done, NEW e \in view'[q].got
             PROVE  Settled(e)'
  BY DEF Handled
<1>1. /\ view \in [Instances -> View] /\ view[q] \in View /\ view[q].got \subseteq Events /\ OwnTypeOK
      /\ NoView.done = FALSE /\ Opened.done = FALSE
  BY DEF TypeOK, View, NoView, Opened
\* The pass was over already.
<1>2. ASSUME Active(q), view[q].done, view'[q].got = view[q].got
      PROVE  Settled(e)'
  <2>1. Settled(e) /\ e \in Events
    BY <1>1, <1>2 DEF Handled
  <2>2. ASSUME NEW r \in Instances, Requeue(r, e)
        PROVE  FALSE
    <3>1. pc[r] = "open" /\ replay[r].phase = "opening"
      BY <2>2 DEF Requeue, Appends, Requeues
    <3>2. r = q
      BY <1>2, <3>1 DEF Alone, Owners, Active, Using
    <3> QED BY <1>2, <3>1, <3>2 DEF Places, InPlace
  <2> QED BY <2>1, <2>2, SettledStep
<1>3. CASE Still
  BY <1>2, <1>3 DEF Still, Active
<1>4. ASSUME NEW p \in Instances, StepOf(p), p # q
      PROVE  Settled(e)'
  BY <1>2, <1>4, Aloof DEF Active
<1>5. ASSUME StepOf(q)
      PROVE  Settled(e)'
  <2>1. CASE Store(q)
    <3>1. view'[q] = [view[q] EXCEPT !.done = TRUE] /\ stored' = stored \cup view[q].got
      BY <2>1, Views DEF Store
    <3>2. view'[q].got = view[q].got
      BY <1>1, <3>1 DEF View
    <3> QED BY <3>1, <3>2 DEF Settled
  <2>2. CASE DeadLetter(q)
    <3>1. /\ view'[q] = [view[q] EXCEPT !.done = TRUE]
          /\ dlq' = dlq \cup view[q].got /\ replay' = replay /\ stored' = stored
          /\ atRisk' = (atRisk \cup IF Replaying # {} THEN view[q].got ELSE {}) \ stored
      BY <2>2, Views DEF DeadLetter, RiskIf, Risk
    <3>2. view'[q].got = view[q].got
      BY <1>1, <3>1 DEF View
    <3>3. CASE Replaying # {}
      BY <3>1, <3>2, <3>3 DEF Settled
    <3>4. CASE Replaying = {}
      <4>1. \A r \in Instances : replay[r].phase = "none"
        BY <3>4 DEF Replaying, Replays, Places, InPlace
      <4> QED BY <3>1, <3>2, <4>1 DEF Settled, Resting
    <3> QED BY <3>3, <3>4
  <2>3. CASE Commit(q) \/ Defer(q)
    <3>1. \/ view'[q] = [view[q] EXCEPT !.got = {}, !.to = 0]
          \/ view'[q] = [view[q] EXCEPT !.offset = Committed(q), !.got = {}, !.to = 0, !.done = FALSE,
                            !.rotation = IF Committed(q) = view[q].size THEN "due" ELSE "none"]
      BY <2>3, Views
    <3>2. view'[q].got = {}
      BY <1>1, <3>1 DEF View
    <3> QED BY <3>2
  <2>4. CASE ReadLine(q)
    <3>1. view[q].got = {} /\ view'[q].done = view[q].done
      BY <1>1, <2>4 DEF ReadLine, View
    <3> QED BY <3>1 DEF Places, InPlace
  <2>5. CASE ProtocolStep(q)
    <3>1. view'[q] = IF pc[q] = "fill" THEN Opened ELSE view[q]
      BY <1>1, <2>5 DEF ProtocolStep
    <3>2. Active(q)
      BY <1>1, <2>5, <3>1, OwnMoves DEF ProtocolStep, OwnStep, Active
    <3> QED BY <1>1, <1>2, <3>1, <3>2
  <2>6. CASE Rename(q) \/ CloseOnRotate(q) \/ EndRotation(q)
    <3>1. pc[q] = "open"
      BY <1>1, <2>6, OwnMoves DEF Rename, CloseOnRotate, EndRotation, OwnStep
    <3>2. \/ view'[q] = [view[q] EXCEPT !.rotation = "renamed"]
          \/ view'[q] = [view[q] EXCEPT !.rotation = "released", !.fd = "none"]
          \/ view'[q] = [view[q] EXCEPT !.rotation = "none", !.size = 0, !.offset = 0]
      BY <2>6, Views
    <3>3. view'[q].done = view[q].done /\ view'[q].got = view[q].got
      BY <1>1, <3>2 DEF View
    <3> QED BY <1>2, <3>1, <3>3 DEF Active
  <2>7. CASE \E d \in Events : Requeue(q, d) \/ RefuseEvent(q, d)
    <3>1. pc[q] = "open"
      BY <2>7 DEF Requeue, RefuseEvent, Appends, Requeues
    <3>2. \/ view'[q] = view[q]
          \/ view'[q] = [view[q] EXCEPT !.size = view[q].size + 1,
                            !.fd = IF view[q].fd = "moved" THEN "moved" ELSE "active"]
      BY <2>7, Views DEF RefuseEvent
    <3>3. view'[q].done = view[q].done /\ view'[q].got = view[q].got
      BY <1>1, <3>2 DEF View
    <3> QED BY <1>2, <3>1, <3>3 DEF Active
  <2>8. CASE \/ WorkerBoot(q) \/ ReadRecords(q) \/ Die(q) \/ AllRequeued(q) \/ RequeueThrows(q)
             \/ DiesInWrite(q)
    <3>1. Boot(q) \/ Crash(q) \/ Close(q)
      BY <2>8 DEF WorkerBoot, ReadRecords, Die, AllRequeued, RequeueThrows, DiesInWrite, Leaves
    <3> QED BY <1>1, <3>1, OwnMoves DEF OwnStep, Active
  <2>9. CASE WorkerStep(q)
    <3>1. pc[q] = "open" /\ (Close(q) \/ view' = view)
      BY <2>9 DEF WorkerStep, Drains, Leaves
    <3>2. view' = view
      BY <1>1, <3>1, OwnMoves DEF OwnStep, Active
    <3> QED BY <1>2, <3>1, <3>2 DEF Active
  <2>10. CASE TruncateDlq(q) \/ WriteDlq(q) \/ DiesInRewrite(q)
    BY <2>10 DEF TruncateDlq, WriteDlq, DiesInRewrite, Rewrites, Active, ownVars
  <2> QED
    BY <1>5, <2>1, <2>2, <2>3, <2>4, <2>5, <2>6, <2>7, <2>8, <2>9, <2>10 DEF StepOf
<1> QED BY Steps, <1>3, <1>4, <1>5

\* The inductive invariant of the files.
Kept == Places /\ (~shared => Alone /\ Synced /\ Handled /\ Accounted)

LEMMA KeptInit ==
  ASSUME Init
  PROVE  Kept
<1>1. Alone /\ Synced /\ Handled
  BY DEF Init, OwnInit, Alone, Synced, Handled, Active, Owners, Using
<1>2. ASSUME NEW e \in Events
      PROVE  e \in Waiting \/ Settled(e)
  <2>1. \A r \in Instances : replay[r].phase = "none"
    BY DEF Init, NoReplay
  <2>2. CASE e \in dlq
    BY <2>1, <2>2 DEF Settled, Resting
  <2>3. CASE e \notin dlq
    <3>1. PICK i \in DOMAIN data : data[i] = e
      BY <2>3 DEF Init
    <3>2. i \in offsetFile + 1 .. Len(data)
      <4>1. data \in Seq(Line)
        BY FileTypeInit DEF TypeOK, Line
      <4>2. DOMAIN data = 1 .. Len(data) /\ offsetFile = 0
        BY <4>1 DEF Init
      <4> QED BY <3>1, <4>2
    <3> QED BY <3>1, <3>2 DEF Waiting
  <2> QED BY <2>2, <2>3
<1> QED BY <1>1, <1>2, PlacesInit DEF Kept, Accounted

LEMMA KeptStep ==
  ASSUME TypeOK, Kept, [Next]_vars
  PROVE  Kept'
<1>1. Places'
  BY PlacesStep DEF Kept
<1>2. ASSUME ~shared'
      PROVE  (Alone /\ Synced /\ Handled /\ Accounted)'
  <2>1. ~shared /\ Alone /\ Alone'
    BY <1>2, AloneStep DEF Kept
  <2> QED BY <2>1, SyncedStep, HandledStep, AccountedStep DEF Kept
<1> QED BY <1>1, <1>2 DEF Kept

LEMMA KeptIsEnough ==
  ASSUME Kept
  PROVE  DeadLettersKept
<1> SUFFICES ASSUME ~shared, NEW e \in Events, e \notin atRisk
             PROVE  e \in Waiting \cup stored \cup dlq \cup InRewrite
  BY DEF DeadLettersKept
<1>1. e \in Waiting \/ Settled(e)
  BY DEF Kept, Accounted
<1>2. Carried(replay, e) => e \in InRewrite
  BY DEF Carried, InRewrite
<1> QED BY <1>1, <1>2 DEF Settled, Resting

\* As long as no two processes used the directory at once, every event that no step put
\* at risk by name stays in the spool, the table, the dead-letter file or a rewrite's
\* hands, for any number of workers, replays, events, deaths and sizes of the spool
\* (dead-letter-replay.ts:123, 147-174, spool.ts:417-447, 529-539, 694-703).
THEOREM NoDeadLetterIsLost == Spec => []DeadLettersKept
<1>1. Init => TypeOK /\ Kept
  BY FileTypeInit, KeptInit
<1>2. TypeOK /\ Kept /\ [Next]_vars => TypeOK' /\ Kept'
  BY FileTypeStep, KeptStep
<1>3. Kept => DeadLettersKept
  BY KeptIsEnough
<1> QED BY <1>1, <1>2, <1>3, PTL DEF Spec
=============================================================================
