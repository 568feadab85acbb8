--------------------------- MODULE SpoolOwnership ---------------------------
(***************************************************************************)
(* owner.lock: how DurableSpool gives a spool directory to one process.    *)
(*                                                                         *)
(* The file is created exclusively and filled in a second step, refreshed  *)
(* by a heartbeat that truncates and rewrites it, judged by whoever finds  *)
(* it, and removed by its owner or by who judged the owner gone.  Every    *)
(* file operation is a step of its own, and a process may die before any.  *)
(*                                                                         *)
(* `gap' is a history: the lock stopped protecting a live owner, because a *)
(* rotation gave it away, a file was read half written, an owner in        *)
(* another container missed its heartbeats, or a file was removed or       *)
(* overwritten that had changed since it was judged.                       *)
(***************************************************************************)
EXTENDS Naturals, FiniteSets

CONSTANTS
    Instances,    \* processes that open the directory
    TableOf,      \* TableOf[p]: the process table (container) of p
    Stale,        \* foreignOwnerStaleMs, in periods of the clock
    MaxCrashes

ASSUME OwnershipAssumption ==
    /\ IsFiniteSet(Instances)
    /\ Stale \in Nat \ {0}
    /\ MaxCrashes \in Nat

VARIABLES
    pc,        \* where each process is
    tries,     \* attempt of claimDirectory
    holds,     \* lockPath # null
    beats,     \* its heartbeat timer runs
    lock,      \* the file: blank or full, whose, its age, whether that process died
    crashes,
    gap

ownVars == <<pc, tries, holds, beats, lock, crashes, gap>>

Absent == [state |-> "absent"]
LockBy(p, state) == [state |-> state, by |-> p, age |-> 0, gone |-> FALSE]
LockFile == {Absent} \cup [state : {"blank", "full"}, by : Instances, age : 0 .. Stale, gone : BOOLEAN]

Claiming == {"claim", "fill", "found", "evict"}
Using == {"open", "beat", "rewrite", "rotate", "close"}

OwnTypeOK ==
    /\ pc \in [Instances -> Claiming \cup Using \cup {"out"}]
    /\ tries \in [Instances -> 0 .. 1]
    /\ holds \in [Instances -> BOOLEAN]
    /\ beats \in [Instances -> BOOLEAN]
    /\ lock \in LockFile
    /\ crashes \in 0 .. MaxCrashes
    /\ gap \in BOOLEAN

OwnInit ==
    /\ pc = [p \in Instances |-> "out"]
    /\ tries = [p \in Instances |-> 0]
    /\ holds = [p \in Instances |-> FALSE]
    /\ beats = [p \in Instances |-> FALSE]
    /\ lock = Absent
    /\ crashes = 0
    /\ gap = FALSE

Goes(p, from, to) == pc[p] = from /\ pc' = [pc EXCEPT ![p] = to]

\* The token in the file is that of p.
IsMine(p) == lock.state = "full" /\ lock.by = p /\ ~lock.gone

\* The file is there and its process lives.
IsLive == lock.state # "absent" /\ ~lock.gone

\* The file does not show that its process lives: half written, or long not refreshed.
CannotShow == lock.state = "blank" \/ lock.age >= Stale

GapIf(condition) == gap' = (gap \/ condition)

-----------------------------------------------------------------------------
(* claimDirectory *)

Boot(p) ==
    /\ Goes(p, "out", "claim")
    /\ UNCHANGED <<tries, holds, beats, lock, crashes, gap>>

\* Flag wx: the creation is exclusive, the content comes after it.
Create(p) ==
    /\ Goes(p, "claim", "fill")
    /\ lock = Absent
    /\ lock' = LockBy(p, "blank")
    /\ UNCHANGED <<tries, holds, beats, crashes, gap>>

Exists(p) ==
    /\ Goes(p, "claim", "found")
    /\ lock # Absent
    /\ UNCHANGED <<tries, holds, beats, lock, crashes, gap>>

\* The content goes to the file that p created, which may be unlinked by now.
Content(p) == IF lock.state = "blank" /\ lock.by = p THEN LockBy(p, "full") ELSE lock

Fill(p) ==
    /\ Goes(p, "fill", "open")
    /\ lock' = Content(p)
    /\ holds' = [holds EXCEPT ![p] = TRUE]
    /\ beats' = [beats EXCEPT ![p] = TRUE]
    /\ tries' = [tries EXCEPT ![p] = 0]
    /\ UNCHANGED <<crashes, gap>>

\* The pid of the owner looked up in the table of p, wherever the owner lives.
isPidAlive(p) == TableOf[lock.by] = TableOf[p] /\ ~lock.gone

\* A pid without its start time: a process of the same table always has it.
isSomePidAlive(p) == TableOf[lock.by] = TableOf[p] \/ lock.age < Stale

\* In its own table p sees whether that very process lives; elsewhere a fresh
\* heartbeat is the only signal.
isOwnerAlive(p) ==
    IF TableOf[lock.by] = TableOf[p] THEN ~lock.gone ELSE lock.age < Stale

\* readOwner gives null for a file that is gone or half written.
Refuse(p) ==
    /\ Goes(p, "found", "out")
    /\ lock.state = "full"
    /\ isOwnerAlive(p)
    /\ tries' = [tries EXCEPT ![p] = 0]
    /\ UNCHANGED <<holds, beats, lock, crashes, gap>>

JudgeGone(p) ==
    /\ Goes(p, "found", "evict")
    /\ lock.state = "full" => ~isOwnerAlive(p)
    /\ GapIf(IsLive /\ CannotShow)
    /\ UNCHANGED <<tries, holds, beats, lock, crashes>>

\* One attempt more than the loop has.
EvictThrice(p) ==
    /\ Goes(p, "evict", IF tries[p] < 2 THEN "claim" ELSE "out")
    /\ lock' = Absent
    /\ tries' = [tries EXCEPT ![p] = @ + 1]
    /\ GapIf(IsLive)
    /\ UNCHANGED <<holds, beats, crashes>>

\* Whatever lies there now is removed; a second failure throws.
Evict(p) ==
    /\ Goes(p, "evict", IF tries[p] = 0 THEN "claim" ELSE "out")
    /\ lock' = Absent
    /\ tries' = [tries EXCEPT ![p] = 1 - @]
    /\ GapIf(IsLive /\ (isOwnerAlive(p) \/ CannotShow))
    /\ UNCHANGED <<holds, beats, crashes>>

-----------------------------------------------------------------------------
(* The heartbeat, and the end of ownership *)

Beat(p) ==
    /\ beats[p]
    /\ \/ IsMine(p) /\ Goes(p, "open", "beat") /\ UNCHANGED beats
       \/ /\ ~IsMine(p)
          /\ Goes(p, "open", "open")
          /\ beats' = [beats EXCEPT ![p] = FALSE]
    /\ UNCHANGED <<tries, holds, lock, crashes, gap>>

Truncate(p) ==
    /\ Goes(p, "beat", "rewrite")
    /\ lock' = LockBy(p, "blank")
    /\ GapIf(~IsMine(p))
    /\ UNCHANGED <<tries, holds, beats, crashes>>

Rewrite(p) ==
    /\ Goes(p, "rewrite", "open")
    /\ lock' = Content(p)
    /\ UNCHANGED <<tries, holds, beats, crashes, gap>>

\* close(), on its own or from rotate: the file is removed if it holds the token.
Release(p, as, after) ==
    /\ Goes(p, "open", IF holds[p] /\ IsMine(p) THEN as ELSE after)
    /\ beats' = [beats EXCEPT ![p] = FALSE]
    /\ holds' = [holds EXCEPT ![p] = FALSE]
    /\ UNCHANGED <<tries, lock, crashes, gap>>

Close(p) == Release(p, "close", "out")
Rotate(p) == Release(p, "rotate", "open")

Unlink(p, as, after) ==
    /\ Goes(p, as, after)
    /\ lock' = Absent
    /\ UNCHANGED <<tries, holds, beats, crashes>>

UnlinkOnClose(p) == Unlink(p, "close", "out") /\ GapIf(~IsMine(p))

\* The process goes on writing to the directory.
UnlinkOnRotate(p) == Unlink(p, "rotate", "open") /\ GapIf(TRUE)

Crash(p) ==
    /\ pc[p] # "out"
    /\ crashes < MaxCrashes
    /\ crashes' = crashes + 1
    /\ pc' = [pc EXCEPT ![p] = "out"]
    /\ holds' = [holds EXCEPT ![p] = FALSE]
    /\ beats' = [beats EXCEPT ![p] = FALSE]
    /\ tries' = [tries EXCEPT ![p] = 0]
    /\ lock' = IF IsLive /\ lock.by = p THEN [lock EXCEPT !.gone = TRUE] ELSE lock
    /\ UNCHANGED gap

\* Past Stale the age makes no difference.
Tick ==
    /\ lock.state = "full"
    /\ lock.age < Stale
    /\ lock' = [lock EXCEPT !.age = @ + 1]
    /\ UNCHANGED <<pc, tries, holds, beats, crashes, gap>>

\* The steps of claimDirectory and of a running heartbeat, rotation or close.
Protocol(p) ==
    \/ Create(p) \/ Exists(p) \/ Fill(p) \/ Refuse(p) \/ JudgeGone(p) \/ Evict(p)
    \/ Truncate(p) \/ Rewrite(p) \/ UnlinkOnClose(p) \/ UnlinkOnRotate(p)

-----------------------------------------------------------------------------
Owners == {p \in Instances : pc[p] \in Using}

\* What spool.ts:283 says: a spool directory belongs to one process.
OneOwner == Cardinality(Owners) <= 1

\* Two processes use the directory only after one of the steps `gap' records; all
\* others keep them apart: restarts, takeovers from the dead, heartbeats, closes
\* (spool.ts:293-324, 622-672).
OneOwnerUnlessGap == ~gap => OneOwner

\* A crash never blocks the next boot (spool.ts:289): left alone, a process that
\* keeps being restarted gets the directory, whatever lock file it finds there.
NextBootIsNotBlocked ==
    \A p \in Instances :
        <>[](\A q \in Instances \ {p} : pc[q] = "out") => []<>(p \in Owners)
=============================================================================
