---------------------------- MODULE DurableSpool ----------------------------
(***************************************************************************)
(* packages/ingest/src/spool.ts: the append-only file that holds received  *)
(* device events until the drainer has moved them into Postgres, its       *)
(* offset file, its rotation, and what a crash leaves on disk.             *)
(*                                                                         *)
(* The data file is a sequence of cells.  A cell is an event (a whole line *)
(* with its newline) or Torn (the bytes of a line whose write was cut      *)
(* short).  What follows a Torn cell up to the next newline is one line    *)
(* for the reader, and it does not parse.  Offsets and sizes count cells   *)
(* where the code counts bytes.                                            *)
(*                                                                         *)
(* The operators below change the variables of the spool; EventDrainer and *)
(* DrainSpool compose them with the passes that empty it.                  *)
(***************************************************************************)
EXTENDS Naturals, Sequences, FiniteSets

CONSTANTS
    Events,       \* the events the receivers hand over, by ingestId
    HardMax,      \* hardMaxBytes: past it append refuses the record
    RotateAt,     \* maxBytes: size from which an append rotates a drained file
    CrashPoints,  \* where the process may die: see the Crash actions
    MaxCrashes,   \* bound: deaths of the process in a behaviour
    Torn,         \* a fragment of a line
    Uncounted     \* pending before the first stats() call (null)

AllCrashPoints == {"idle", "append", "commit", "rotate", "settle"}

ASSUME SpoolAssumption ==
    /\ HardMax \in Nat /\ RotateAt \in Nat /\ MaxCrashes \in Nat
    /\ CrashPoints \subseteq AllCrashPoints
    /\ Torn \notin Events
    /\ Uncounted \notin Nat

VARIABLES
    data,        \* events.jsonl
    offsetFile,  \* events.offset (0 when missing or unreadable)
    dlq,         \* events.dlq.jsonl: the events it holds
    up,          \* the process that owns the directory runs
    size, offset, pending,  \* fields of the DurableSpool instance
    accepted,    \* history: the events append returned an id for
    crashes      \* deaths so far, for MaxCrashes

diskVars == <<data, offsetFile, dlq>>
memVars == <<up, size, offset, pending>>
spoolVars == <<data, offsetFile, dlq, up, size, offset, pending, accepted, crashes>>

SpoolTypeOK ==
    /\ data \in Seq(Events \cup {Torn})
    /\ offsetFile \in Nat
    /\ dlq \subseteq Events
    /\ up \in BOOLEAN
    /\ size \in Nat /\ offset \in Nat
    /\ pending \in Nat \cup {Uncounted}
    /\ accepted \subseteq Events
    /\ crashes \in Nat

SpoolInit ==
    /\ data = <<>> /\ offsetFile = 0 /\ dlq = {}
    /\ up = TRUE /\ size = 0 /\ offset = 0 /\ pending = Uncounted
    /\ accepted = {} /\ crashes = 0

-----------------------------------------------------------------------------
(* Reading *)

\* The lines after `from` that pushEntry can parse, by the cell they end at.
\* A line is damaged when a fragment precedes its event on the same line.
Lines(from) ==
    {i \in (from + 1)..Len(data) :
        /\ data[i] # Torn
        /\ i > from + 1 => data[i - 1] # Torn}

\* The ends of the lines that have their newline, damaged or not.
LineEnds(from) == {i \in (from + 1)..Len(data) : data[i] # Torn}

\* The first `limit` readable lines after the committed offset.
FirstLines(limit) ==
    LET lines == IF offset < size THEN Lines(offset) ELSE {}
    IN  {i \in lines : Cardinality({k \in lines : k <= i}) <= limit}

\* readBatchWithOffsets: every entry under the offset that follows it.
BatchEntries(limit) == [i \in FirstLines(limit) |-> data[i]]

\* A reader that takes the end of the file for the end of its batch.
EndsAtEof(n, limit) == n = Len(data)

\* n is the nextOffset of that read.  A full batch stops after its last entry;
\* otherwise the reader runs to the last newline of the file and consumes the
\* damaged lines on its way.
IsNextOffset(n, limit) ==
    LET chosen == FirstLines(limit)
    IN  IF Cardinality(chosen) = limit
        THEN n \in chosen /\ \A i \in chosen : i <= n
        ELSE /\ n \in {offset} \cup LineEnds(offset)
             /\ \A i \in LineEnds(offset) : i <= n

\* The events a reader starting at `from` would still hand out.
Waiting(from) == {data[i] : i \in Lines(from)}

-----------------------------------------------------------------------------
(* Writing *)

\* rotate(): the drained file is renamed away and the offset starts over.
Rotate ==
    /\ data' = <<>> /\ size' = 0 /\ offset' = 0 /\ offsetFile' = 0

RotatesFirst == size >= RotateAt /\ offset = size

writeEntry(e) ==
    /\ pending' = IF pending = Uncounted THEN Uncounted ELSE pending + 1
    /\ \/ /\ ~RotatesFirst
          /\ data' = Append(data, e)
          /\ size' = size + 1
          /\ UNCHANGED <<offset, offsetFile>>
       \/ /\ RotatesFirst
          /\ data' = <<e>> /\ size' = 1 /\ offset' = 0 /\ offsetFile' = 0

\* append(): every event gets an id of its own, so it is accepted once.  The
\* refusal past hardMaxBytes changes nothing but a counter of drops.
append(e) ==
    /\ up
    /\ e \notin accepted
    /\ size < HardMax
    /\ writeEntry(e)
    /\ accepted' = accepted \cup {e}
    /\ UNCHANGED <<dlq, up, crashes>>

\* commit(to, n): called by the drainer once the n entries before `to` are
\* resolved.
commit(to, n) ==
    \/ /\ to <= offset
       /\ UNCHANGED <<data, offsetFile, size, offset, pending>>
    \/ /\ to > offset
       /\ pending' = IF pending = Uncounted THEN Uncounted
                     ELSE IF pending > n THEN pending - n ELSE 0
       /\ \/ /\ to < size
             /\ offset' = to /\ offsetFile' = to
             /\ UNCHANGED <<data, size>>
          \/ to >= size /\ Rotate

\* A count that forgets the committed part of the file.
countWholeFile ==
    Cardinality({i \in 1..Len(data) : data[i] # Torn \/ i = Len(data)})

\* stats(): the first call counts the backlog from disk, a fragment included.
countBacklog ==
    Cardinality({i \in (offset + 1)..Len(data) : data[i] # Torn \/ i = Len(data)})

stats ==
    /\ up
    /\ pending' = IF pending = Uncounted THEN countBacklog ELSE pending
    /\ UNCHANGED <<data, offsetFile, dlq, up, size, offset, accepted, crashes>>

-----------------------------------------------------------------------------
(* Death and restart of the owner.  Only the disk survives. *)

Dies(point) ==
    /\ up
    /\ point \in CrashPoints
    /\ crashes < MaxCrashes
    /\ crashes' = crashes + 1
    /\ up' = FALSE /\ size' = 0 /\ offset' = 0 /\ pending' = Uncounted
    /\ UNCHANGED accepted

\* Between two operations, or anywhere an operation has not touched the disk.
CrashIdle ==
    Dies("idle") /\ UNCHANGED diskVars

\* Inside writeSync: part of the line is on disk and append did not return.
CrashInAppend ==
    /\ Dies("append")
    /\ size < HardMax
    /\ \/ ~RotatesFirst /\ data' = Append(data, Torn) /\ UNCHANGED offsetFile
       \/ RotatesFirst /\ data' = <<Torn>> /\ offsetFile' = 0
    /\ UNCHANGED dlq

\* A restart that trusts events.offset blindly.
TrustedOffset == offsetFile

\* The constructor: size from the file, offset from events.offset unless it
\* points past the file.
RestartOffset == IF offsetFile <= Len(data) THEN offsetFile ELSE 0

Restart ==
    /\ ~up
    /\ up' = TRUE
    /\ size' = Len(data)
    /\ offset' = RestartOffset
    /\ pending' = Uncounted
    /\ UNCHANGED <<data, offsetFile, dlq, accepted, crashes>>

\* Between the renames of commit and the rotation (the offset file already
\* says `to`), or, from the rename of rotate on, before events.offset says 0.
CrashAfterCommit(to) ==
    /\ Dies("commit")
    /\ to > offset
    /\ offsetFile' = (IF to < size THEN to ELSE size)
    /\ UNCHANGED data

CrashInRotateOf(to) ==
    /\ Dies("rotate")
    /\ to > offset /\ to >= size
    /\ offsetFile' = size
    /\ data' = <<>>

\* The same window in the rotation that writeEntry starts.
CrashInRotateOnAppend ==
    /\ Dies("rotate")
    /\ RotatesFirst /\ size > 0
    /\ data' = <<>>
    /\ UNCHANGED <<offsetFile, dlq>>
=============================================================================
