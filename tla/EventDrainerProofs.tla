------------------------- MODULE EventDrainerProofs -------------------------
(***************************************************************************)
(* Proofs about the spool and the drainer for every value of the constants *)
(* and every step of TimerNext.  DrainSpool takes the same steps, so its   *)
(* proofs rest on these lemmas.  The theorems at the end are about the     *)
(* timer: its type invariant, and that it loses no accepted event.         *)
(***************************************************************************)
EXTENDS EventDrainer, FiniteSetTheorems, TLAPS

-----------------------------------------------------------------------------
(* Type correctness *)

\* SMT knows the empty sequence, but has to be told of it.
LEMMA EmptyFile == ASSUME NEW C PROVE <<>> \in Seq(C) /\ Len(<<>>) = 0
OBVIOUS

\* A set of cells has a finite number of members.
LEMMA CellCount ==
    ASSUME NEW a \in Nat, NEW b \in Nat, NEW S, S \subseteq a..b
    PROVE  IsFiniteSet(S) /\ Cardinality(S) \in Nat
<1>1. IsFiniteSet(a..b)
  BY FS_Interval
<1>2. IsFiniteSet(S)
  BY <1>1, FS_Subset
<1> QED BY <1>2, FS_CardinalityType

\* readBatchWithOffsets hands out events, each under an offset of the file.
LEMMA FirstLinesType ==
    ASSUME SpoolTypeOK, NEW limit
    PROVE  /\ FirstLines(limit) \subseteq (offset + 1)..Len(data)
           /\ \A i \in FirstLines(limit) : data[i] \in Events
           /\ IsFiniteSet(FirstLines(limit))
<1>1. FirstLines(limit) \subseteq (offset + 1)..Len(data)
  BY DEF FirstLines, Lines
<1>2. \A i \in FirstLines(limit) : data[i] \in Events
  BY <1>1 DEF FirstLines, Lines, SpoolTypeOK
<1>3. offset + 1 \in Nat /\ Len(data) \in Nat
  BY DEF SpoolTypeOK
<1> QED BY <1>1, <1>2, <1>3, CellCount

\* commit leaves a well-typed spool.
LEMMA CommitType ==
    ASSUME SpoolTypeOK, NEW to \in Nat, NEW n \in Nat, commit(to, n),
           UNCHANGED <<dlq, up, accepted, crashes>>
    PROVE  SpoolTypeOK'
<1>1. data' = data \/ data' = <<>>
  BY DEF commit, Rotate
<1>1a. data' \in Seq(Events \cup {Torn})
  BY <1>1, EmptyFile DEF SpoolTypeOK
<1>1b. /\ offsetFile' = offsetFile \/ offsetFile' = to \/ offsetFile' = 0
       /\ size' = size \/ size' = 0
       /\ offset' = offset \/ offset' = to \/ offset' = 0
  BY DEF commit, Rotate
<1>1c. offsetFile' \in Nat /\ size' \in Nat /\ offset' \in Nat
  BY <1>1b DEF SpoolTypeOK
<1>2. pending' \in Nat \cup {Uncounted}
  BY SpoolAssumption DEF SpoolTypeOK, commit, Rotate
<1>3. dlq' \subseteq Events /\ accepted' \subseteq Events /\ crashes' \in Nat
  BY DEF SpoolTypeOK
<1>4. up' \in BOOLEAN
  BY DEF SpoolTypeOK
<1> QED BY <1>1a, <1>1c, <1>2, <1>3, <1>4 DEF SpoolTypeOK

\* append leaves a well-typed spool.
LEMMA AppendType ==
    ASSUME SpoolTypeOK, NEW e \in Events, append(e)
    PROVE  SpoolTypeOK'
<1>1. data' = Append(data, e) \/ data' = <<e>>
  BY DEF append, writeEntry
<1>2. data' \in Seq(Events \cup {Torn})
  <2>1. <<e>> \in Seq(Events \cup {Torn})
    OBVIOUS
  <2>2. Append(data, e) \in Seq(Events \cup {Torn})
    BY DEF SpoolTypeOK
  <2> QED BY <1>1, <2>1, <2>2
<1>3. /\ offsetFile' = offsetFile \/ offsetFile' = 0
      /\ size' = size + 1 \/ size' = 1
      /\ offset' = offset \/ offset' = 0
  BY DEF append, writeEntry
<1>4. offsetFile' \in Nat /\ size' \in Nat /\ offset' \in Nat
  BY <1>3 DEF SpoolTypeOK
<1>5. pending' \in Nat \cup {Uncounted}
  BY DEF SpoolTypeOK, append, writeEntry
<1>6. dlq' \subseteq Events /\ accepted' \subseteq Events /\ crashes' \in Nat
  BY DEF SpoolTypeOK, append
<1>7. up' \in BOOLEAN
  BY DEF SpoolTypeOK, append
<1> QED BY <1>2, <1>4, <1>5, <1>6, <1>7 DEF SpoolTypeOK

\* stats leaves a well-typed spool.
LEMMA StatsType ==
    ASSUME SpoolTypeOK, stats
    PROVE  SpoolTypeOK'
<1>1. offset + 1 \in Nat /\ Len(data) \in Nat
  BY DEF SpoolTypeOK
<1>2. countBacklog \in Nat
  BY <1>1, CellCount DEF countBacklog
<1>3. pending' \in Nat \cup {Uncounted}
  BY <1>2 DEF SpoolTypeOK, stats
<1> QED BY <1>3 DEF SpoolTypeOK, stats

\* The constructor leaves a well-typed spool.
LEMMA RestartType ==
    ASSUME SpoolTypeOK, Restart
    PROVE  SpoolTypeOK'
<1>1. size' \in Nat /\ offset' \in Nat
  BY DEF SpoolTypeOK, Restart, RestartOffset
<1> QED BY <1>1 DEF SpoolTypeOK, Restart

\* A death leaves a well-typed spool when it leaves a well-typed disk.
LEMMA DiesType ==
    ASSUME SpoolTypeOK, NEW point, Dies(point),
           data' \in Seq(Events \cup {Torn}), offsetFile' \in Nat,
           dlq' \subseteq Events
    PROVE  SpoolTypeOK'
<1>1. /\ up' = FALSE /\ size' = 0 /\ offset' = 0 /\ pending' = Uncounted
      /\ accepted' = accepted /\ crashes' = crashes + 1
  BY DEF Dies
<1>2. crashes' \in Nat /\ accepted' \subseteq Events
  BY <1>1 DEF SpoolTypeOK
<1>3. up' \in BOOLEAN /\ pending' \in Nat \cup {Uncounted}
  BY <1>1
<1>4. size' \in Nat /\ offset' \in Nat
  BY <1>1
<1> QED BY <1>2, <1>3, <1>4 DEF SpoolTypeOK

\* A pass that ends holds nothing.
LEMMA EndsType ==
    ASSUME PassTypeOK, NEW p \in Passes, NEW res, Ends(p, res),
           res \in {"none", "nothing", "drained", "quarantined",
                    "failed", "partial"}
    PROVE  PassTypeOK'
<1>1. /\ pc' \in [Passes -> {"idle", "batch", "probe"}]
      /\ next' \in [Passes -> Nat]
      /\ reply' \in [Passes -> Replies \cup {NoReply}]
      /\ result' \in [Passes -> {"none", "nothing", "drained", "quarantined",
                                 "failed", "partial"}]
      /\ DOMAIN entries' = Passes /\ DOMAIN outcome' = Passes
  BY DEF PassTypeOK, Ends
<1>2. ASSUME NEW q \in Passes, q # p
      PROVE  /\ entries'[q] = entries[q] /\ outcome'[q] = outcome[q]
             /\ pc'[q] = pc[q]
  BY <1>2 DEF PassTypeOK, Ends
<1>3. DOMAIN entries'[p] = {} /\ DOMAIN outcome'[p] = {}
  BY DEF PassTypeOK, Ends
<1>4. ASSUME NEW q \in Passes
      PROVE  /\ DOMAIN entries'[q] \subseteq Nat \ {0}
             /\ IsFiniteSet(DOMAIN entries'[q])
             /\ Batch(q)' \subseteq Events
             /\ DOMAIN outcome'[q] \subseteq DOMAIN entries'[q]
             /\ pc'[q] # "probe" => DOMAIN outcome'[q] = {}
             /\ \A i \in DOMAIN outcome'[q] : outcome'[q][i] \in Replies
  <2>1. CASE q = p
    BY <2>1, <1>3, FS_EmptySet DEF Batch
  <2>2. CASE q # p
    BY <2>2, <1>2 DEF PassTypeOK, Batch
  <2> QED BY <2>1, <2>2
<1> QED BY <1>1, <1>4 DEF PassTypeOK

\* The fields of a drainer, of a pass and of the store that a step leaves alone
\* keep their types.
LEMMA UnchangedTypes ==
    /\ SpoolTypeOK /\ UNCHANGED spoolVars => SpoolTypeOK'
    /\ PassTypeOK /\ UNCHANGED passVars => PassTypeOK'
    /\ DrainerTypeOK /\ UNCHANGED drainerVars => DrainerTypeOK'
    /\ StoreTypeOK /\ UNCHANGED storeVars => StoreTypeOK'
<1>1. SpoolTypeOK /\ UNCHANGED spoolVars => SpoolTypeOK'
  BY DEF SpoolTypeOK, spoolVars
<1>2. PassTypeOK /\ UNCHANGED passVars => PassTypeOK'
  BY DEF PassTypeOK, passVars, Batch
<1>3. DrainerTypeOK /\ UNCHANGED drainerVars => DrainerTypeOK'
  BY DEF DrainerTypeOK, drainerVars
<1>4. StoreTypeOK /\ UNCHANGED storeVars => StoreTypeOK'
  BY DEF StoreTypeOK, storeVars
<1> QED BY <1>1, <1>2, <1>3, <1>4

\* A read leaves a well-typed pass.
LEMMA ReadType ==
    ASSUME SpoolTypeOK, PassTypeOK, NEW p \in Passes, NEW limit,
           NEW state \in {"batch", "probe"}, NEW n \in Nat,
           pc' = [pc EXCEPT ![p] = state],
           entries' = [entries EXCEPT ![p] = BatchEntries(limit)],
           next' = [next EXCEPT ![p] = n],
           reply' = [reply EXCEPT ![p] = NoReply],
           DOMAIN outcome[p] = {}, UNCHANGED <<outcome, result>>
    PROVE  PassTypeOK'
<1>1. /\ pc' \in [Passes -> {"idle", "batch", "probe"}]
      /\ next' \in [Passes -> Nat]
      /\ reply' \in [Passes -> Replies \cup {NoReply}]
      /\ result' \in [Passes -> {"none", "nothing", "drained", "quarantined",
                                 "failed", "partial"}]
      /\ DOMAIN entries' = Passes /\ DOMAIN outcome' = Passes
  BY DEF PassTypeOK
<1>2. ASSUME NEW q \in Passes, q # p
      PROVE  entries'[q] = entries[q] /\ pc'[q] = pc[q]
  BY <1>2 DEF PassTypeOK
<1>3. entries'[p] = [i \in FirstLines(limit) |-> data[i]]
  BY DEF PassTypeOK, BatchEntries
<1>4. /\ DOMAIN entries'[p] \subseteq Nat \ {0}
      /\ IsFiniteSet(DOMAIN entries'[p])
      /\ \A i \in DOMAIN entries'[p] : entries'[p][i] \in Events
  BY <1>3, FirstLinesType DEF SpoolTypeOK
<1>5. DOMAIN outcome'[p] = {}
  OBVIOUS
<1>6. ASSUME NEW q \in Passes
      PROVE  /\ DOMAIN entries'[q] \subseteq Nat \ {0}
             /\ IsFiniteSet(DOMAIN entries'[q])
             /\ Batch(q)' \subseteq Events
             /\ DOMAIN outcome'[q] \subseteq DOMAIN entries'[q]
             /\ pc'[q] # "probe" => DOMAIN outcome'[q] = {}
             /\ \A i \in DOMAIN outcome'[q] : outcome'[q][i] \in Replies
  <2>1. CASE q = p
    BY <2>1, <1>4, <1>5 DEF Batch
  <2>2. CASE q # p
    BY <2>2, <1>2 DEF PassTypeOK, Batch
  <2> QED BY <2>1, <2>2
<1> QED BY <1>1, <1>6 DEF PassTypeOK

\* What a pass does to the drainer, the store and itself is well typed.
LEMMA BeginPassType ==
    ASSUME DrainTypeOK, NEW p \in Passes, BeginPass(p)
    PROVE  DrainTypeOK'
<1> USE DEF DrainTypeOK
<1>1. PICK n \in 0..Len(data) : next' = [next EXCEPT ![p] = n]
  BY DEF BeginPass
<1>2. n \in Nat
  BY DEF SpoolTypeOK
<1>3. DOMAIN outcome[p] = {}
  BY DEF PassTypeOK, BeginPass
<1>4. PassTypeOK'
  BY <1>1, <1>2, <1>3, ReadType DEF BeginPass
<1>5. DrainerTypeOK'
  BY DEF DrainerTypeOK, BeginPass
<1> QED BY <1>4, <1>5, UnchangedTypes DEF BeginPass

\* A pass that finds nothing to read is well typed.
LEMMA EmptyPassType ==
    ASSUME DrainTypeOK, NEW p \in Passes, EmptyPass(p)
    PROVE  DrainTypeOK'
<1> USE DEF DrainTypeOK
<1>1. PassTypeOK'
  BY DEF PassTypeOK, EmptyPass, Batch
<1> QED BY <1>1, UnchangedTypes DEF EmptyPass

\* The store only takes events of the insert.
LEMMA WriteType ==
    ASSUME StoreTypeOK, NEW w \in SUBSET Events, NEW r, write(w, r)
    PROVE  stored \subseteq stored' /\ stored' \subseteq Events
BY DEF write, StoreTypeOK

\* Postgres answers an insert with one of the known replies.
LEMMA StoreHandlesBatchType ==
    ASSUME DrainTypeOK, NEW p \in Passes, StoreHandlesBatch(p)
    PROVE  DrainTypeOK'
<1> USE DEF DrainTypeOK
<1>1. PICK r \in Replies :
          write(Batch(p), r) /\ reply' = [reply EXCEPT ![p] = r]
  BY DEF StoreHandlesBatch
<1>2. StoreTypeOK'
  BY <1>1, WriteType DEF StoreTypeOK, PassTypeOK, StoreHandlesBatch
<1>3. PassTypeOK'
  BY <1>1 DEF PassTypeOK, StoreHandlesBatch, Batch
<1> QED BY <1>2, <1>3, UnchangedTypes DEF StoreHandlesBatch

\* Committing a stored batch leaves spool, pass and drainer well typed.
LEMMA BatchStoredType ==
    ASSUME DrainTypeOK, NEW p \in Passes, BatchStored(p)
    PROVE  DrainTypeOK'
<1> USE DEF DrainTypeOK
<1>1. next[p] \in Nat /\ Cardinality(DOMAIN entries[p]) \in Nat
  BY FS_CardinalityType DEF PassTypeOK
<1>2. SpoolTypeOK'
  BY <1>1, CommitType DEF BatchStored
<1>3. PassTypeOK'
  BY EndsType DEF BatchStored
<1>4. DrainerTypeOK'
  BY DEF DrainerTypeOK, BatchStored
<1> QED BY <1>2, <1>3, <1>4, UnchangedTypes DEF BatchStored

\* Going into backoff leaves pass and drainer well typed.
LEMMA BatchUnavailableType ==
    ASSUME DrainTypeOK, NEW p \in Passes, BatchUnavailable(p)
    PROVE  DrainTypeOK'
<1> USE DEF DrainTypeOK
<1>1. PassTypeOK'
  BY EndsType DEF BatchUnavailable
<1>2. DrainerTypeOK'
  BY DEF DrainerTypeOK, BatchUnavailable
<1> QED BY <1>1, <1>2, UnchangedTypes DEF BatchUnavailable

\* The re-read of a rejected batch is well typed.
LEMMA BatchRejectedType ==
    ASSUME DrainTypeOK, NEW p \in Passes, BatchRejected(p)
    PROVE  DrainTypeOK'
<1> USE DEF DrainTypeOK
<1> DEFINE remaining == Cardinality(DOMAIN entries[p])
<1>1. PassTypeOK'
  <2>1. CASE Ends(p, "nothing")
    BY <2>1, EndsType
  <2>2. CASE /\ pc' = [pc EXCEPT ![p] = "probe"]
             /\ entries' = [entries EXCEPT ![p] = BatchEntries(remaining)]
             /\ next' = [next EXCEPT ![p] = 0]
             /\ reply' = [reply EXCEPT ![p] = NoReply]
             /\ UNCHANGED <<outcome, result>>
    <3>1. DOMAIN outcome[p] = {}
      BY DEF PassTypeOK, BatchRejected
    <3> QED BY <2>2, <3>1, ReadType
  <2> QED BY <2>1, <2>2 DEF BatchRejected
<1>2. DrainerTypeOK'
  BY DEF DrainerTypeOK, BatchRejected
<1> QED BY <1>1, <1>2, UnchangedTypes DEF BatchRejected

\* Blaming the store leaves pass and drainer well typed.
LEMMA SharedFailureType ==
    ASSUME DrainTypeOK, NEW p \in Passes, SharedFailure(p)
    PROVE  DrainTypeOK'
<1> USE DEF DrainTypeOK
<1>1. PassTypeOK'
  BY EndsType DEF SharedFailure
<1>2. DrainerTypeOK'
  BY DEF DrainerTypeOK, SharedFailure
<1> QED BY <1>1, <1>2, UnchangedTypes DEF SharedFailure

\* The answer to the insert of one event is recorded with its type.
LEMMA ProbeType ==
    ASSUME DrainTypeOK, NEW p \in Passes, Probe(p)
    PROVE  DrainTypeOK'
<1> USE DEF DrainTypeOK
<1>1. PICK i \in Untried(p), r \in Replies :
          /\ write({entries[p][i]}, r)
          /\ outcome' = [outcome EXCEPT ![p] =
                [k \in DOMAIN outcome[p] \cup {i} |->
                    IF k = i THEN r ELSE outcome[p][k]]]
          /\ attempts' = IF r = Ok
               THEN [attempts EXCEPT ![DrainerOf[p]][entries[p][i]] = 0]
               ELSE attempts
  BY DEF Probe
<1>2. i \in DOMAIN entries[p] /\ entries[p][i] \in Events
  BY DEF Untried, PassTypeOK, Batch
<1>3. StoreTypeOK'
  BY <1>1, <1>2, WriteType DEF StoreTypeOK, Probe
<1>4. PassTypeOK'
  <2>1. /\ outcome'[p] = [k \in DOMAIN outcome[p] \cup {i} |->
                              IF k = i THEN r ELSE outcome[p][k]]
        /\ \A q \in Passes \ {p} : outcome'[q] = outcome[q]
        /\ DOMAIN outcome' = Passes
    BY <1>1 DEF PassTypeOK
  <2>2. /\ DOMAIN outcome'[p] \subseteq DOMAIN entries[p]
        /\ \A k \in DOMAIN outcome'[p] : outcome'[p][k] \in Replies
    BY <2>1, <1>2 DEF PassTypeOK
  <2>3. pc[p] = "probe"
    BY DEF Probe
  <2> QED BY <2>1, <2>2, <2>3 DEF PassTypeOK, Probe, Batch
<1>5. DrainerTypeOK'
  <2>1. attempts' \in [Drainers -> [Events -> 0..MaxAttempts]]
    BY <1>1, <1>2, DrainerAssumption DEF DrainerTypeOK
  <2> QED BY <2>1 DEF DrainerTypeOK, Probe
<1> QED BY <1>3, <1>4, <1>5, UnchangedTypes DEF Probe

\* Phase 2 quarantines events only, and its counters stay within bounds.
LEMMA SettleType ==
    ASSUME DrainTypeOK, NEW p \in Passes, Settle(p)
    PROVE  DrainTypeOK'
<1> USE DEF DrainTypeOK
<1>1. dlq' \subseteq Events
  BY DEF Settle, Dead, Settled, SpoolTypeOK, PassTypeOK, Batch
<1>2. SpoolTypeOK'
  <2>1. CASE UNCHANGED <<data, offsetFile, size, offset, pending>>
    BY <2>1, <1>1 DEF SpoolTypeOK, Settle
  <2>2. ASSUME NEW last \in Settled(p),
               commit(last, Cardinality({i \in Settled(p) : i > offset}))
        PROVE  SpoolTypeOK'
    <3> DEFINE new == {i \in Settled(p) : i > offset}
    <3>1. last \in Nat
      BY DEF Settled, PassTypeOK
    <3>2. new \in SUBSET DOMAIN entries[p]
      BY DEF Settled
    <3>3. Cardinality(new) \in Nat
      BY <3>2, FS_Subset, FS_CardinalityType DEF PassTypeOK
    <3>4. /\ data' = data \/ data' = <<>>
          /\ offsetFile' = offsetFile \/ offsetFile' = last \/ offsetFile' = 0
          /\ size' = size \/ size' = 0
          /\ offset' = offset \/ offset' = last \/ offset' = 0
      BY <2>2 DEF commit, Rotate
    <3>5. data' \in Seq(Events \cup {Torn})
      BY <3>4, EmptyFile DEF SpoolTypeOK
    <3>6. offsetFile' \in Nat /\ size' \in Nat /\ offset' \in Nat
      BY <3>1, <3>4 DEF SpoolTypeOK
    <3>7. pending' \in Nat \cup {Uncounted}
      BY <2>2, <3>3, SpoolAssumption DEF SpoolTypeOK, commit
    <3> QED BY <1>1, <3>5, <3>6, <3>7 DEF SpoolTypeOK, Settle
  <2> QED BY <2>1, <2>2 DEF Settle
<1>3. PassTypeOK'
  <2>1. ResultOf(p) \in {"none", "nothing", "drained", "quarantined",
                         "failed", "partial"}
    BY DEF ResultOf
  <2> QED BY <2>1, EndsType DEF Settle
<1>4. DrainerTypeOK'
  <2>1. DrainerOf[p] \in Drainers
    BY DrainerAssumption
  <2>2. \A e \in Events : Tries(DrainerOf[p], e) \in 0..MaxAttempts
    BY <2>1, DrainerAssumption DEF Tries, DrainerTypeOK
  <2>3. AttemptsAfter(p) \in [Events -> 0..MaxAttempts]
    BY <2>1, <2>2, DrainerAssumption DEF AttemptsAfter, DrainerTypeOK
  <2>4. backoff' \in [Drainers -> BOOLEAN]
    BY DEF Settle, DrainerTypeOK
  <2> QED BY <2>3, <2>4 DEF DrainerTypeOK, Settle
<1> QED BY <1>2, <1>3, <1>4, UnchangedTypes DEF Settle

\* Whatever step it interrupts, a death leaves a well-typed disk and no pass.
LEMMA CrashType ==
    ASSUME DrainTypeOK, Crash
    PROVE  DrainTypeOK'
<1> USE DEF DrainTypeOK
<1>1. PassTypeOK' /\ DrainerTypeOK'
  <2>1. \A p \in Passes : DOMAIN entries'[p] = {} /\ DOMAIN outcome'[p] = {}
    BY DEF Crash, LosePasses
  <2>2. PassTypeOK'
    BY <2>1, FS_EmptySet DEF Crash, LosePasses, PassTypeOK, Batch
  <2>3. DrainerTypeOK'
    BY DrainerAssumption DEF Crash, LosePasses, DrainerTypeOK
  <2> QED BY <2>2, <2>3
<1>2. StoreTypeOK'
  BY UnchangedTypes DEF Crash, LosePasses
<1>3. SpoolTypeOK'
  <2>1. CASE CrashIdle
    BY <2>1, DiesType DEF CrashIdle, diskVars, SpoolTypeOK
  <2>2. CASE CrashInAppend
    <3>1. Torn \in Events \cup {Torn}
      OBVIOUS
    <3>2. /\ <<Torn>> \in Seq(Events \cup {Torn})
          /\ Append(data, Torn) \in Seq(Events \cup {Torn})
      BY <3>1 DEF SpoolTypeOK
    <3>3. /\ data' = <<Torn>> \/ data' = Append(data, Torn)
          /\ offsetFile' = offsetFile \/ offsetFile' = 0
          /\ dlq' = dlq /\ Dies("append")
      BY <2>2 DEF CrashInAppend
    <3>4. data' \in Seq(Events \cup {Torn})
      BY <3>2, <3>3
    <3>5. offsetFile' \in Nat /\ dlq' \subseteq Events
      BY <3>3 DEF SpoolTypeOK
    <3> QED BY <3>3, <3>4, <3>5, DiesType
  <2>3. CASE CrashInRotateOnAppend
    BY <2>3, DiesType, EmptyFile DEF CrashInRotateOnAppend, SpoolTypeOK
  <2>4. ASSUME NEW p \in Passes, CrashInBatchCommit(p) PROVE SpoolTypeOK'
    <3>1. next[p] \in Nat
      BY DEF PassTypeOK
    <3>2. /\ data' = data \/ data' = <<>>
          /\ offsetFile' = next[p] \/ offsetFile' = size
          /\ dlq' = dlq
          /\ Dies("commit") \/ Dies("rotate")
      BY <2>4 DEF CrashInBatchCommit, CrashAfterCommit, CrashInRotateOf
    <3> QED BY <3>1, <3>2, DiesType, EmptyFile DEF SpoolTypeOK
  <2>5. ASSUME NEW p \in Passes, CrashInSettle(p) PROVE SpoolTypeOK'
    <3>1. PICK to \in Settled(p) \cup {0} :
              /\ \E w \in SUBSET Dead(p) :
                    dlq' = dlq \cup {entries[p][i] :
                                      i \in {k \in Dead(p) : k <= to} \cup w}
              /\ offsetFile' = IF to <= offset THEN offsetFile
                               ELSE IF to < size THEN to ELSE size
      BY <2>5 DEF CrashInSettle
    <3>2. to \in Nat
      BY DEF Settled, PassTypeOK
    <3>3. offsetFile' \in Nat
      BY <3>1, <3>2 DEF SpoolTypeOK
    <3>4. dlq' \subseteq Events
      BY <3>1 DEF Dead, Settled, SpoolTypeOK, PassTypeOK, Batch
    <3>5. data' = data /\ Dies("settle")
      BY <2>5 DEF CrashInSettle
    <3> QED BY <3>3, <3>4, <3>5, DiesType DEF SpoolTypeOK
  <2>6. ASSUME NEW p \in Passes, CrashInSettleRotate(p) PROVE SpoolTypeOK'
    <3>1. /\ data' = <<>> /\ offsetFile' = size /\ Dies("rotate")
      BY <2>6 DEF CrashInSettleRotate, CrashInRotateOf
    <3>2. dlq' \subseteq Events
      BY <2>6 DEF CrashInSettleRotate, Dead, Settled, SpoolTypeOK,
                  PassTypeOK, Batch
    <3> QED BY <3>1, <3>2, DiesType, EmptyFile DEF SpoolTypeOK
  <2> QED BY <2>1, <2>2, <2>3, <2>4, <2>5, <2>6 DEF Crash, CrashOfPass
<1> QED BY <1>1, <1>2, <1>3

\* Every step of the drainer preserves its type invariant.
LEMMA DrainTypeStep ==
    ASSUME DrainTypeOK, [TimerNext]_drainVars
    PROVE  DrainTypeOK'
<1> USE DEF DrainTypeOK
<1>1. CASE Receive
  BY <1>1, AppendType, UnchangedTypes DEF Receive
<1>2. CASE ReadStats
  BY <1>2, StatsType, UnchangedTypes DEF ReadStats
<1>3. CASE Reboot
  BY <1>3, RestartType, UnchangedTypes DEF Reboot
<1>4. CASE Crash
  BY <1>4, CrashType
<1>5. CASE StoreChanges
  BY <1>5, UnchangedTypes DEF StoreChanges, StoreTypeOK
<1>6. ASSUME NEW d \in Drainers, BackoffOver(d) PROVE DrainTypeOK'
  <2>1. DrainerTypeOK'
    BY <1>6 DEF BackoffOver, DrainerTypeOK
  <2> QED BY <1>6, <2>1, UnchangedTypes DEF BackoffOver
<1>7. ASSUME NEW p \in Passes, Tick(p) \/ PassStep(p) PROVE DrainTypeOK'
  BY <1>7, BeginPassType, EmptyPassType, StoreHandlesBatchType,
     BatchStoredType, BatchUnavailableType, BatchRejectedType, ProbeType,
     SharedFailureType, SettleType DEF Tick, PassStep
<1>8. CASE UNCHANGED drainVars
  BY <1>8, UnchangedTypes DEF drainVars
<1> QED BY <1>1, <1>2, <1>3, <1>4, <1>5, <1>6, <1>7, <1>8 DEF TimerNext

\* The initial state is well typed.
LEMMA DrainTypeInit == DrainInit => DrainTypeOK
<1> SUFFICES ASSUME DrainInit PROVE DrainTypeOK
  OBVIOUS
<1> USE DEF DrainInit
<1>1. SpoolTypeOK
  BY EmptyFile DEF SpoolInit, SpoolTypeOK
<1>2. PassTypeOK
  <2>1. \A p \in Passes : DOMAIN entries[p] = {} /\ DOMAIN outcome[p] = {}
    OBVIOUS
  <2> QED BY <2>1, FS_EmptySet DEF PassTypeOK, Batch
<1>3. DrainerTypeOK /\ StoreTypeOK
  BY DrainerAssumption DEF DrainerTypeOK, StoreTypeOK
<1> QED BY <1>1, <1>2, <1>3 DEF DrainTypeOK

-----------------------------------------------------------------------------
(* No accepted event is lost *)

\* Where the promise holds: one pass at a time, and no death in the two windows
\* that leave a fragment or a stale offset (drain_two_jobs and drain_one_crash
\* show what either costs).
SafeDeployment ==
    /\ \A p, q \in Passes : p = q
    /\ CrashPoints \cap {"append", "rotate"} = {}

\* The file holds whole lines, the process and the disk agree, and what was
\* accepted is resolved or lies after the committed offset.
DiskInv ==
    /\ data \in Seq(Events)
    /\ offsetFile <= Len(data)
    /\ up => size = Len(data) /\ offset = offsetFile
    /\ \A e \in accepted : \/ e \in Resolved
                           \/ \E i \in (offsetFile + 1)..Len(data) : data[i] = e

\* A pass that waits for the answer to its batch insert has read every line
\* from the committed offset up to its nextOffset.
BatchInv(p) ==
    /\ offset < next[p] /\ next[p] <= Len(data)
    /\ DOMAIN entries[p] = (offset + 1)..next[p]
    /\ \A i \in DOMAIN entries[p] : entries[p][i] = data[i]
    /\ reply[p] = Ok => Batch(p) \subseteq stored

\* A pass that tries its entries alone holds a gapless run of lines from the
\* committed offset, and those it saw stored are.
ProbeInv(p) ==
    /\ DOMAIN entries[p] # {}
    /\ DOMAIN entries[p] \subseteq (offset + 1)..Len(data)
    /\ \A i \in DOMAIN entries[p] :
          /\ entries[p][i] = data[i]
          /\ \A k \in (offset + 1)..i : k \in DOMAIN entries[p]
    /\ \A i \in DOMAIN outcome[p] : outcome[p][i] = Ok => entries[p][i] \in stored

\* What a pass knows while it is under way.
PassInv ==
    \A p \in Passes :
        /\ pc[p] # "idle" => up
        /\ pc[p] = "batch" => BatchInv(p)
        /\ pc[p] = "probe" => ProbeInv(p)

\* The inductive invariant of a safe deployment.
SafeInv == DrainTypeOK /\ DiskInv /\ PassInv

\* In a file of whole lines the first `limit` lines are the next `limit` cells.
LEMMA FirstLinesWhole ==
    ASSUME SpoolTypeOK, data \in Seq(Events), size = Len(data),
           NEW limit \in Nat
    PROVE  FirstLines(limit) =
               {i \in (offset + 1)..Len(data) : i - offset <= limit}
<1>1. Lines(offset) = (offset + 1)..Len(data)
  BY SpoolAssumption DEF Lines, SpoolTypeOK
<1>2. CASE offset < size
  <2>1. ASSUME NEW i \in (offset + 1)..Len(data)
        PROVE  Cardinality({k \in Lines(offset) : k <= i}) = i - offset
    <3>1. {k \in Lines(offset) : k <= i} = (offset + 1)..i
      BY <1>1 DEF SpoolTypeOK
    <3>2. Cardinality((offset + 1)..i) = i - offset
      <4>1. offset + 1 \in Int /\ i \in Int /\ ~(offset + 1 > i)
        BY DEF SpoolTypeOK
      <4>2. Cardinality((offset + 1)..i) = i - (offset + 1) + 1
        BY <4>1, FS_Interval
      <4> QED BY <4>1, <4>2 DEF SpoolTypeOK
    <3> QED BY <3>1, <3>2
  <2> QED BY <1>1, <1>2, <2>1 DEF FirstLines
<1>3. CASE ~(offset < size)
  BY <1>3 DEF FirstLines, SpoolTypeOK
<1> QED BY <1>2, <1>3

\* The nextOffset of a read that found something lies after the offset, and
\* the read holds every line up to it.
LEMMA NextOffsetWhole ==
    ASSUME SpoolTypeOK, data \in Seq(Events), size = Len(data),
           NEW limit \in Nat, NEW n \in Nat,
           FirstLines(limit) # {}, IsNextOffset(n, limit)
    PROVE  /\ offset < n /\ n <= Len(data)
           /\ FirstLines(limit) = (offset + 1)..n
<1> DEFINE chosen == FirstLines(limit)
<1>1. chosen = {i \in (offset + 1)..Len(data) : i - offset <= limit}
  BY FirstLinesWhole
<1>2. CASE Cardinality(chosen) = limit
  <2>1. n \in chosen /\ \A i \in chosen : i <= n
    BY <1>2 DEF IsNextOffset
  <2> QED BY <1>1, <2>1 DEF SpoolTypeOK
<1>3. CASE Cardinality(chosen) # limit
  <2>1. LineEnds(offset) = (offset + 1)..Len(data)
    BY SpoolAssumption DEF LineEnds, SpoolTypeOK
  <2>2. /\ n \in {offset} \cup LineEnds(offset)
        /\ \A i \in LineEnds(offset) : i <= n
    BY <1>3 DEF IsNextOffset
  <2>3. PICK i0 \in chosen : TRUE
    OBVIOUS
  <2>4. n = Len(data) /\ offset < n
    BY <1>1, <2>1, <2>2, <2>3 DEF SpoolTypeOK
  <2>5. Len(data) - offset <= limit
    <3> SUFFICES ASSUME limit < Len(data) - offset PROVE FALSE
      BY <2>4 DEF SpoolTypeOK
    <3>1. chosen = (offset + 1)..(offset + limit)
      BY <1>1 DEF SpoolTypeOK
    <3>2. Cardinality((offset + 1)..(offset + limit)) = limit
      <4>1. offset + 1 \in Int /\ offset + limit \in Int
        BY DEF SpoolTypeOK
      <4>2. Cardinality((offset + 1)..(offset + limit)) =
                IF offset + 1 > offset + limit THEN 0
                ELSE (offset + limit) - (offset + 1) + 1
        BY <4>1, FS_Interval
      <4> QED BY <4>2 DEF SpoolTypeOK
    <3> QED BY <1>3, <3>1, <3>2
  <2> QED BY <1>1, <2>4, <2>5 DEF SpoolTypeOK
<1> QED BY <1>2, <1>3

\* Committing resolved lines loses nothing, whether the file is kept or rotated.
LEMMA CommitDisk ==
    ASSUME SpoolTypeOK, DiskInv, up, NEW to \in Nat, NEW n, commit(to, n),
           offset < to, to <= Len(data),
           \A i \in (offset + 1)..to : data[i] \in Resolved',
           Resolved \subseteq Resolved', UNCHANGED <<up, accepted>>
    PROVE  DiskInv'
<1>1. size = Len(data) /\ offset = offsetFile
  BY DEF DiskInv
<1>2. CASE to < size
  <2>1. /\ offset' = to /\ offsetFile' = to
        /\ data' = data /\ size' = size
    BY <1>2, <1>1 DEF commit, SpoolTypeOK
  <2>2. ASSUME NEW e \in accepted, e \notin Resolved'
        PROVE  \E i \in (to + 1)..Len(data) : data[i] = e
    <3>1. PICK i \in (offset + 1)..Len(data) : data[i] = e
      BY <1>1, <2>2 DEF DiskInv
    <3>2. ~(i <= to)
      BY <2>2, <3>1 DEF SpoolTypeOK
    <3> QED BY <3>1, <3>2 DEF SpoolTypeOK
  <2> QED BY <1>1, <2>1, <2>2 DEF DiskInv
<1>3. CASE to >= size
  <2>1. data' = <<>> /\ size' = 0 /\ offset' = 0 /\ offsetFile' = 0
    BY <1>3, <1>1 DEF commit, Rotate, SpoolTypeOK
  <2>2. ASSUME NEW e \in accepted PROVE e \in Resolved'
    <3>1. CASE e \in Resolved
      BY <3>1
    <3>2. ASSUME NEW i \in (offset + 1)..Len(data), data[i] = e
          PROVE  e \in Resolved'
      BY <1>3, <1>1, <3>2 DEF SpoolTypeOK
    <3> QED BY <1>1, <3>1, <3>2 DEF DiskInv
  <2> QED BY <2>1, <2>2, EmptyFile DEF DiskInv
<1> QED BY <1>1, <1>2, <1>3 DEF SpoolTypeOK

\* A death that left an offset on disk loses nothing if the lines before it are
\* resolved.
LEMMA DeathDisk ==
    ASSUME SpoolTypeOK, DiskInv, up, NEW to \in Nat,
           offset <= to, to <= Len(data), offsetFile' = to, data' = data,
           \A i \in (offset + 1)..to : data[i] \in Resolved',
           Resolved \subseteq Resolved', up' = FALSE, accepted' = accepted
    PROVE  DiskInv'
<1>1. offset = offsetFile
  BY DEF DiskInv
<1>2. ASSUME NEW e \in accepted, e \notin Resolved'
      PROVE  \E i \in (to + 1)..Len(data) : data[i] = e
  <2>1. PICK i \in (offset + 1)..Len(data) : data[i] = e
    BY <1>1, <1>2 DEF DiskInv
  <2>2. ~(i <= to)
    BY <1>2, <2>1 DEF SpoolTypeOK
  <2> QED BY <2>1, <2>2 DEF SpoolTypeOK
<1> QED BY <1>2 DEF DiskInv

\* Everything a pass settles, up to any settled entry, is stored or dead.
LEMMA SettledResolved ==
    ASSUME SafeInv, NEW p \in Passes, pc[p] = "probe", Untried(p) = {},
           NEW to \in Settled(p)
    PROVE  /\ to \in Nat /\ offset < to /\ to <= Len(data)
           /\ \A i \in (offset + 1)..to :
                 /\ i \in Settled(p) /\ entries[p][i] = data[i]
                 /\ i \notin Dead(p) => data[i] \in stored
<1>1. ProbeInv(p)
  BY DEF SafeInv, PassInv
<1>2. offset \in Nat /\ Len(data) \in Nat
  BY DEF SafeInv, DrainTypeOK, SpoolTypeOK
<1>3. to \in DOMAIN entries[p] /\ \A k \in Stuck(p) : to < k
  BY DEF Settled
<1>4. to \in Nat /\ offset < to /\ to <= Len(data)
  BY <1>1, <1>2, <1>3 DEF ProbeInv
<1>5. ASSUME NEW i \in (offset + 1)..to
      PROVE  /\ i \in Settled(p) /\ entries[p][i] = data[i]
             /\ i \notin Dead(p) => data[i] \in stored
  <2>1. i \in DOMAIN entries[p] /\ entries[p][i] = data[i]
    BY <1>1, <1>3 DEF ProbeInv
  <2>2. \A k \in Stuck(p) : k \in Nat /\ i < k
    BY <1>1, <1>2, <1>3, <1>4 DEF ProbeInv, Stuck, Failures
  <2>3. i \in Settled(p)
    BY <2>1, <2>2 DEF Settled
  <2>4. i \notin Stuck(p)
    BY <1>2, <2>2
  <2>5. i \notin Dead(p) => outcome[p][i] = Ok
    BY <2>1, <2>3, <2>4 DEF Dead, Stuck, Failures
  <2>6. i \in DOMAIN outcome[p]
    BY <2>1 DEF Untried
  <2> QED BY <1>1, <2>1, <2>3, <2>5, <2>6 DEF ProbeInv
<1> QED BY <1>4, <1>5

\* What a pass knows does not depend on the jobs, the drainers, the statistics
\* or the results.
LEMMA PassFrame ==
    ASSUME PassInv,
           UNCHANGED <<data, offset, up, pc, entries, next, reply, outcome, stored>>
    PROVE  PassInv'
BY DEF PassInv, BatchInv, ProbeInv, Batch

\* What the disk promises does not depend on the passes or the jobs.
LEMMA DiskFrame ==
    ASSUME DiskInv, Resolved \subseteq Resolved',
           UNCHANGED <<data, offsetFile, up, size, offset, accepted>>
    PROVE  DiskInv'
BY DEF DiskInv

\* append adds a waiting event, and rotates only a file whose events are all
\* resolved and that no pass has read from.
LEMMA AppendSafe ==
    ASSUME SafeInv, NEW e \in Events, append(e),
           UNCHANGED <<passVars, storeVars>>
    PROVE  DiskInv' /\ PassInv'
<1> USE DEF SafeInv, DrainTypeOK
<1>1. /\ size = Len(data) /\ offset = offsetFile /\ up
      /\ offset \in Nat /\ Len(data) \in Nat
      /\ data \in Seq(Events)
  BY DEF DiskInv, append, SpoolTypeOK
<1>2. Resolved' = Resolved
  BY DEF Resolved, append, storeVars
<1>3. CASE RotatesFirst
  <2>1. data' = <<e>> /\ size' = 1 /\ offset' = 0 /\ offsetFile' = 0
    BY <1>3 DEF append, writeEntry
  <2>2. data' \in Seq(Events) /\ Len(data') = 1 /\ data'[1] = e
    BY <2>1
  <2>3. accepted \subseteq Resolved
    BY <1>1, <1>3 DEF DiskInv, RotatesFirst
  <2>4. DiskInv'
    BY <1>2, <2>1, <2>2, <2>3 DEF DiskInv, append
  <2>5. \A p \in Passes : pc[p] = "idle"
    <3> SUFFICES ASSUME NEW p \in Passes, pc[p] # "idle" PROVE FALSE
      OBVIOUS
    <3>1. pc[p] = "batch" \/ pc[p] = "probe"
      BY DEF PassTypeOK
    <3>2. offset = Len(data)
      BY <1>1, <1>3 DEF RotatesFirst
    <3>3. CASE pc[p] = "batch"
      <4>1. BatchInv(p) /\ next[p] \in Nat
        BY <3>3 DEF PassInv, PassTypeOK
      <4> QED BY <1>1, <3>2, <4>1 DEF BatchInv
    <3>4. CASE pc[p] = "probe"
      <4>1. ProbeInv(p)
        BY <3>4 DEF PassInv
      <4> QED BY <1>1, <3>2, <4>1 DEF ProbeInv
    <3> QED BY <3>1, <3>3, <3>4
  <2> QED BY <2>4, <2>5 DEF PassInv, passVars
<1>4. CASE ~RotatesFirst
  <2>1. /\ data' = Append(data, e) /\ size' = size + 1
        /\ offset' = offset /\ offsetFile' = offsetFile
    BY <1>4 DEF append, writeEntry
  <2>2. /\ data' \in Seq(Events) /\ Len(data') = Len(data) + 1
        /\ \A i \in 1..Len(data) : data'[i] = data[i]
        /\ data'[Len(data) + 1] = e
    BY <1>1, <2>1
  <2>3. DiskInv'
    <3>1. ASSUME NEW x \in accepted', x \notin Resolved'
          PROVE  \E i \in (offsetFile' + 1)..Len(data') : data'[i] = x
      <4>1. CASE x = e
        BY <1>1, <2>1, <2>2, <4>1 DEF DiskInv
      <4>2. CASE x \in accepted
        <5>1. PICK i \in (offsetFile + 1)..Len(data) : data[i] = x
          BY <1>2, <3>1, <4>2 DEF DiskInv
        <5> QED BY <1>1, <2>1, <2>2, <5>1
      <4> QED BY <3>1, <4>1, <4>2 DEF append
    <3>2. offsetFile' <= Len(data') /\ size' = Len(data') /\ offset' = offsetFile'
      BY <1>1, <2>1, <2>2 DEF DiskInv
    <3> QED BY <2>2, <3>1, <3>2 DEF DiskInv
  <2>4. PassInv'
    <3> SUFFICES ASSUME NEW p \in Passes
                 PROVE  /\ pc'[p] # "idle" => up'
                        /\ pc'[p] = "batch" => BatchInv(p)'
                        /\ pc'[p] = "probe" => ProbeInv(p)'
      BY DEF PassInv
    <3>1. pc'[p] # "idle" => up'
      BY DEF PassInv, append, passVars
    <3>2. pc[p] = "batch" => BatchInv(p)'
      <4> SUFFICES ASSUME BatchInv(p) PROVE BatchInv(p)'
        BY DEF PassInv
      <4>1. next[p] \in Nat
        BY DEF PassTypeOK
      <4>2. /\ next' = next /\ entries' = entries /\ reply' = reply
            /\ stored' = stored
        BY DEF passVars, storeVars
      <4>3. Batch(p)' = Batch(p)
        BY <4>2 DEF Batch
      <4>4. \A i \in DOMAIN entries[p] : entries[p][i] = data'[i]
        BY <1>1, <2>2, <4>1 DEF BatchInv
      <4>5. DOMAIN entries[p] = (offset + 1)..next[p]
        BY DEF BatchInv
      <4>6. offset < next[p] /\ next[p] <= Len(data')
        BY <1>1, <2>2, <4>1 DEF BatchInv
      <4>7. reply[p] = Ok => Batch(p) \subseteq stored
        BY DEF BatchInv
      <4> QED BY <2>1, <4>2, <4>3, <4>4, <4>5, <4>6, <4>7 DEF BatchInv
    <3>3. pc[p] = "probe" => ProbeInv(p)'
      <4> SUFFICES ASSUME ProbeInv(p) PROVE ProbeInv(p)'
        BY DEF PassInv
      <4> QED BY <1>1, <2>1, <2>2 DEF ProbeInv, passVars, storeVars
    <3> QED BY <3>1, <3>2, <3>3 DEF passVars
  <2> QED BY <2>3, <2>4
<1> QED BY <1>3, <1>4

\* A restart resumes from the committed offset.
LEMMA RestartSafe ==
    ASSUME SafeInv, Restart, UNCHANGED <<passVars, storeVars>>
    PROVE  DiskInv' /\ PassInv'
<1> USE DEF SafeInv
<1>1. DiskInv'
  BY DEF DiskInv, Restart, RestartOffset, Resolved, storeVars
<1>2. \A p \in Passes : pc[p] = "idle"
  BY DEF PassInv, Restart
<1> QED BY <1>1, <1>2 DEF PassInv, passVars

\* The deaths a safe deployment allows: idle, after a commit and in phase 2.
LEMMA CrashSafe ==
    ASSUME SafeDeployment, SafeInv, Crash
    PROVE  DiskInv' /\ PassInv'
<1> USE DEF SafeInv, DrainTypeOK
<1>1. PassInv'
  BY DEF Crash, LosePasses, PassInv
<1>2. \A point : Dies(point) => /\ point \notin {"append", "rotate"}
                               /\ up /\ up' = FALSE /\ accepted' = accepted
  BY DEF Dies, SafeDeployment
<1>3. stored' = stored
  BY DEF Crash, LosePasses, storeVars
<1>4. up => /\ size = Len(data) /\ offset = offsetFile /\ offset <= Len(data)
            /\ offset \in Nat /\ Len(data) \in Nat
  BY DEF DiskInv, SpoolTypeOK
<1> HIDE DEF SafeInv, DrainTypeOK
<1>5. SpoolTypeOK /\ DiskInv /\ PassInv /\ PassTypeOK
  BY DEF SafeInv, DrainTypeOK
<1>6. DiskInv'
  <2>1. CASE CrashIdle
    BY <2>1, <1>2, <1>3, <1>5 DEF CrashIdle, diskVars, DiskInv, Resolved
  <2>2. CASE CrashInAppend \/ CrashInRotateOnAppend
    BY <2>2, <1>2 DEF CrashInAppend, CrashInRotateOnAppend
  <2>3. ASSUME NEW p \in Passes, CrashInBatchCommit(p) PROVE DiskInv'
    <3>1. /\ Dies("commit") /\ dlq' = dlq /\ data' = data
          /\ offsetFile' = IF next[p] < size THEN next[p] ELSE size
          /\ pc[p] = "batch" /\ reply[p] = Ok
      BY <2>3, <1>2 DEF CrashInBatchCommit, CrashAfterCommit, CrashInRotateOf
    <3>2. /\ BatchInv(p) /\ next[p] \in Nat
          /\ up /\ up' = FALSE /\ accepted' = accepted
      BY <3>1, <1>2, <1>5 DEF PassInv, PassTypeOK
    <3>3. offsetFile' = next[p]
      BY <1>4, <3>1, <3>2 DEF BatchInv
    <3>4. \A i \in (offset + 1)..next[p] : data[i] \in Resolved'
      BY <1>3, <3>1, <3>2 DEF BatchInv, Batch, Resolved
    <3>5. Resolved \subseteq Resolved'
      BY <1>3, <3>1 DEF Resolved
    <3>6. offset <= next[p] /\ next[p] <= Len(data)
      BY <1>4, <3>2 DEF BatchInv
    <3> QED BY <1>5, <3>1, <3>2, <3>3, <3>4, <3>5, <3>6, DeathDisk
  <2>4. ASSUME NEW p \in Passes, CrashInSettle(p) PROVE DiskInv'
    <3>1. PICK to \in Settled(p) \cup {0} :
              /\ \E w \in SUBSET Dead(p) :
                    dlq' = dlq \cup {entries[p][i] :
                                      i \in {k \in Dead(p) : k <= to} \cup w}
              /\ offsetFile' = IF to <= offset THEN offsetFile
                               ELSE IF to < size THEN to ELSE size
      BY <2>4 DEF CrashInSettle
    <3>2. /\ pc[p] = "probe" /\ Untried(p) = {} /\ data' = data /\ Dies("settle")
      BY <2>4 DEF CrashInSettle
    <3>3. up /\ up' = FALSE /\ accepted' = accepted
      BY <3>2, <1>2
    <3>4. Resolved \subseteq Resolved'
      BY <1>3, <3>1 DEF Resolved
    <3>5. CASE to = 0
      <4>1. offsetFile' = offset
        BY <1>4, <3>1, <3>3, <3>5
      <4>2. \A i \in (offset + 1)..offset : data[i] \in Resolved'
        BY <1>4, <3>3
      <4>3. offset \in Nat /\ offset <= offset /\ offset <= Len(data)
        BY <1>4, <3>3
      <4> QED BY <1>5, <3>2, <3>3, <3>4, <4>1, <4>2, <4>3, DeathDisk
    <3>6. CASE to \in Settled(p)
      <4>1. /\ to \in Nat /\ offset < to /\ to <= Len(data)
            /\ \A i \in (offset + 1)..to :
                 /\ i \in Settled(p) /\ entries[p][i] = data[i]
                 /\ i \notin Dead(p) => data[i] \in stored
        BY <3>2, <3>6, SettledResolved
      <4>2. \A i \in (offset + 1)..to : data[i] \in Resolved'
        BY <1>3, <1>4, <3>1, <3>3, <4>1 DEF Resolved
      <4>3. offsetFile' = to
        BY <1>4, <3>1, <3>3, <4>1
      <4>4. offset <= to
        BY <1>4, <3>3, <4>1
      <4> QED BY <1>5, <3>2, <3>3, <3>4, <4>1, <4>2, <4>3, <4>4, DeathDisk
    <3> QED BY <3>5, <3>6
  <2>5. ASSUME NEW p \in Passes, CrashInSettleRotate(p) PROVE DiskInv'
    BY <2>5, <1>2 DEF CrashInSettleRotate, CrashInRotateOf
  <2> QED BY <2>1, <2>2, <2>3, <2>4, <2>5 DEF Crash, CrashOfPass
<1> QED BY <1>1, <1>6

\* The steps of a pass.  There is only one, so a step of p leaves no other pass
\* to speak of.
LEMMA BeginSafe ==
    ASSUME SafeDeployment, SafeInv, NEW p \in Passes, BeginPass(p)
    PROVE  DiskInv' /\ PassInv'
<1>1. SpoolTypeOK /\ DiskInv /\ PassTypeOK
  BY DEF SafeInv, DrainTypeOK
<1>2. /\ up /\ size = Len(data) /\ data \in Seq(Events)
      /\ offset \in Nat /\ Len(data) \in Nat
  BY <1>1 DEF DiskInv, SpoolTypeOK, BeginPass
<1>3. DiskInv'
  BY <1>1, DiskFrame DEF BeginPass, spoolVars, storeVars, Resolved
<1>4. PICK n \in 0..Len(data) :
          IsNextOffset(n, BatchSize) /\ next' = [next EXCEPT ![p] = n]
  BY DEF BeginPass
<1>5. /\ offset < n /\ n <= Len(data) /\ n \in Nat
      /\ FirstLines(BatchSize) = (offset + 1)..n
  BY <1>1, <1>2, <1>4, DrainerAssumption, NextOffsetWhole DEF BeginPass
<1>6. /\ pc'[p] = "batch" /\ next'[p] = n /\ reply'[p] = NoReply
      /\ entries'[p] = [i \in FirstLines(BatchSize) |-> data[i]]
      /\ UNCHANGED <<data, offset, up, stored>>
  BY <1>1, <1>4 DEF BeginPass, PassTypeOK, BatchEntries, spoolVars, storeVars
<1>8. NoReply # Ok
  BY Zenon DEF NoReply, Ok, Code
<1>9. BatchInv(p)'
  BY <1>2, <1>5, <1>6, <1>8 DEF BatchInv
<1>10. \A q \in Passes : q = p
  BY DEF SafeDeployment
<1> QED BY <1>2, <1>3, <1>6, <1>9, <1>10 DEF PassInv

\* A batch answered Ok is stored as a whole.
LEMMA StoreHandlesBatchSafe ==
    ASSUME SafeDeployment, SafeInv, NEW p \in Passes, StoreHandlesBatch(p)
    PROVE  DiskInv' /\ PassInv'
<1>1. DiskInv /\ PassInv /\ PassTypeOK /\ StoreTypeOK
  BY DEF SafeInv, DrainTypeOK
<1>2. PICK r \in Replies :
          write(Batch(p), r) /\ reply' = [reply EXCEPT ![p] = r]
  BY DEF StoreHandlesBatch
<1>3. stored \subseteq stored'
  BY <1>1, <1>2, WriteType DEF PassTypeOK
<1>4. r = Ok => Batch(p) \subseteq stored'
  BY <1>2 DEF write, Ok, Reset, BadRow, Unlisted, Refused, NoTable, Code
<1>5. DiskInv'
  BY <1>1, <1>3, DiskFrame DEF StoreHandlesBatch, spoolVars, Resolved
<1>6. /\ UNCHANGED <<data, offset, up, pc, entries, next>>
      /\ reply'[p] = r /\ pc[p] = "batch"
  BY <1>1, <1>2 DEF StoreHandlesBatch, spoolVars, PassTypeOK
<1>7. BatchInv(p) /\ up
  BY <1>1, <1>6 DEF PassInv
<1>8. BatchInv(p)'
  BY <1>4, <1>6, <1>7 DEF BatchInv, Batch
<1>9. \A q \in Passes : q = p
  BY DEF SafeDeployment
<1> QED BY <1>5, <1>6, <1>7, <1>8, <1>9 DEF PassInv

\* The commit of a stored batch skips resolved lines only.
LEMMA BatchStoredSafe ==
    ASSUME SafeDeployment, SafeInv, NEW p \in Passes, BatchStored(p)
    PROVE  DiskInv' /\ PassInv'
<1>1. SpoolTypeOK /\ DiskInv /\ PassInv /\ PassTypeOK
  BY DEF SafeInv, DrainTypeOK
<1>2. /\ BatchInv(p) /\ up /\ next[p] \in Nat /\ reply[p] = Ok
  BY <1>1 DEF BatchStored, PassInv, PassTypeOK
<1>3. commit(next[p], Cardinality(DOMAIN entries[p]))
  BY DEF BatchStored
<1>4. UNCHANGED <<up, accepted, dlq, stored>>
  BY DEF BatchStored, storeVars
<1>5. \A i \in (offset + 1)..next[p] : data[i] \in Resolved'
  BY <1>2, <1>4 DEF BatchInv, Batch, Resolved
<1>6. Resolved \subseteq Resolved'
  BY <1>4 DEF Resolved
<1>7. offset < next[p] /\ next[p] <= Len(data)
  BY <1>2 DEF BatchInv
<1>8. DiskInv'
  BY <1>1, <1>2, <1>3, <1>4, <1>5, <1>6, <1>7, CommitDisk
<1>9. \A q \in Passes : pc'[q] = "idle"
  BY <1>1 DEF SafeDeployment, BatchStored, Ends, PassTypeOK
<1> QED BY <1>8, <1>9 DEF PassInv

\* The re-read of a rejected batch is gapless from the committed offset.
LEMMA BatchRejectedSafe ==
    ASSUME SafeDeployment, SafeInv, NEW p \in Passes, BatchRejected(p)
    PROVE  DiskInv' /\ PassInv'
<1> DEFINE remaining == Cardinality(DOMAIN entries[p])
<1>1. SpoolTypeOK /\ DiskInv /\ PassInv /\ PassTypeOK
  BY DEF SafeInv, DrainTypeOK
<1>2. DiskInv'
  BY <1>1, DiskFrame DEF BatchRejected, spoolVars, storeVars, Resolved
<1>3. \A q \in Passes : q = p
  BY DEF SafeDeployment
<1>4. CASE Ends(p, "nothing")
  BY <1>1, <1>2, <1>3, <1>4 DEF PassInv, Ends, PassTypeOK
<1>5. CASE /\ FirstLines(remaining) # {}
           /\ pc' = [pc EXCEPT ![p] = "probe"]
           /\ entries' = [entries EXCEPT ![p] = BatchEntries(remaining)]
           /\ UNCHANGED <<outcome, result>>
  <2>1. /\ up /\ size = Len(data) /\ data \in Seq(Events)
        /\ offset \in Nat /\ Len(data) \in Nat /\ remaining \in Nat
    BY <1>1, FS_CardinalityType
       DEF DiskInv, SpoolTypeOK, BatchRejected, PassInv, PassTypeOK
  <2>2. FirstLines(remaining) =
            {i \in (offset + 1)..Len(data) : i - offset <= remaining}
    BY <1>1, <2>1, FirstLinesWhole
  <2>3. /\ pc'[p] = "probe"
        /\ entries'[p] = [i \in FirstLines(remaining) |-> data[i]]
        /\ UNCHANGED <<data, offset, up, stored, outcome>>
    BY <1>1, <1>5 DEF BatchRejected, PassTypeOK, BatchEntries, spoolVars, storeVars
  <2>4. DOMAIN outcome[p] = {}
    BY <1>1 DEF BatchRejected, PassTypeOK
  <2>5. ProbeInv(p)'
    <3>1. DOMAIN entries'[p] = FirstLines(remaining)
      BY <2>3
    <3>2. DOMAIN entries'[p] # {}
      BY <1>5, <3>1
    <3>3. DOMAIN entries'[p] \subseteq (offset + 1)..Len(data)
      BY <2>2, <3>1
    <3>4. ASSUME NEW i \in DOMAIN entries'[p]
          PROVE  /\ entries'[p][i] = data[i]
                 /\ \A k \in (offset + 1)..i : k \in DOMAIN entries'[p]
      BY <2>1, <2>2, <2>3, <3>1
    <3> QED BY <2>3, <2>4, <3>2, <3>3, <3>4 DEF ProbeInv
  <2> QED BY <1>2, <1>3, <2>1, <2>3, <2>5 DEF PassInv
<1> QED BY <1>4, <1>5 DEF BatchRejected

\* An event whose insert answered Ok is stored.
LEMMA ProbeSafe ==
    ASSUME SafeDeployment, SafeInv, NEW p \in Passes, Probe(p)
    PROVE  DiskInv' /\ PassInv'
<1>1. SpoolTypeOK /\ DiskInv /\ PassInv /\ PassTypeOK /\ StoreTypeOK
  BY DEF SafeInv, DrainTypeOK
<1>2. PICK i \in Untried(p), r \in Replies :
          /\ write({entries[p][i]}, r)
          /\ outcome' = [outcome EXCEPT ![p] =
                [k \in DOMAIN outcome[p] \cup {i} |->
                    IF k = i THEN r ELSE outcome[p][k]]]
  BY DEF Probe
<1>3. i \in DOMAIN entries[p] /\ entries[p][i] \in Events
  BY <1>1 DEF Untried, PassTypeOK, Batch
<1>4. stored \subseteq stored'
  BY <1>1, <1>2, <1>3, WriteType
<1>5. r = Ok => entries[p][i] \in stored'
  BY <1>2 DEF write, Ok, Reset, BadRow, Unlisted, Refused, NoTable, Code
<1>6. DiskInv'
  BY <1>1, <1>4, DiskFrame DEF Probe, spoolVars, Resolved
<1>7. /\ UNCHANGED <<data, offset, up, pc, entries, next, reply>>
      /\ pc[p] = "probe"
      /\ outcome'[p] = [k \in DOMAIN outcome[p] \cup {i} |->
                            IF k = i THEN r ELSE outcome[p][k]]
  BY <1>1, <1>2 DEF Probe, spoolVars, PassTypeOK
<1>8. ProbeInv(p) /\ up
  BY <1>1, <1>7 DEF PassInv
<1>9. \A k \in DOMAIN outcome'[p] : outcome'[p][k] = Ok => entries[p][k] \in stored'
  BY <1>4, <1>5, <1>7, <1>8 DEF ProbeInv
<1>10. ProbeInv(p)'
  BY <1>7, <1>8, <1>9 DEF ProbeInv
<1>11. \A q \in Passes : q = p
  BY DEF SafeDeployment
<1> QED BY <1>6, <1>7, <1>8, <1>10, <1>11 DEF PassInv

\* Phase 2 commits up to the last settled entry, and everything before it is
\* stored or dead.
LEMMA SettleSafe ==
    ASSUME SafeDeployment, SafeInv, NEW p \in Passes, Settle(p)
    PROVE  DiskInv' /\ PassInv'
<1>1. SpoolTypeOK /\ DiskInv /\ PassInv /\ PassTypeOK
  BY DEF SafeInv, DrainTypeOK
<1>2. /\ dlq' = dlq \cup {entries[p][i] : i \in Dead(p)}
      /\ UNCHANGED <<up, accepted, stored>>
      /\ pc[p] = "probe" /\ Untried(p) = {}
  BY DEF Settle, storeVars
<1>3. Resolved \subseteq Resolved' /\ up
  BY <1>1, <1>2 DEF Resolved, PassInv
<1>4. \A q \in Passes : pc'[q] = "idle"
  BY <1>1 DEF SafeDeployment, Settle, Ends, PassTypeOK
<1>5. CASE UNCHANGED <<data, offsetFile, size, offset, pending>>
  BY <1>1, <1>2, <1>3, <1>4, <1>5, DiskFrame DEF PassInv
<1>6. ASSUME NEW last \in Settled(p),
             commit(last, Cardinality({i \in Settled(p) : i > offset}))
      PROVE  DiskInv'
  <2>1. /\ last \in Nat /\ offset < last /\ last <= Len(data)
        /\ \A i \in (offset + 1)..last :
              /\ i \in Settled(p) /\ entries[p][i] = data[i]
              /\ i \notin Dead(p) => data[i] \in stored
    BY <1>2, SettledResolved
  <2>2. \A i \in (offset + 1)..last : data[i] \in Resolved'
    BY <1>2, <2>1 DEF Resolved
  <2> QED BY <1>1, <1>2, <1>3, <1>6, <2>1, <2>2, CommitDisk
<1> QED BY <1>4, <1>5, <1>6 DEF Settle, PassInv

\* A pass that fails as a whole touches neither the disk nor the store.
LEMMA FailedPassSafe ==
    ASSUME SafeDeployment, SafeInv, NEW p \in Passes,
           BatchUnavailable(p) \/ SharedFailure(p)
    PROVE  DiskInv' /\ PassInv'
<1>1. DiskInv /\ PassTypeOK
  BY DEF SafeInv, DrainTypeOK
<1>2. UNCHANGED <<spoolVars, storeVars>> /\ Ends(p, "failed")
  BY DEF BatchUnavailable, SharedFailure
<1>3. DiskInv'
  BY <1>1, <1>2, DiskFrame DEF spoolVars, storeVars, Resolved
<1>4. \A q \in Passes : pc'[q] = "idle"
  BY <1>1, <1>2 DEF SafeDeployment, Ends, PassTypeOK
<1> QED BY <1>3, <1>4 DEF PassInv

\* Every step of a safe deployment preserves SafeInv.
LEMMA SafeStep ==
    ASSUME SafeDeployment, SafeInv, [TimerNext]_drainVars
    PROVE  SafeInv'
<1>1. DrainTypeOK'
  BY DrainTypeStep DEF SafeInv
<1>2. ASSUME UNCHANGED <<data, offsetFile, dlq, up, size, offset, accepted,
                         pc, entries, next, reply, outcome, stored>>
      PROVE  DiskInv' /\ PassInv'
  BY <1>2, DiskFrame, PassFrame DEF SafeInv, Resolved
<1>3. CASE Receive
  BY <1>1, <1>3, AppendSafe DEF Receive, SafeInv
<1>4. CASE ReadStats
  BY <1>1, <1>2, <1>4 DEF ReadStats, stats, passVars, storeVars, SafeInv
<1>5. CASE Reboot
  BY <1>1, <1>5, RestartSafe DEF Reboot, SafeInv
<1>6. CASE Crash
  BY <1>1, <1>6, CrashSafe DEF SafeInv
<1>7. CASE StoreChanges
  BY <1>1, <1>2, <1>7 DEF StoreChanges, spoolVars, passVars, SafeInv
<1>8. ASSUME NEW d \in Drainers, BackoffOver(d) PROVE SafeInv'
  BY <1>1, <1>2, <1>8 DEF BackoffOver, spoolVars, passVars, storeVars, SafeInv
<1>9. ASSUME NEW p \in Passes, Tick(p) \/ PassStep(p) PROVE SafeInv'
  <2>1. CASE BeginPass(p)
    BY <1>1, <2>1, BeginSafe DEF SafeInv
  <2>2. CASE EmptyPass(p)
    BY <1>1, <1>2, <2>2 DEF EmptyPass, spoolVars, storeVars, SafeInv
  <2>3. CASE PassStep(p)
    <3>1. DiskInv' /\ PassInv'
      BY <2>3, StoreHandlesBatchSafe, BatchStoredSafe, BatchRejectedSafe,
         ProbeSafe, SettleSafe, FailedPassSafe DEF PassStep
    <3> QED BY <1>1, <3>1 DEF SafeInv
  <2> QED BY <1>9, <2>1, <2>2, <2>3 DEF Tick
<1>10. CASE UNCHANGED drainVars
  BY <1>1, <1>2, <1>10 DEF drainVars, spoolVars, passVars, storeVars, SafeInv
<1> QED BY <1>3, <1>4, <1>5, <1>6, <1>7, <1>8, <1>9, <1>10 DEF TimerNext

\* The initial state satisfies SafeInv.
LEMMA SafeInit == DrainInit => SafeInv
<1> SUFFICES ASSUME DrainInit PROVE SafeInv
  OBVIOUS
<1>1. DiskInv
  BY EmptyFile DEF DrainInit, SpoolInit, DiskInv
<1>2. PassInv
  BY DEF DrainInit, PassInv
<1> QED BY <1>1, <1>2, DrainTypeInit DEF SafeInv

\* The inductive invariant implies the promise.
LEMMA SafeInvSuffices == SafeInv => NoEventLost
<1> SUFFICES ASSUME SafeInv, NEW e \in accepted, e \notin Resolved
             PROVE  e \in Waiting(ReadPosition)
  BY DEF NoEventLost
<1>1. /\ data \in Seq(Events) /\ offsetFile \in Nat /\ offsetFile <= Len(data)
      /\ up => offset = offsetFile
  BY DEF SafeInv, DiskInv, DrainTypeOK, DrainTypeOK, SpoolTypeOK
<1>2. ReadPosition = offsetFile
  BY <1>1 DEF ReadPosition, RestartOffset
<1>3. PICK i \in (offsetFile + 1)..Len(data) : data[i] = e
  BY DEF SafeInv, DiskInv
<1>4. i \in Lines(offsetFile)
  BY <1>1, <1>3, SpoolAssumption DEF Lines
<1> QED BY <1>2, <1>3, <1>4 DEF Waiting

-----------------------------------------------------------------------------
(* The timer of start() *)

\* The spool, the passes, the drainers and the store take only values the code
\* expects, with any number of overlapping ticks and any crash.
THEOREM TimerTypeCorrect == TimerSpec => []DrainTypeOK
BY DrainTypeInit, DrainTypeStep, PTL DEF TimerSpec

\* While ticks do not overlap and no death hits a write or a rotation, the
\* timer loses no accepted event: it is a row, a dead letter or still to be
\* read, whatever the store does and wherever a pass stops.
THEOREM TimerLosesNoEvent ==
    ASSUME SafeDeployment
    PROVE  TimerSpec => []NoEventLost
<1>1. DrainInit => SafeInv
  BY SafeInit
<1>2. SafeInv /\ [TimerNext]_drainVars => SafeInv'
  BY SafeStep
<1>3. SafeInv => NoEventLost
  BY SafeInvSuffices
<1> QED BY <1>1, <1>2, <1>3, PTL DEF TimerSpec

=============================================================================
