--------------------------- MODULE DrainLossProofs ---------------------------
(***************************************************************************)
(* What the crashes of the ingest path cost, for every value of the        *)
(* constants: the deaths that DrainSpoolProofs leaves out, inside a write  *)
(* and inside a rotation, lose at most one accepted event each.            *)
(*                                                                         *)
(* A death inside a write leaves a fragment at the end of the file.  The   *)
(* event appended behind it makes one line with it, which does not parse.  *)
(* So a fragment at the end of the file is a loss that a crash has already *)
(* paid for (Unpaid): the inductive invariant counts it with the losses.   *)
(***************************************************************************)
EXTENDS DrainSpoolProofs

-----------------------------------------------------------------------------
(* The invariant *)

\* Where the bound holds: one drain job at a time, and when a death may hit a
\* rotation, no other death.  A death in a rotation leaves an offset behind
\* that a second restart would trust.
CountedDeployment ==
    /\ \A p, q \in Passes : p = q
    /\ "rotate" \in CrashPoints => MaxCrashes <= 1

\* The accepted events nobody will find again.
Lost == accepted \ (Resolved \cup Waiting(ReadPosition))

\* A fragment at the end of the file will take the next event with it.
EndsTorn == Len(data) > 0 /\ data[Len(data)] = Torn
Unpaid == IF EndsTorn THEN 1 ELSE 0

CountInv == IsFiniteSet(Lost) /\ Cardinality(Lost) + Unpaid <= crashes

\* The reader starts at the beginning of a line, and as long as there may be
\* another death, where events.offset says.
PositionInv ==
    /\ up => size = Len(data) /\ offset <= Len(data)
    /\ ReadPosition > 0 => data[ReadPosition] # Torn
    /\ crashes < MaxCrashes => offsetFile = ReadPosition

\* A pass holds the readable lines from the committed offset on, without a gap.
ReadsInv(p) ==
    /\ DOMAIN entries[p] # {}
    /\ DOMAIN entries[p] \subseteq Lines(offset)
    /\ \A i \in DOMAIN entries[p] :
          /\ entries[p][i] = data[i]
          /\ \A k \in Lines(offset) : k <= i => k \in DOMAIN entries[p]

\* Its nextOffset is the end of a line, with every readable line before it read.
ReachesInv(p) ==
    /\ offset < next[p] /\ next[p] <= Len(data)
    /\ data[next[p]] # Torn
    /\ \A i \in Lines(offset) : i <= next[p] => i \in DOMAIN entries[p]
    /\ reply[p] = Ok => Batch(p) \subseteq stored

\* What it saw stored is stored.
SeenInv(p) ==
    \A i \in DOMAIN outcome[p] : outcome[p][i] = Ok => entries[p][i] \in stored

HoldsInv ==
    \A p \in Passes :
        /\ pc[p] # "idle" => up /\ ReadsInv(p)
        /\ pc[p] = "batch" => ReachesInv(p)
        /\ pc[p] = "probe" => SeenInv(p)

\* The inductive invariant of the bound on losses.
LossInv == DrainTypeOK /\ PositionInv /\ HoldsInv /\ CountInv

-----------------------------------------------------------------------------
(* Sets of offsets *)

\* A finite set of offsets has a first one.
LEMMA LeastOf ==
    ASSUME NEW S \in SUBSET Nat, IsFiniteSet(S), S # {}
    PROVE  \E m \in S : \A k \in S : m <= k
<1> DEFINE Upto(i) == {k \in S : k <= i}
           T == {Upto(i) : i \in S}
<1>0. \A x \in S : x \in Nat
  OBVIOUS
<1>1. \A i \in S : Upto(i) \subseteq S /\ IsFiniteSet(Upto(i))
  BY FS_Subset
<1>2. T \subseteq FiniteSubsetsOf(S) /\ T # {}
  BY <1>1 DEF FiniteSubsetsOf
<1>3. IsWellFoundedOn(StrictSubsetOrdering(S), FiniteSubsetsOf(S))
  BY FS_StrictSubsetOrderingWellFounded
<1>4. PICK U \in T : \A W \in T : ~(<<W, U>> \in StrictSubsetOrdering(S))
  <2> HIDE DEF T
  <2> QED BY <1>2, <1>3, WFMin
<1>5. PICK m \in S : U = Upto(m)
  OBVIOUS
<1>6. ASSUME NEW k \in S, ~(m <= k) PROVE FALSE
  <2>1. Upto(k) \in T
    OBVIOUS
  <2>2. k \in Nat /\ m \in Nat /\ k < m
    BY <1>6
  <2>3. ASSUME NEW x \in Upto(k) PROVE x \in U
    <3>1. x \in S /\ x \in Nat /\ x <= k
      BY <1>0
    <3>2. x \in Upto(m)
      BY <2>2, <3>1
    <3> QED BY <1>5, <3>2
  <2>4. m \notin Upto(k) /\ m \in U
    BY <1>5, <2>2
  <2>5. <<Upto(k), U>> \in StrictSubsetOrdering(S)
    BY <2>3, <2>4, <1>1, <1>5 DEF StrictSubsetOrdering
  <2> QED BY <1>4, <2>1, <2>5
<1> QED BY <1>6

\* And a last one.
LEMMA GreatestOf ==
    ASSUME NEW S \in SUBSET Nat, IsFiniteSet(S), S # {}
    PROVE  \E m \in S : \A k \in S : k <= m
<1> DEFINE From(i) == {k \in S : i <= k}
           T == {From(i) : i \in S}
<1>0. \A x \in S : x \in Nat
  OBVIOUS
<1>1. \A i \in S : From(i) \subseteq S /\ IsFiniteSet(From(i))
  BY FS_Subset
<1>2. T \subseteq FiniteSubsetsOf(S) /\ T # {}
  BY <1>1 DEF FiniteSubsetsOf
<1>3. IsWellFoundedOn(StrictSubsetOrdering(S), FiniteSubsetsOf(S))
  BY FS_StrictSubsetOrderingWellFounded
<1>4. PICK U \in T : \A W \in T : ~(<<W, U>> \in StrictSubsetOrdering(S))
  <2> HIDE DEF T
  <2> QED BY <1>2, <1>3, WFMin
<1>5. PICK m \in S : U = From(m)
  OBVIOUS
<1>6. ASSUME NEW k \in S, ~(k <= m) PROVE FALSE
  <2>1. From(k) \in T
    OBVIOUS
  <2>2. k \in Nat /\ m \in Nat /\ m < k
    BY <1>6
  <2>3. ASSUME NEW x \in From(k) PROVE x \in U
    <3>1. x \in S /\ x \in Nat /\ k <= x
      BY <1>0
    <3>2. x \in From(m)
      BY <2>2, <3>1
    <3> QED BY <1>5, <3>2
  <2>4. m \notin From(k) /\ m \in U
    BY <1>5, <2>2
  <2>5. <<From(k), U>> \in StrictSubsetOrdering(S)
    BY <2>3, <2>4, <1>1, <1>5 DEF StrictSubsetOrdering
  <2> QED BY <1>4, <2>1, <2>5
<1> QED BY <1>6

-----------------------------------------------------------------------------
(* Reading a file with fragments *)

\* Behind the end of a line the readable lines are those of the whole file.
LEMMA LinesBehind ==
    ASSUME NEW a \in Nat, NEW b \in Nat, a <= b, b > a => data[b] # Torn
    PROVE  Lines(b) = {i \in Lines(a) : i > b}
<1>1. ASSUME NEW i \in Lines(b) PROVE i \in Lines(a) /\ i > b
  BY <1>1 DEF Lines
<1>2. ASSUME NEW i \in Lines(a), i > b PROVE i \in Lines(b)
  BY <1>2 DEF Lines
<1> QED BY <1>1, <1>2

\* The lines a reader finds are offsets of the file, finitely many.
LEMMA LinesType ==
    ASSUME SpoolTypeOK, NEW from \in Nat
    PROVE  /\ Lines(from) \subseteq (from + 1)..Len(data)
           /\ Lines(from) \in SUBSET Nat
           /\ IsFiniteSet(Lines(from))
           /\ \A i \in Lines(from) : data[i] # Torn
<1>1. Lines(from) \subseteq (from + 1)..Len(data)
  BY DEF Lines
<1>2. from + 1 \in Nat /\ Len(data) \in Nat
  BY DEF SpoolTypeOK
<1>3. IsFiniteSet(Lines(from))
  BY <1>1, <1>2, CellCount
<1> QED BY <1>1, <1>2, <1>3 DEF Lines

\* A read takes the readable lines in order.
LEMMA FirstLinesInOrder ==
    ASSUME SpoolTypeOK, NEW limit \in Nat
    PROVE  /\ FirstLines(limit) \subseteq Lines(offset)
           /\ \A i \in FirstLines(limit), k \in Lines(offset) :
                 k <= i => k \in FirstLines(limit)
<1>1. FirstLines(limit) \subseteq Lines(offset)
  BY DEF FirstLines
<1>2. ASSUME NEW i \in FirstLines(limit), NEW k \in Lines(offset), k <= i
      PROVE  k \in FirstLines(limit)
  <2> DEFINE Upto(m) == {j \in Lines(offset) : j <= m}
  <2>1. offset \in Nat /\ i \in Lines(offset)
    BY <1>1 DEF SpoolTypeOK
  <2>2. /\ Lines(offset) \in SUBSET Nat /\ IsFiniteSet(Lines(offset))
    BY <2>1, LinesType
  <2>3. offset < size /\ Cardinality(Upto(i)) <= limit
    BY DEF FirstLines
  <2>4. Upto(i) \subseteq Lines(offset) /\ Upto(k) \subseteq Lines(offset)
    OBVIOUS
  <2>5. ASSUME NEW j \in Upto(k) PROVE j \in Upto(i)
    <3>1. j \in Nat /\ k \in Nat /\ i \in Nat /\ j <= k /\ j \in Lines(offset)
      BY <2>1, <2>2
    <3> QED BY <1>2, <3>1
  <2>6. IsFiniteSet(Upto(i)) /\ IsFiniteSet(Upto(k))
    BY <2>2, <2>4, FS_Subset
  <2>7. Cardinality(Upto(k)) <= Cardinality(Upto(i))
    BY <2>5, <2>6, FS_Subset
  <2>8. Cardinality(Upto(k)) \in Nat /\ Cardinality(Upto(i)) \in Nat
    BY <2>6, FS_CardinalityType
  <2> HIDE DEF Upto
  <2>9. Cardinality(Upto(k)) <= limit
    BY <2>3, <2>7, <2>8
  <2> QED BY <2>3, <2>9 DEF FirstLines, Upto
<1> QED BY <1>1, <1>2

\* A read that found fewer lines than it may take found all of them.
LEMMA FirstLinesAll ==
    ASSUME SpoolTypeOK, NEW limit \in Nat, FirstLines(limit) # {},
           Cardinality(FirstLines(limit)) # limit
    PROVE  FirstLines(limit) = Lines(offset)
<1> DEFINE chosen == FirstLines(limit)
           unread == Lines(offset) \ chosen
           Upto(m) == {j \in Lines(offset) : j <= m}
<1>1. offset \in Nat /\ chosen \subseteq Lines(offset)
  BY FirstLinesInOrder DEF SpoolTypeOK
<1>2. Lines(offset) \in SUBSET Nat /\ IsFiniteSet(Lines(offset))
  BY <1>1, LinesType
<1>3. \A i \in Lines(offset) : i \in Nat
  BY <1>2
<1>4. IsFiniteSet(chosen) /\ chosen \in SUBSET Nat
  BY <1>1, <1>2, FS_Subset
<1>5. Cardinality(chosen) \in Nat
  BY <1>4, FS_CardinalityType
<1>6. ASSUME unread # {} PROVE FALSE
  <2>1. IsFiniteSet(unread) /\ unread \in SUBSET Nat
    BY <1>2, FS_Subset
  <2>2. PICK m \in unread : \A k \in unread : m <= k
    BY <1>6, <2>1, LeastOf
  <2>3. PICK last \in chosen : \A k \in chosen : k <= last
    BY <1>4, GreatestOf
  <2>4. m \in Lines(offset) /\ last \in Lines(offset)
    BY <1>1
  <2>5. ASSUME NEW k \in chosen PROVE k < m
    <3>1. ~(m <= k)
      BY <2>4, FirstLinesInOrder
    <3> QED BY <1>1, <1>3, <2>4, <3>1
  <2>6. chosen = Upto(last)
    <3>1. ASSUME NEW k \in Upto(last) PROVE k \in chosen
      BY <3>1, FirstLinesInOrder
    <3>2. ASSUME NEW k \in chosen PROVE k \in Upto(last)
      BY <1>1, <2>3
    <3> QED BY <3>1, <3>2
  <2>7. offset < size /\ Cardinality(Upto(last)) <= limit
    BY <2>3 DEF FirstLines
  <2>8. Upto(m) = chosen \cup {m}
    <3>1. ASSUME NEW k \in Upto(m), k # m PROVE k \in chosen
      <4>1. k \in Nat /\ m \in Nat /\ k <= m
        BY <1>3, <2>4
      <4>2. ~(m <= k)
        BY <3>1, <4>1
      <4> QED BY <2>2, <4>2
    <3>2. ASSUME NEW k \in chosen PROVE k \in Upto(m)
      <4>1. k \in Nat /\ m \in Nat /\ k < m /\ k \in Lines(offset)
        BY <1>1, <1>3, <2>4, <2>5
      <4> QED BY <4>1
    <3>3. m \in Upto(m)
      BY <1>3, <2>4
    <3> QED BY <3>1, <3>2, <3>3
  <2>9. Cardinality(chosen \cup {m}) = Cardinality(chosen) + 1
    BY <1>4, <2>2, FS_AddElement
  <2>10. Cardinality(chosen) + 1 <= limit
    BY <1>5, <2>6, <2>7
  <2>11. Cardinality(Upto(m)) <= limit
    BY <2>8, <2>9, <2>10
  <2>12. m \in chosen
    BY <2>4, <2>7, <2>11 DEF FirstLines
  <2> QED BY <2>12
<1> QED BY <1>1, <1>6

\* The nextOffset of a read that found something is the end of a line, and the
\* read holds every readable line up to it.
LEMMA NextOffsetTorn ==
    ASSUME SpoolTypeOK, NEW limit \in Nat, NEW n \in Nat,
           FirstLines(limit) # {}, IsNextOffset(n, limit)
    PROVE  /\ offset < n /\ n <= Len(data) /\ data[n] # Torn
           /\ \A i \in Lines(offset) : i <= n => i \in FirstLines(limit)
<1> DEFINE chosen == FirstLines(limit)
<1>1. offset \in Nat /\ Len(data) \in Nat /\ chosen \subseteq Lines(offset)
  BY FirstLinesInOrder DEF SpoolTypeOK
<1>2. /\ Lines(offset) \subseteq (offset + 1)..Len(data)
      /\ \A i \in Lines(offset) : data[i] # Torn
  BY <1>1, LinesType
<1>3. CASE Cardinality(chosen) = limit
  <2>1. n \in chosen
    BY <1>3 DEF IsNextOffset
  <2>2. offset < n /\ n <= Len(data) /\ data[n] # Torn
    BY <1>1, <1>2, <2>1
  <2> QED BY <2>1, <2>2, FirstLinesInOrder
<1>4. CASE Cardinality(chosen) # limit
  <2>1. chosen = Lines(offset)
    BY <1>4, FirstLinesAll
  <2>2. /\ n \in {offset} \cup LineEnds(offset)
        /\ \A i \in LineEnds(offset) : i <= n
    BY <1>4 DEF IsNextOffset
  <2>3. PICK i0 \in chosen : TRUE
    OBVIOUS
  <2>4. i0 \in LineEnds(offset) /\ offset < i0
    BY <1>1, <1>2, <2>3 DEF LineEnds
  <2>5. n # offset
    BY <1>1, <2>2, <2>4 DEF LineEnds
  <2>6. n \in LineEnds(offset)
    BY <2>2, <2>5
  <2> QED BY <1>1, <2>1, <2>6 DEF LineEnds
<1> QED BY <1>3, <1>4

-----------------------------------------------------------------------------
(* What a step may do to the count *)

\* Two facts about numbers that SMT misses when they are about a variable and its
\* next value.
LEMMA SumsOrdered ==
    ASSUME NEW a \in Nat, NEW b \in Nat, NEW c \in Nat, NEW d \in Nat
    PROVE  /\ a <= b /\ c <= d => a + c <= b + d
           /\ a <= b + 1 /\ c < d => a + c <= b + d
OBVIOUS

LEMMA BudgetKept ==
    ASSUME NEW lost \in Nat, NEW less \in Nat, NEW u \in Nat, NEW v \in Nat,
           NEW c \in Nat, NEW d \in Nat,
           lost + u <= c, less <= lost, v + c <= u + d
    PROVE  less + v <= d
OBVIOUS

\* One fragment at most is at the end.
LEMMA UnpaidType ==
    /\ Unpaid \in Nat /\ Unpaid' \in Nat
    /\ Unpaid <= 1 /\ Unpaid' <= 1
BY DEF Unpaid

\* A fragment at the end is paid for by the death that left it.
LEMMA UnpaidGrows ==
    ASSUME crashes \in Nat, crashes' \in Nat, crashes <= crashes',
           EndsTorn' => EndsTorn \/ crashes < crashes'
    PROVE  Unpaid' + crashes <= Unpaid + crashes'
<1>1. CASE EndsTorn' => EndsTorn
  <2>1. Unpaid' <= Unpaid
    BY <1>1 DEF Unpaid
  <2> QED BY <2>1, UnpaidType, SumsOrdered
<1>2. CASE crashes < crashes'
  <2>1. Unpaid' <= Unpaid + 1
    BY UnpaidType
  <2> QED BY <1>2, <2>1, UnpaidType, SumsOrdered
<1> QED BY <1>1, <1>2

\* A step that loses nothing more, and leaves a fragment at the end only if it
\* is a death, keeps the count.
LEMMA CountKept ==
    ASSUME CountInv, crashes \in Nat, crashes' \in Nat,
           Lost' \subseteq Lost, crashes <= crashes',
           EndsTorn' => EndsTorn \/ crashes < crashes'
    PROVE  CountInv'
<1>1. IsFiniteSet(Lost) /\ Cardinality(Lost) + Unpaid <= crashes
  BY DEF CountInv
<1>2. IsFiniteSet(Lost') /\ Cardinality(Lost') <= Cardinality(Lost)
  BY <1>1, FS_Subset
<1>3. Cardinality(Lost) \in Nat /\ Cardinality(Lost') \in Nat
  BY <1>1, <1>2, FS_CardinalityType
<1>4. Cardinality(Lost') + Unpaid' <= crashes'
  BY <1>1, <1>2, <1>3, UnpaidGrows, UnpaidType, BudgetKept
<1> QED BY <1>2, <1>4 DEF CountInv

\* The reader moves on to the end of a line, in the same file or in a fresh
\* one, over lines that are resolved: nothing is lost.
LEMMA LostKept ==
    ASSUME SpoolTypeOK, accepted' = accepted, Resolved \subseteq Resolved',
           NEW to \in Nat, ReadPosition \in Nat, ReadPosition <= to,
           \A i \in Lines(ReadPosition) : i <= to => data[i] \in Resolved',
           to > ReadPosition => data[to] # Torn,
           \/ data' = data /\ ReadPosition' = to
           \/ Len(data) <= to
    PROVE  Lost' \subseteq Lost
<1> SUFFICES ASSUME NEW e \in Lost', e \notin Lost PROVE FALSE
  OBVIOUS
<1>1. /\ e \in accepted /\ e \notin Resolved' /\ e \notin Resolved
      /\ e \notin Waiting(ReadPosition)'
  BY DEF Lost
<1>2. PICK i \in Lines(ReadPosition) : data[i] = e
  BY <1>1 DEF Lost, Waiting
<1>3. ~(i <= to)
  BY <1>1, <1>2
<1>4. i \in (ReadPosition + 1)..Len(data) /\ Len(data) \in Nat
  BY <1>2, LinesType DEF SpoolTypeOK
<1>5. data' = data /\ ReadPosition' = to
  BY <1>3, <1>4
<1>6. i \in Lines(to)
  BY <1>2, <1>3, <1>4, LinesBehind
<1>7. i \in Lines(ReadPosition)'
  BY <1>5, <1>6 DEF Lines
<1> QED BY <1>1, <1>2, <1>5, <1>7 DEF Waiting

\* What is read does not depend on the jobs, the drainers or the statistics.
LEMMA LossFrame ==
    ASSUME LossInv, DrainTypeOK', Resolved \subseteq Resolved',
           UNCHANGED <<data, offsetFile, up, size, offset, accepted, crashes>>
    PROVE  PositionInv' /\ CountInv'
<1>1. ReadPosition' = ReadPosition /\ EndsTorn' = EndsTorn
  BY DEF ReadPosition, RestartOffset, EndsTorn
<1>2. PositionInv'
  BY <1>1 DEF LossInv, PositionInv
<1>3. Waiting(ReadPosition)' = Waiting(ReadPosition)
  BY <1>1 DEF Waiting, Lines
<1>4. Lost' \subseteq Lost
  BY <1>3 DEF Lost
<1>5. crashes \in Nat
  BY DEF LossInv, DrainTypeOK, SpoolTypeOK
<1>6. CountInv'
  BY <1>1, <1>4, <1>5, CountKept DEF LossInv
<1> QED BY <1>2, <1>6

LEMMA HoldsFrame ==
    ASSUME HoldsInv,
           UNCHANGED <<data, offset, up, pc, entries, next, reply, outcome, stored>>
    PROVE  HoldsInv'
BY DEF HoldsInv, ReadsInv, ReachesInv, SeenInv, Batch, Lines

-----------------------------------------------------------------------------
(* The steps of the spool *)

\* What the invariant says of a running process, in the terms of its fields.
LEMMA UpFacts ==
    ASSUME LossInv, up
    PROVE  /\ SpoolTypeOK /\ PassTypeOK /\ StoreTypeOK
           /\ size = Len(data) /\ offset <= Len(data)
           /\ ReadPosition = offset
           /\ offset \in Nat /\ Len(data) \in Nat /\ crashes \in Nat
           /\ offset > 0 => data[offset] # Torn
           /\ crashes < MaxCrashes => offsetFile = offset
<1>1. SpoolTypeOK /\ PassTypeOK /\ StoreTypeOK
  BY DEF LossInv, DrainTypeOK
<1>2. offset \in Nat /\ Len(data) \in Nat /\ crashes \in Nat
  BY <1>1 DEF SpoolTypeOK
<1>3. ReadPosition = offset
  BY DEF ReadPosition
<1>4. /\ size = Len(data) /\ offset <= Len(data)
      /\ offset > 0 => data[offset] # Torn
      /\ crashes < MaxCrashes => offsetFile = offset
  BY <1>3 DEF LossInv, PositionInv
<1> QED BY <1>1, <1>2, <1>3, <1>4

\* An append behind whole lines adds a readable one, and an append behind a
\* fragment pays with its event for the death that left it.
LEMMA AppendCount ==
    ASSUME LossInv, NEW e \in Events, append(e), ~RotatesFirst,
           Resolved' = Resolved
    PROVE  PositionInv' /\ CountInv'
<1>1. /\ data' = Append(data, e) /\ size' = size + 1
      /\ offset' = offset /\ offsetFile' = offsetFile
      /\ accepted' = accepted \cup {e} /\ crashes' = crashes
      /\ up /\ up'
  BY DEF append, writeEntry
<1>2. /\ SpoolTypeOK /\ size = Len(data) /\ offset <= Len(data)
      /\ ReadPosition = offset
      /\ offset \in Nat /\ Len(data) \in Nat /\ crashes \in Nat
      /\ offset > 0 => data[offset] # Torn
      /\ crashes < MaxCrashes => offsetFile = offset
  BY <1>1, UpFacts
<1>3. /\ Len(data') = Len(data) + 1
      /\ \A i \in 1..Len(data) : data'[i] = data[i]
      /\ data'[Len(data) + 1] = e
  BY <1>1, <1>2 DEF SpoolTypeOK
<1>4. ReadPosition' = offset
  BY <1>1 DEF ReadPosition
<1>5. PositionInv'
  BY <1>1, <1>2, <1>3, <1>4 DEF PositionInv
<1>6. Lines(offset) \subseteq Lines(offset)'
  <2>1. ASSUME NEW i \in Lines(offset) PROVE i \in Lines(offset)'
    BY <1>1, <1>2, <1>3 DEF Lines
  <2> QED BY <2>1
<1>7. \A i \in Lines(offset) : data'[i] = data[i]
  BY <1>2, <1>3 DEF Lines
<1>7a. Lines(ReadPosition)' = Lines(offset)'
  BY <1>1, <1>4 DEF Lines
<1>8. Waiting(ReadPosition) \subseteq Waiting(ReadPosition)'
  <2> SUFFICES ASSUME NEW x \in Waiting(ReadPosition)
               PROVE  x \in Waiting(ReadPosition)'
    OBVIOUS
  <2>1. PICK i \in Lines(offset) : x = data[i]
    BY <1>2 DEF Waiting
  <2>2. i \in Lines(ReadPosition)' /\ x = data'[i]
    BY <1>6, <1>7, <1>7a, <2>1
  <2> QED BY <2>2 DEF Waiting
<1>9. Lost' \subseteq Lost \cup {e}
  BY <1>1, <1>8 DEF Lost
<1>10. e # Torn
  BY SpoolAssumption
<1>11. ~EndsTorn'
  BY <1>2, <1>3, <1>10 DEF EndsTorn
<1>12. CASE ~EndsTorn
  <2>1. Len(data) + 1 \in Lines(offset)'
    <3>1. Len(data) + 1 \in (offset + 1)..Len(data')
      BY <1>2, <1>3
    <3>2. Len(data) + 1 > offset + 1 => data'[(Len(data) + 1) - 1] # Torn
      BY <1>2, <1>3, <1>12 DEF EndsTorn
    <3> QED BY <1>1, <1>3, <1>10, <3>1, <3>2 DEF Lines
  <2>2. e \in Waiting(ReadPosition)'
    <3>1. Len(data) + 1 \in Lines(ReadPosition)' /\ e = data'[Len(data) + 1]
      BY <1>3, <1>7a, <2>1
    <3> QED BY <3>1 DEF Waiting
  <2>3. Lost' \subseteq Lost
    BY <1>9, <2>2 DEF Lost
  <2>4. CountInv'
    BY <1>1, <1>2, <1>11, <2>3, CountKept DEF LossInv
  <2> QED BY <1>5, <2>4
<1>13. CASE EndsTorn
  <2>1. IsFiniteSet(Lost) /\ Cardinality(Lost) + 1 <= crashes
    BY <1>13 DEF LossInv, CountInv, Unpaid
  <2>2. /\ IsFiniteSet(Lost \cup {e})
        /\ Cardinality(Lost \cup {e}) <= Cardinality(Lost) + 1
    <3>1. Cardinality(Lost) \in Nat
      BY <2>1, FS_CardinalityType
    <3>2. /\ IsFiniteSet(Lost \cup {e})
          /\ \/ Cardinality(Lost \cup {e}) = Cardinality(Lost)
             \/ Cardinality(Lost \cup {e}) = Cardinality(Lost) + 1
      BY <2>1, FS_AddElement
    <3> QED BY <3>1, <3>2
  <2>3. IsFiniteSet(Lost') /\ Cardinality(Lost') <= Cardinality(Lost \cup {e})
    BY <1>9, <2>2, FS_Subset
  <2>4. /\ Cardinality(Lost) \in Nat /\ Cardinality(Lost') \in Nat
        /\ Cardinality(Lost \cup {e}) \in Nat
    BY <2>1, <2>2, <2>3, FS_CardinalityType
  <2>5. Unpaid' = 0
    BY <1>11 DEF Unpaid
  <2>6. Cardinality(Lost') + Unpaid' <= crashes'
    BY <1>1, <1>2, <2>1, <2>2, <2>3, <2>4, <2>5
  <2> QED BY <1>5, <2>3, <2>6 DEF CountInv
<1> QED BY <1>12, <1>13

\* What a pass holds stays what it is when the file grows behind it.
LEMMA AppendHolds ==
    ASSUME LossInv, NEW c \in Events, append(c), ~RotatesFirst,
           UNCHANGED <<passVars, storeVars>>
    PROVE  HoldsInv'
<1>1. /\ data' = Append(data, c) /\ offset' = offset /\ up /\ up'
  BY DEF append, writeEntry
<1>2. /\ SpoolTypeOK /\ PassTypeOK /\ offset \in Nat /\ Len(data) \in Nat
  BY <1>1, UpFacts
<1>3. /\ Len(data') = Len(data) + 1
      /\ \A i \in 1..Len(data) : data'[i] = data[i]
  BY <1>1, <1>2 DEF SpoolTypeOK
<1>4. \A i \in Lines(offset) : i \in Lines(offset)'
  BY <1>1, <1>2, <1>3 DEF Lines
<1>5. \A i \in Lines(offset)' : i <= Len(data) => i \in Lines(offset)
  BY <1>1, <1>2, <1>3 DEF Lines
<1>6. /\ Lines(offset) \subseteq (offset + 1)..Len(data)
      /\ Lines(offset)' \subseteq (offset + 1)..(Len(data) + 1)
  BY <1>1, <1>3 DEF Lines
<1>7. UNCHANGED <<pc, entries, next, reply, outcome, stored>>
  BY DEF passVars, storeVars
<1> SUFFICES ASSUME NEW p \in Passes, pc[p] # "idle"
             PROVE  /\ ReadsInv(p)'
                    /\ pc[p] = "batch" => ReachesInv(p)'
                    /\ pc[p] = "probe" => SeenInv(p)'
  BY <1>1, <1>7 DEF HoldsInv
<1>8. /\ ReadsInv(p)
      /\ pc[p] = "batch" => ReachesInv(p)
      /\ pc[p] = "probe" => SeenInv(p)
  BY DEF LossInv, HoldsInv
<1>9. \A i \in DOMAIN entries[p] : i \in (offset + 1)..Len(data)
  BY <1>6, <1>8 DEF ReadsInv
<1>10. ReadsInv(p)'
  <2>1. ASSUME NEW i \in DOMAIN entries[p], NEW k \in Lines(offset)', k <= i
        PROVE  k \in DOMAIN entries[p]
    <3>1. k \in Lines(offset)
      BY <1>2, <1>5, <1>6, <1>9, <2>1
    <3> QED BY <1>8, <2>1, <3>1 DEF ReadsInv
  <2>2. \A i \in DOMAIN entries[p] : entries[p][i] = data'[i]
    BY <1>2, <1>3, <1>8, <1>9 DEF ReadsInv
  <2>3. DOMAIN entries[p] # {} /\ DOMAIN entries[p] \subseteq Lines(offset)'
    BY <1>4, <1>8 DEF ReadsInv
  <2> QED BY <1>7, <2>1, <2>2, <2>3 DEF ReadsInv
<1>11. ASSUME ReachesInv(p) PROVE ReachesInv(p)'
  <2>1. next[p] \in Nat
    BY <1>2 DEF PassTypeOK
  <2>2. /\ offset < next[p] /\ next[p] <= Len(data') /\ data'[next[p]] # Torn
    BY <1>2, <1>3, <1>11, <2>1 DEF ReachesInv
  <2>3. ASSUME NEW i \in Lines(offset)', i <= next[p]
        PROVE  i \in DOMAIN entries[p]
    <3>1. i \in Lines(offset)
      BY <1>2, <1>5, <1>6, <1>11, <2>1, <2>3 DEF ReachesInv
    <3> QED BY <1>11, <2>3, <3>1 DEF ReachesInv
  <2>4. reply[p] = Ok => Batch(p) \subseteq stored
    BY <1>11 DEF ReachesInv
  <2> QED BY <1>1, <1>7, <2>2, <2>3, <2>4 DEF ReachesInv, Batch
<1>12. ASSUME SeenInv(p) PROVE SeenInv(p)'
  BY <1>7, <1>12 DEF SeenInv
<1> QED BY <1>8, <1>10, <1>11, <1>12

\* An append that rotates first drops a file whose readable lines are all
\* resolved, and that no pass has read from.
LEMMA AppendRotates ==
    ASSUME LossInv, NEW e \in Events, append(e), RotatesFirst,
           UNCHANGED <<passVars, storeVars>>
    PROVE  PositionInv' /\ HoldsInv' /\ CountInv'
<1>1. /\ data' = <<e>> /\ size' = 1 /\ offset' = 0 /\ offsetFile' = 0
      /\ accepted' = accepted \cup {e} /\ crashes' = crashes
      /\ up /\ up'
  BY DEF append, writeEntry
<1>2. /\ size = Len(data) /\ ReadPosition = offset
      /\ offset \in Nat /\ Len(data) \in Nat /\ crashes \in Nat
  BY <1>1, UpFacts
<1>3. Len(data') = 1 /\ data'[1] = e /\ e # Torn
  BY <1>1, SpoolAssumption
<1>4. ReadPosition' = 0
  BY <1>1 DEF ReadPosition
<1>5. PositionInv'
  BY <1>1, <1>3, <1>4 DEF PositionInv
<1>6. Lines(offset) = {}
  BY <1>2 DEF Lines, RotatesFirst
<1>7. HoldsInv'
  <2>1. \A p \in Passes : pc[p] = "idle"
    BY <1>6 DEF LossInv, HoldsInv, ReadsInv
  <2> QED BY <2>1 DEF HoldsInv, passVars
<1>8. 1 \in Lines(0)'
  BY <1>3 DEF Lines
<1>9. e \in Waiting(ReadPosition)'
  BY <1>3, <1>4, <1>8 DEF Waiting
<1>10. Resolved' = Resolved
  BY DEF Resolved, append, storeVars
<1>11. Lost' \subseteq Lost
  BY <1>1, <1>2, <1>6, <1>9, <1>10 DEF Lost, Waiting
<1>12. ~EndsTorn'
  BY <1>3 DEF EndsTorn
<1>13. CountInv'
  BY <1>1, <1>2, <1>11, <1>12, CountKept DEF LossInv
<1> QED BY <1>5, <1>7, <1>13

\* The restart begins where the disk says a reader begins.
LEMMA RestartLoss ==
    ASSUME LossInv, Restart, UNCHANGED <<passVars, storeVars>>
    PROVE  PositionInv' /\ HoldsInv' /\ CountInv'
<1>1. /\ ~up /\ up' /\ size' = Len(data) /\ offset' = RestartOffset
      /\ UNCHANGED <<data, offsetFile, dlq, accepted, crashes>>
      /\ Resolved' = Resolved
  BY DEF Restart, Resolved, storeVars
<1>2. offsetFile \in Nat /\ Len(data) \in Nat /\ crashes \in Nat
  BY DEF LossInv, DrainTypeOK, SpoolTypeOK
<1>3. ReadPosition' = ReadPosition /\ ReadPosition = RestartOffset
  BY <1>1 DEF ReadPosition
<1>4. RestartOffset <= Len(data)
  BY <1>2 DEF RestartOffset
<1>5. PositionInv'
  BY <1>1, <1>3, <1>4 DEF LossInv, PositionInv
<1>6. HoldsInv'
  <2>1. \A p \in Passes : pc[p] = "idle"
    BY <1>1 DEF LossInv, HoldsInv
  <2> QED BY <2>1 DEF HoldsInv, passVars
<1>7. Lost' \subseteq Lost
  <2>1. Waiting(ReadPosition)' = Waiting(ReadPosition)
    BY <1>1, <1>3 DEF Waiting, Lines
  <2> QED BY <1>1, <2>1 DEF Lost
<1>8. EndsTorn' => EndsTorn
  BY <1>1 DEF EndsTorn
<1>9. CountInv'
  BY <1>1, <1>2, <1>7, <1>8, CountKept DEF LossInv
<1> QED BY <1>5, <1>6, <1>9

\* Committing lines that are resolved or damaged loses nothing.
LEMMA CommitLoss ==
    ASSUME LossInv, up, NEW to \in Nat, NEW n, commit(to, n),
           offset < to, to <= Len(data), data[to] # Torn,
           \A i \in Lines(offset) : i <= to => data[i] \in Resolved',
           Resolved \subseteq Resolved', UNCHANGED <<up, accepted, crashes>>
    PROVE  PositionInv' /\ CountInv'
<1>1. /\ SpoolTypeOK /\ size = Len(data) /\ ReadPosition = offset
      /\ offset \in Nat /\ Len(data) \in Nat /\ crashes \in Nat
  BY UpFacts
<1>2. CASE to < size
  <2>1. /\ offset' = to /\ offsetFile' = to
        /\ data' = data /\ size' = size
    BY <1>1, <1>2 DEF commit
  <2>2. ReadPosition' = to
    BY <2>1 DEF ReadPosition
  <2>3. PositionInv'
    BY <1>1, <2>1, <2>2 DEF PositionInv
  <2>4. Lost' \subseteq Lost
    BY <1>1, <2>1, <2>2, LostKept
  <2>5. EndsTorn' => EndsTorn
    BY <2>1 DEF EndsTorn
  <2> QED BY <1>1, <2>3, <2>4, <2>5, CountKept DEF LossInv
<1>3. CASE to >= size
  <2>1. data' = <<>> /\ size' = 0 /\ offset' = 0 /\ offsetFile' = 0
    BY <1>1, <1>3 DEF commit, Rotate
  <2>2. ReadPosition' = 0 /\ Len(data') = 0
    BY <2>1, EmptyFile DEF ReadPosition
  <2>3. PositionInv'
    BY <2>1, <2>2 DEF PositionInv
  <2>4. Lost' \subseteq Lost
    BY <1>1, <1>3, LostKept
  <2>5. ~EndsTorn'
    BY <2>2 DEF EndsTorn
  <2> QED BY <1>1, <2>3, <2>4, <2>5, CountKept DEF LossInv
<1> QED BY <1>1, <1>2, <1>3

\* A death that left on disk an offset behind resolved lines, or an empty file
\* when everything readable is resolved, loses nothing.
LEMMA DeathLoss ==
    ASSUME LossInv, DrainTypeOK', up, crashes < MaxCrashes, up' = FALSE,
           accepted' = accepted, crashes' = crashes + 1,
           Resolved \subseteq Resolved',
           NEW to \in Nat, offset <= to, to <= Len(data),
           to > offset => data[to] # Torn,
           \A i \in Lines(offset) : i <= to => data[i] \in Resolved',
           \/ data' = data /\ offsetFile' = to
           \/ data' = <<>> /\ Len(data) <= to /\ ~(crashes' < MaxCrashes)
    PROVE  PositionInv' /\ CountInv'
<1>1. /\ SpoolTypeOK /\ ReadPosition = offset
      /\ offset \in Nat /\ Len(data) \in Nat /\ crashes \in Nat
      /\ offset > 0 => data[offset] # Torn
  BY UpFacts
<1>2. offsetFile' \in Nat
  BY DEF DrainTypeOK, SpoolTypeOK
<1>3. ReadPosition' = RestartOffset'
  BY DEF ReadPosition
<1>4. crashes \in Nat /\ crashes' \in Nat /\ crashes < crashes'
  BY <1>1
<1>5. CASE data' = data /\ offsetFile' = to
  <2>1. ReadPosition' = to
    BY <1>3, <1>5 DEF RestartOffset
  <2>2. to > 0 => data[to] # Torn
    BY <1>1
  <2>3. PositionInv'
    BY <1>5, <2>1, <2>2 DEF PositionInv
  <2>4. Lost' \subseteq Lost
    BY <1>1, <1>5, <2>1, LostKept
  <2> QED BY <1>4, <2>3, <2>4, CountKept DEF LossInv
<1>6. CASE data' = <<>> /\ Len(data) <= to /\ ~(crashes' < MaxCrashes)
  <2>1. Len(data') = 0
    BY <1>6, EmptyFile
  <2>2. ReadPosition' = 0
    BY <1>2, <1>3, <2>1 DEF RestartOffset
  <2>3. PositionInv'
    BY <1>6, <2>2 DEF PositionInv
  <2>4. Lost' \subseteq Lost
    BY <1>1, <1>6, LostKept
  <2> QED BY <1>4, <2>3, <2>4, CountKept DEF LossInv
<1> QED BY <1>5, <1>6

\* A death inside a write leaves a fragment, which the death pays for.
LEMMA TornLoss ==
    ASSUME LossInv, DrainTypeOK', CrashInAppend, stored' = stored
    PROVE  PositionInv' /\ CountInv'
<1>1. /\ up /\ up' = FALSE /\ accepted' = accepted
      /\ crashes < MaxCrashes /\ crashes' = crashes + 1
      /\ dlq' = dlq
  BY DEF CrashInAppend, Dies
<1>2. /\ SpoolTypeOK /\ size = Len(data) /\ offset <= Len(data)
      /\ ReadPosition = offset
      /\ offset \in Nat /\ Len(data) \in Nat /\ crashes \in Nat
      /\ offset > 0 => data[offset] # Torn
      /\ offsetFile = offset
  BY <1>1, UpFacts
<1>3. crashes' \in Nat /\ crashes < crashes'
  BY <1>1, <1>2
<1>4. Resolved' = Resolved
  BY <1>1 DEF Resolved
<1>5. ReadPosition' = RestartOffset'
  BY <1>1 DEF ReadPosition
<1>6. CASE ~RotatesFirst
  <2>1. data' = Append(data, Torn) /\ offsetFile' = offset
    BY <1>2, <1>6 DEF CrashInAppend
  <2>2. /\ Len(data') = Len(data) + 1
        /\ \A i \in 1..Len(data) : data'[i] = data[i]
    BY <1>2, <2>1 DEF SpoolTypeOK
  <2>3. ReadPosition' = offset
    BY <1>2, <1>5, <2>1, <2>2 DEF RestartOffset
  <2>4. PositionInv'
    BY <1>1, <1>2, <2>1, <2>2, <2>3 DEF PositionInv
  <2>5. ASSUME NEW i \in Lines(offset)
        PROVE  i \in Lines(ReadPosition)' /\ data'[i] = data[i]
    BY <1>2, <2>2, <2>3 DEF Lines
  <2>6. Waiting(ReadPosition) \subseteq Waiting(ReadPosition)'
    <3> SUFFICES ASSUME NEW x \in Waiting(ReadPosition)
                 PROVE  x \in Waiting(ReadPosition)'
      OBVIOUS
    <3>1. PICK i \in Lines(offset) : x = data[i]
      BY <1>2 DEF Waiting
    <3>2. i \in Lines(ReadPosition)' /\ x = data'[i]
      BY <2>5, <3>1
    <3> QED BY <3>2 DEF Waiting
  <2>7. Lost' \subseteq Lost
    BY <1>1, <1>4, <2>6 DEF Lost
  <2> QED BY <1>2, <1>3, <2>4, <2>7, CountKept DEF LossInv
<1>7. CASE RotatesFirst
  <2>1. data' = <<Torn>> /\ offsetFile' = 0
    BY <1>7 DEF CrashInAppend
  <2>2. ReadPosition' = 0
    BY <1>5, <2>1 DEF RestartOffset
  <2>3. PositionInv'
    BY <1>1, <2>1, <2>2 DEF PositionInv
  <2>4. Len(data) <= offset /\ Lines(offset) = {}
    BY <1>2, <1>7 DEF RotatesFirst, Lines
  <2>5. Lost' \subseteq Lost
    BY <1>1, <1>2, <1>4, <2>4, LostKept
  <2> QED BY <1>2, <1>3, <2>3, <2>5, CountKept DEF LossInv
<1> QED BY <1>6, <1>7

\* Every readable line up to a settled entry is stored or dead.
LEMMA SettledLines ==
    ASSUME LossInv, NEW p \in Passes, pc[p] = "probe", Untried(p) = {},
           NEW to \in Settled(p)
    PROVE  /\ to \in Nat /\ offset < to /\ to <= Len(data) /\ data[to] # Torn
           /\ \A i \in Lines(offset) : i <= to =>
                 /\ i \in Settled(p) /\ entries[p][i] = data[i]
                 /\ i \notin Dead(p) => data[i] \in stored
<1>1. up /\ ReadsInv(p) /\ SeenInv(p)
  BY DEF LossInv, HoldsInv
<1>2. SpoolTypeOK /\ offset \in Nat /\ Len(data) \in Nat
  BY <1>1, UpFacts
<1>3. to \in DOMAIN entries[p] /\ to \in Lines(offset)
  BY <1>1 DEF Settled, ReadsInv
<1>4. /\ Lines(offset) \subseteq (offset + 1)..Len(data)
      /\ \A i \in Lines(offset) : data[i] # Torn
  BY <1>2, LinesType
<1>5. /\ to \in Nat /\ offset < to /\ to <= Len(data) /\ data[to] # Torn
  BY <1>2, <1>3, <1>4
<1>6. ASSUME NEW i \in Lines(offset), i <= to
      PROVE  /\ i \in Settled(p) /\ entries[p][i] = data[i]
             /\ i \notin Dead(p) => data[i] \in stored
  <2>1. i \in DOMAIN entries[p] /\ entries[p][i] = data[i]
    BY <1>1, <1>3, <1>6 DEF ReadsInv
  <2>2. \A k \in Stuck(p) : to < k
    BY DEF Settled
  <2>3. Stuck(p) \subseteq Lines(offset)
    BY <1>1 DEF Stuck, Failures, ReadsInv
  <2>4. \A k \in Stuck(p) : i < k
    BY <1>2, <1>4, <1>5, <1>6, <2>2, <2>3
  <2>5. i \in Settled(p)
    BY <2>1, <2>4 DEF Settled
  <2>6. i \notin Stuck(p)
    BY <1>2, <1>4, <2>4
  <2>7. i \notin Dead(p) => outcome[p][i] = Ok
    BY <2>1, <2>5, <2>6 DEF Dead, Stuck, Failures
  <2>8. i \in DOMAIN outcome[p]
    BY <2>1 DEF Untried
  <2> QED BY <1>1, <2>1, <2>5, <2>7, <2>8 DEF SeenInv
<1> QED BY <1>5, <1>6

-----------------------------------------------------------------------------
(* The deaths *)

\* A death between two operations.
LEMMA IdleLoss ==
    ASSUME LossInv, DrainTypeOK', CrashIdle, stored' = stored
    PROVE  PositionInv' /\ CountInv'
<1>1. /\ up /\ up' = FALSE /\ accepted' = accepted
      /\ crashes < MaxCrashes /\ crashes' = crashes + 1
      /\ UNCHANGED <<data, offsetFile, dlq>>
  BY DEF CrashIdle, Dies, diskVars
<1>2. /\ offset \in Nat /\ offset <= Len(data) /\ offsetFile = offset
      /\ SpoolTypeOK
  BY <1>1, UpFacts
<1>3. \A i \in Lines(offset) : i <= offset => data[i] \in Resolved'
  BY <1>2, LinesType
<1>4. Resolved \subseteq Resolved'
  BY <1>1 DEF Resolved
<1>5. /\ offset <= offset /\ ~(offset > offset)
      /\ data' = data /\ offsetFile' = offset
  BY <1>1, <1>2
<1> QED BY <1>1, <1>2, <1>3, <1>4, <1>5, DeathLoss

\* A death in the rotation that an append starts, of a file without a readable
\* line left.
LEMMA RotateOnAppendLoss ==
    ASSUME CountedDeployment, LossInv, DrainTypeOK', CrashInRotateOnAppend,
           stored' = stored
    PROVE  PositionInv' /\ CountInv'
<1>1. /\ up /\ up' = FALSE /\ accepted' = accepted
      /\ crashes < MaxCrashes /\ crashes' = crashes + 1
      /\ data' = <<>> /\ dlq' = dlq /\ offset = size
      /\ "rotate" \in CrashPoints
  BY DEF CrashInRotateOnAppend, Dies, RotatesFirst
<1>2. /\ offset \in Nat /\ Len(data) = offset /\ SpoolTypeOK /\ crashes \in Nat
  BY <1>1, UpFacts
<1>3. \A i \in Lines(offset) : i <= offset => data[i] \in Resolved'
  BY <1>2, LinesType
<1>4. Resolved \subseteq Resolved'
  BY <1>1 DEF Resolved
<1>5. ~(crashes' < MaxCrashes)
  BY <1>1, <1>2, SpoolAssumption DEF CountedDeployment
<1>6. /\ offset <= offset /\ ~(offset > offset)
      /\ offset <= Len(data) /\ Len(data) <= offset
  BY <1>2
<1> QED BY <1>1, <1>2, <1>3, <1>4, <1>5, <1>6, DeathLoss

\* A death in the commit of a stored batch: the lines before its nextOffset are
\* rows.
LEMMA BatchCommitLoss ==
    ASSUME CountedDeployment, LossInv, DrainTypeOK', NEW p \in Passes,
           CrashInBatchCommit(p), stored' = stored
    PROVE  PositionInv' /\ CountInv'
<1>1. /\ pc[p] = "batch" /\ reply[p] = Ok /\ dlq' = dlq
      /\ CrashAfterCommit(next[p]) \/ CrashInRotateOf(next[p])
  BY DEF CrashInBatchCommit
<1>2. /\ up /\ up' = FALSE /\ accepted' = accepted
      /\ crashes < MaxCrashes /\ crashes' = crashes + 1
  BY <1>1 DEF CrashAfterCommit, CrashInRotateOf, Dies
<1>3. /\ PassTypeOK /\ size = Len(data) /\ offset \in Nat /\ Len(data) \in Nat
      /\ crashes \in Nat
  BY <1>2, UpFacts
<1>4. ReadsInv(p) /\ ReachesInv(p)
  BY <1>1 DEF LossInv, HoldsInv
<1>5. next[p] \in Nat
  BY <1>3 DEF PassTypeOK
<1>6. \A i \in Lines(offset) : i <= next[p] => data[i] \in Resolved'
  <2> SUFFICES ASSUME NEW i \in Lines(offset), i <= next[p]
               PROVE  data[i] \in stored
    BY DEF Resolved
  <2>1. i \in DOMAIN entries[p] /\ entries[p][i] = data[i]
    BY <1>4 DEF ReadsInv, ReachesInv
  <2> QED BY <1>1, <1>4, <2>1 DEF ReachesInv, Batch
<1>7. Resolved \subseteq Resolved'
  BY <1>1 DEF Resolved
<1>8. offset <= next[p] /\ next[p] <= Len(data) /\ data[next[p]] # Torn
  BY <1>3, <1>4, <1>5 DEF ReachesInv
<1>9. CASE CrashAfterCommit(next[p])
  <2>1. data' = data /\ offsetFile' = next[p]
    BY <1>3, <1>5, <1>8, <1>9 DEF CrashAfterCommit
  <2> QED BY <1>2, <1>5, <1>6, <1>7, <1>8, <2>1, DeathLoss
<1>10. CASE CrashInRotateOf(next[p])
  <2>1. data' = <<>> /\ Len(data) <= next[p] /\ "rotate" \in CrashPoints
    BY <1>3, <1>5, <1>10 DEF CrashInRotateOf, Dies
  <2>2. ~(crashes' < MaxCrashes)
    BY <1>2, <1>3, <2>1, SpoolAssumption DEF CountedDeployment
  <2> QED BY <1>2, <1>5, <1>6, <1>7, <1>8, <2>1, <2>2, DeathLoss
<1> QED BY <1>1, <1>9, <1>10

\* A death in phase 2: the entries it committed are rows or dead letters.
LEMMA SettleDeathLoss ==
    ASSUME LossInv, DrainTypeOK', NEW p \in Passes, CrashInSettle(p),
           stored' = stored
    PROVE  PositionInv' /\ CountInv'
<1>1. PICK to \in Settled(p) \cup {0} :
          /\ \E w \in SUBSET Dead(p) :
                dlq' = dlq \cup {entries[p][i] :
                                  i \in {k \in Dead(p) : k <= to} \cup w}
          /\ offsetFile' = IF to <= offset THEN offsetFile
                           ELSE IF to < size THEN to ELSE size
  BY DEF CrashInSettle
<1>2. /\ pc[p] = "probe" /\ Untried(p) = {} /\ data' = data
      /\ up /\ up' = FALSE /\ accepted' = accepted
      /\ crashes < MaxCrashes /\ crashes' = crashes + 1
  BY DEF CrashInSettle, Dies
<1>3. /\ size = Len(data) /\ offset \in Nat /\ Len(data) \in Nat
      /\ offset <= Len(data) /\ offsetFile = offset /\ SpoolTypeOK
  BY <1>2, UpFacts
<1>4. Resolved \subseteq Resolved'
  BY <1>1 DEF Resolved
<1>5. CASE to = 0
  <2>1. offsetFile' = offset
    BY <1>1, <1>3, <1>5
  <2>2. \A i \in Lines(offset) : i <= offset => data[i] \in Resolved'
    BY <1>3, LinesType
  <2>3. offset <= offset /\ ~(offset > offset)
    BY <1>3
  <2> QED BY <1>2, <1>3, <1>4, <2>1, <2>2, <2>3, DeathLoss
<1>6. CASE to \in Settled(p)
  <2>1. /\ to \in Nat /\ offset < to /\ to <= Len(data) /\ data[to] # Torn
        /\ \A i \in Lines(offset) : i <= to =>
              /\ i \in Settled(p) /\ entries[p][i] = data[i]
              /\ i \notin Dead(p) => data[i] \in stored
    BY <1>2, <1>6, SettledLines
  <2>2. offsetFile' = to
    BY <1>1, <1>3, <2>1
  <2>3. \A i \in Lines(offset) : i <= to => data[i] \in Resolved'
    BY <1>1, <2>1 DEF Resolved
  <2>4. offset <= to
    BY <1>3, <2>1
  <2> QED BY <1>2, <1>4, <2>1, <2>2, <2>3, <2>4, DeathLoss
<1> QED BY <1>5, <1>6

\* A death in the rotation that ends phase 2: the file holds nothing else.
LEMMA SettleRotateLoss ==
    ASSUME CountedDeployment, LossInv, DrainTypeOK', NEW p \in Passes,
           CrashInSettleRotate(p), stored' = stored
    PROVE  PositionInv' /\ CountInv'
<1>1. PICK to \in Settled(p) : CrashInRotateOf(to)
  BY DEF CrashInSettleRotate
<1>2. /\ pc[p] = "probe" /\ Untried(p) = {} /\ data' = <<>> /\ to >= size
      /\ up /\ up' = FALSE /\ accepted' = accepted
      /\ crashes < MaxCrashes /\ crashes' = crashes + 1
      /\ "rotate" \in CrashPoints
      /\ dlq' = dlq \cup {entries[p][i] : i \in Dead(p)}
  BY <1>1 DEF CrashInSettleRotate, CrashInRotateOf, Dies
<1>3. /\ size = Len(data) /\ offset \in Nat /\ Len(data) \in Nat
      /\ crashes \in Nat
  BY <1>2, UpFacts
<1>4. Resolved \subseteq Resolved'
  BY <1>2 DEF Resolved
<1>5. /\ to \in Nat /\ offset < to /\ to <= Len(data) /\ data[to] # Torn
      /\ \A i \in Lines(offset) : i <= to =>
            /\ i \in Settled(p) /\ entries[p][i] = data[i]
            /\ i \notin Dead(p) => data[i] \in stored
  BY <1>2, SettledLines
<1>6. \A i \in Lines(offset) : i <= to => data[i] \in Resolved'
  BY <1>2, <1>5 DEF Resolved
<1>7. offset <= to /\ Len(data) <= to
  BY <1>2, <1>3, <1>5
<1>8. ~(crashes' < MaxCrashes)
  BY <1>2, <1>3, SpoolAssumption DEF CountedDeployment
<1> QED BY <1>2, <1>4, <1>5, <1>6, <1>7, <1>8, DeathLoss

\* Wherever a death strikes, it pays for what it costs.
LEMMA CrashLoss ==
    ASSUME CountedDeployment, LossInv, DrainTypeOK', Crash
    PROVE  PositionInv' /\ HoldsInv' /\ CountInv'
<1>1. stored' = stored
  BY DEF Crash, LosePasses, storeVars
<1>2. HoldsInv'
  BY DEF Crash, LosePasses, HoldsInv
<1>3. PositionInv' /\ CountInv'
  BY <1>1, IdleLoss, TornLoss, RotateOnAppendLoss, BatchCommitLoss,
     SettleDeathLoss, SettleRotateLoss DEF Crash, CrashOfPass
<1> QED BY <1>2, <1>3

-----------------------------------------------------------------------------
(* The steps of a pass.  There is only one, so a step of p leaves no other *)
(* pass to speak of.                                                       *)

\* A read is in order, and its nextOffset passes no line it has not read.
LEMMA BeginLoss ==
    ASSUME CountedDeployment, LossInv, NEW p \in Passes, BeginPass(p)
    PROVE  HoldsInv'
<1>1. /\ SpoolTypeOK /\ PassTypeOK /\ offset \in Nat /\ Len(data) \in Nat
  BY UpFacts DEF BeginPass
<1>2. PICK n \in 0..Len(data) :
          IsNextOffset(n, BatchSize) /\ next' = [next EXCEPT ![p] = n]
  BY DEF BeginPass
<1>3. n \in Nat /\ BatchSize \in Nat
  BY <1>1, <1>2, DrainerAssumption
<1>4. FirstLines(BatchSize) # {}
  BY DEF BeginPass
<1>5. /\ offset < n /\ n <= Len(data) /\ data[n] # Torn
      /\ \A i \in Lines(offset) : i <= n => i \in FirstLines(BatchSize)
  BY <1>1, <1>2, <1>3, <1>4, NextOffsetTorn
<1>6. /\ pc'[p] = "batch" /\ next'[p] = n /\ reply'[p] = NoReply /\ up
      /\ entries'[p] = [i \in FirstLines(BatchSize) |-> data[i]]
      /\ UNCHANGED <<data, offset, up, stored>>
  BY <1>1, <1>2 DEF BeginPass, PassTypeOK, BatchEntries, spoolVars, storeVars
<1>7. NoReply # Ok
  BY Zenon DEF NoReply, Ok, Code
<1>8. Lines(offset)' = Lines(offset)
  BY <1>6 DEF Lines
<1>9. ReadsInv(p)'
  BY <1>1, <1>3, <1>4, <1>6, <1>8, FirstLinesInOrder DEF ReadsInv
<1>10. ReachesInv(p)'
  BY <1>5, <1>6, <1>7, <1>8 DEF ReachesInv
<1>11. \A q \in Passes : q = p
  BY DEF CountedDeployment
<1> QED BY <1>6, <1>9, <1>10, <1>11 DEF HoldsInv

\* A batch answered Ok is stored as a whole.
LEMMA StoreHandlesBatchLoss ==
    ASSUME CountedDeployment, LossInv, NEW p \in Passes, StoreHandlesBatch(p)
    PROVE  HoldsInv' /\ Resolved \subseteq Resolved'
<1>1. HoldsInv /\ PassTypeOK /\ StoreTypeOK
  BY DEF LossInv, DrainTypeOK
<1>2. PICK r \in Replies :
          write(Batch(p), r) /\ reply' = [reply EXCEPT ![p] = r]
  BY DEF StoreHandlesBatch
<1>3. stored \subseteq stored'
  BY <1>1, <1>2, WriteType DEF PassTypeOK
<1>4. r = Ok => Batch(p) \subseteq stored'
  BY <1>2 DEF write, Ok, Reset, BadRow, Unlisted, Refused, NoTable, Code
<1>5. /\ UNCHANGED <<data, offset, up, pc, entries, next, dlq>>
      /\ reply'[p] = r /\ pc[p] = "batch"
  BY <1>1, <1>2 DEF StoreHandlesBatch, spoolVars, PassTypeOK
<1>6. ReadsInv(p) /\ ReachesInv(p) /\ up
  BY <1>1, <1>5 DEF HoldsInv
<1>7. Lines(offset)' = Lines(offset) /\ Batch(p)' = Batch(p)
  BY <1>5 DEF Lines, Batch
<1>8. ReadsInv(p)'
  BY <1>5, <1>6, <1>7 DEF ReadsInv
<1>9. ReachesInv(p)'
  BY <1>4, <1>5, <1>6, <1>7 DEF ReachesInv
<1>10. \A q \in Passes : q = p
  BY DEF CountedDeployment
<1> QED BY <1>3, <1>5, <1>6, <1>8, <1>9, <1>10 DEF HoldsInv, Resolved

\* The commit of a stored batch.
LEMMA BatchStoredLoss ==
    ASSUME CountedDeployment, LossInv, NEW p \in Passes, BatchStored(p)
    PROVE  PositionInv' /\ HoldsInv' /\ CountInv'
<1>1. HoldsInv /\ PassTypeOK
  BY DEF LossInv, DrainTypeOK
<1>2. /\ up /\ ReadsInv(p) /\ ReachesInv(p)
      /\ next[p] \in Nat /\ reply[p] = Ok
  BY <1>1 DEF BatchStored, HoldsInv, PassTypeOK
<1>3. /\ commit(next[p], Cardinality(DOMAIN entries[p]))
      /\ UNCHANGED <<up, accepted, crashes, dlq, stored>>
  BY DEF BatchStored, storeVars
<1>4. \A i \in Lines(offset) : i <= next[p] => data[i] \in Resolved'
  <2> SUFFICES ASSUME NEW i \in Lines(offset), i <= next[p]
               PROVE  data[i] \in stored
    BY <1>3 DEF Resolved
  <2>1. i \in DOMAIN entries[p] /\ entries[p][i] = data[i]
    BY <1>2 DEF ReadsInv, ReachesInv
  <2> QED BY <1>2, <2>1 DEF ReachesInv, Batch
<1>5. Resolved \subseteq Resolved'
  BY <1>3 DEF Resolved
<1>6. offset < next[p] /\ next[p] <= Len(data) /\ data[next[p]] # Torn
  BY <1>2 DEF ReachesInv
<1>7. PositionInv' /\ CountInv'
  BY <1>2, <1>3, <1>4, <1>5, <1>6, CommitLoss
<1>8. \A q \in Passes : pc'[q] = "idle"
  BY <1>1 DEF CountedDeployment, BatchStored, Ends, PassTypeOK
<1> QED BY <1>7, <1>8 DEF HoldsInv

\* The re-read of a rejected batch is in order too.
LEMMA BatchRejectedLoss ==
    ASSUME CountedDeployment, LossInv, NEW p \in Passes, BatchRejected(p)
    PROVE  HoldsInv'
<1> DEFINE remaining == Cardinality(DOMAIN entries[p])
<1>1. HoldsInv /\ PassTypeOK /\ SpoolTypeOK
  BY DEF LossInv, DrainTypeOK
<1>2. \A q \in Passes : q = p
  BY DEF CountedDeployment
<1>3. CASE Ends(p, "nothing")
  BY <1>1, <1>2, <1>3 DEF HoldsInv, Ends, PassTypeOK
<1>4. CASE /\ FirstLines(remaining) # {}
           /\ pc' = [pc EXCEPT ![p] = "probe"]
           /\ entries' = [entries EXCEPT ![p] = BatchEntries(remaining)]
           /\ UNCHANGED <<outcome, result>>
  <2>1. up /\ remaining \in Nat
    BY <1>1, FS_CardinalityType DEF BatchRejected, HoldsInv, PassTypeOK
  <2>2. /\ pc'[p] = "probe"
        /\ entries'[p] = [i \in FirstLines(remaining) |-> data[i]]
        /\ UNCHANGED <<data, offset, up, stored, outcome>>
    BY <1>1, <1>4 DEF BatchRejected, PassTypeOK, BatchEntries, spoolVars, storeVars
  <2>3. DOMAIN outcome[p] = {}
    BY <1>1 DEF BatchRejected, PassTypeOK
  <2>4. Lines(offset)' = Lines(offset)
    BY <2>2 DEF Lines
  <2>5. /\ FirstLines(remaining) \subseteq Lines(offset)
        /\ \A i \in FirstLines(remaining), k \in Lines(offset) :
              k <= i => k \in FirstLines(remaining)
    BY <1>1, <2>1, FirstLinesInOrder
  <2>6. ReadsInv(p)'
    BY <1>4, <2>2, <2>4, <2>5 DEF ReadsInv
  <2>7. SeenInv(p)'
    BY <2>2, <2>3 DEF SeenInv
  <2> QED BY <1>2, <2>1, <2>2, <2>6, <2>7 DEF HoldsInv
<1> QED BY <1>3, <1>4 DEF BatchRejected

\* An event whose insert answered Ok is stored.
LEMMA ProbeLoss ==
    ASSUME CountedDeployment, LossInv, NEW p \in Passes, Probe(p)
    PROVE  HoldsInv' /\ Resolved \subseteq Resolved'
<1>1. HoldsInv /\ PassTypeOK /\ StoreTypeOK
  BY DEF LossInv, DrainTypeOK
<1>2. PICK i \in Untried(p), r \in Replies :
          /\ write({entries[p][i]}, r)
          /\ outcome' = [outcome EXCEPT ![p] =
                [k \in DOMAIN outcome[p] \cup {i} |->
                    IF k = i THEN r ELSE outcome[p][k]]]
  BY DEF Probe
<1>3. i \in DOMAIN entries[p] /\ entries[p][i] \in Events
  BY <1>1 DEF Untried, PassTypeOK, Batch
<1>4. stored \subseteq stored'
  BY <1>1, <1>2, <1>3, WriteType
<1>5. r = Ok => entries[p][i] \in stored'
  BY <1>2 DEF write, Ok, Reset, BadRow, Unlisted, Refused, NoTable, Code
<1>6. /\ UNCHANGED <<data, offset, up, pc, entries, next, reply, dlq>>
      /\ pc[p] = "probe"
      /\ outcome'[p] = [k \in DOMAIN outcome[p] \cup {i} |->
                            IF k = i THEN r ELSE outcome[p][k]]
  BY <1>1, <1>2 DEF Probe, spoolVars, PassTypeOK
<1>7. ReadsInv(p) /\ SeenInv(p) /\ up
  BY <1>1, <1>6 DEF HoldsInv
<1>8. \A k \in DOMAIN outcome'[p] : outcome'[p][k] = Ok => entries[p][k] \in stored'
  BY <1>4, <1>5, <1>6, <1>7 DEF SeenInv
<1>9. SeenInv(p)'
  BY <1>6, <1>8 DEF SeenInv
<1>10. ReadsInv(p)'
  <2>1. Lines(offset)' = Lines(offset)
    BY <1>6 DEF Lines
  <2> QED BY <1>6, <1>7, <2>1 DEF ReadsInv
<1>11. \A q \in Passes : q = p
  BY DEF CountedDeployment
<1> QED BY <1>4, <1>6, <1>7, <1>9, <1>10, <1>11 DEF HoldsInv, Resolved

\* Phase 2 commits up to the last settled entry.
LEMMA SettleLoss ==
    ASSUME CountedDeployment, LossInv, DrainTypeOK', NEW p \in Passes, Settle(p)
    PROVE  PositionInv' /\ HoldsInv' /\ CountInv'
<1>1. HoldsInv /\ PassTypeOK
  BY DEF LossInv, DrainTypeOK
<1>2. /\ dlq' = dlq \cup {entries[p][i] : i \in Dead(p)}
      /\ UNCHANGED <<up, accepted, crashes, stored>>
      /\ pc[p] = "probe" /\ Untried(p) = {}
  BY DEF Settle, storeVars
<1>3. Resolved \subseteq Resolved' /\ up
  BY <1>1, <1>2 DEF Resolved, HoldsInv
<1>4. \A q \in Passes : pc'[q] = "idle"
  BY <1>1 DEF CountedDeployment, Settle, Ends, PassTypeOK
<1>5. ASSUME UNCHANGED <<data, offsetFile, size, offset, pending>>
      PROVE  PositionInv' /\ CountInv'
  <2>1. UNCHANGED <<data, offsetFile, up, size, offset, accepted, crashes>>
    BY <1>2, <1>5
  <2> QED BY <1>3, <2>1, LossFrame
<1>6. ASSUME NEW last \in Settled(p),
             commit(last, Cardinality({i \in Settled(p) : i > offset}))
      PROVE  PositionInv' /\ CountInv'
  <2>1. /\ last \in Nat /\ offset < last /\ last <= Len(data)
        /\ data[last] # Torn
        /\ \A i \in Lines(offset) : i <= last =>
              /\ i \in Settled(p) /\ entries[p][i] = data[i]
              /\ i \notin Dead(p) => data[i] \in stored
    BY <1>2, SettledLines
  <2>2. \A i \in Lines(offset) : i <= last => data[i] \in Resolved'
    BY <1>2, <2>1 DEF Resolved
  <2> QED BY <1>2, <1>3, <1>6, <2>1, <2>2, CommitLoss
<1>7. PositionInv' /\ CountInv'
  BY <1>5, <1>6 DEF Settle
<1> QED BY <1>4, <1>7 DEF HoldsInv

\* A pass that fails as a whole ends.
LEMMA FailedPassLoss ==
    ASSUME CountedDeployment, LossInv, NEW p \in Passes,
           BatchUnavailable(p) \/ SharedFailure(p)
    PROVE  HoldsInv'
<1>1. Ends(p, "failed") /\ PassTypeOK
  BY DEF BatchUnavailable, SharedFailure, LossInv, DrainTypeOK
<1>2. \A q \in Passes : pc'[q] = "idle"
  BY <1>1 DEF CountedDeployment, Ends, PassTypeOK
<1> QED BY <1>2 DEF HoldsInv

-----------------------------------------------------------------------------
(* The bound *)

\* Every step of the drainer preserves LossInv.
LEMMA LossStep ==
    ASSUME CountedDeployment, LossInv, [TimerNext]_drainVars
    PROVE  LossInv'
<1>1. DrainTypeOK'
  BY DrainTypeStep DEF LossInv
<1>2. ASSUME Resolved \subseteq Resolved', HoldsInv',
             UNCHANGED <<data, offsetFile, up, size, offset, accepted, crashes>>
      PROVE  LossInv'
  BY <1>1, <1>2, LossFrame DEF LossInv
<1>3. ASSUME UNCHANGED <<data, offsetFile, dlq, up, size, offset, accepted,
                         crashes, pc, entries, next, reply, outcome, stored>>
      PROVE  LossInv'
  <2>1. HoldsInv'
    BY <1>3, HoldsFrame DEF LossInv
  <2>2. Resolved \subseteq Resolved'
    BY <1>3 DEF Resolved
  <2> QED BY <1>2, <1>3, <2>1, <2>2
<1>4. CASE Receive
  <2>1. PICK e \in Events : append(e)
    BY <1>4 DEF Receive
  <2>2. UNCHANGED <<passVars, storeVars>>
    BY <1>4 DEF Receive
  <2>3. Resolved' = Resolved
    BY <2>1, <2>2 DEF append, storeVars, Resolved
  <2>4. PositionInv' /\ HoldsInv' /\ CountInv'
    BY <2>1, <2>2, <2>3, AppendCount, AppendHolds, AppendRotates
  <2> QED BY <1>1, <2>4 DEF LossInv
<1>5. CASE ReadStats
  BY <1>3, <1>5 DEF ReadStats, stats, passVars, storeVars
<1>6. CASE Reboot
  BY <1>1, <1>6, RestartLoss DEF Reboot, LossInv
<1>7. CASE Crash
  BY <1>1, <1>7, CrashLoss DEF LossInv
<1>8. CASE StoreChanges
  BY <1>3, <1>8 DEF StoreChanges, spoolVars, passVars
<1>9. ASSUME NEW d \in Drainers, BackoffOver(d) PROVE LossInv'
  BY <1>3, <1>9 DEF BackoffOver, spoolVars, passVars, storeVars
<1>10. ASSUME NEW p \in Passes, Tick(p) \/ PassStep(p) PROVE LossInv'
  <2>1. CASE BeginPass(p)
    <3>1. HoldsInv'
      BY <2>1, BeginLoss
    <3> QED BY <1>2, <2>1, <3>1 DEF BeginPass, spoolVars, storeVars, Resolved
  <2>2. CASE EmptyPass(p)
    BY <1>3, <2>2 DEF EmptyPass, spoolVars, storeVars
  <2>3. CASE StoreHandlesBatch(p)
    BY <1>2, <2>3, StoreHandlesBatchLoss DEF StoreHandlesBatch, spoolVars
  <2>4. CASE BatchStored(p)
    BY <1>1, <2>4, BatchStoredLoss DEF LossInv
  <2>5. CASE BatchUnavailable(p) \/ SharedFailure(p)
    <3>1. HoldsInv'
      BY <2>5, FailedPassLoss
    <3>2. UNCHANGED <<spoolVars, storeVars>>
      BY <2>5 DEF BatchUnavailable, SharedFailure
    <3> QED BY <1>2, <3>1, <3>2 DEF spoolVars, storeVars, Resolved
  <2>6. CASE BatchRejected(p)
    <3>1. HoldsInv'
      BY <2>6, BatchRejectedLoss
    <3> QED BY <1>2, <2>6, <3>1
            DEF BatchRejected, spoolVars, storeVars, Resolved
  <2>7. CASE Probe(p)
    BY <1>2, <2>7, ProbeLoss DEF Probe, spoolVars
  <2>8. CASE Settle(p)
    BY <1>1, <2>8, SettleLoss DEF LossInv
  <2> QED BY <1>10, <2>1, <2>2, <2>3, <2>4, <2>5, <2>6, <2>7, <2>8
          DEF Tick, PassStep
<1>11. CASE UNCHANGED drainVars
  BY <1>3, <1>11 DEF drainVars, spoolVars, passVars, storeVars
<1> QED BY <1>4, <1>5, <1>6, <1>7, <1>8, <1>9, <1>10, <1>11 DEF TimerNext

\* So does every step of the jobs.
LEMMA JobLossStep ==
    ASSUME CountedDeployment, LossInv, [Next]_vars
    PROVE  LossInv'
<1>1. ASSUME NEW p \in Passes, StartJob(p) PROVE LossInv'
  <2>1. DrainTypeOK'
    BY <1>1, StartJobType DEF LossInv
  <2>2. UNCHANGED <<data, offsetFile, dlq, up, size, offset, accepted, crashes,
                    pc, entries, next, reply, outcome, stored>>
    BY <1>1 DEF StartJob, spoolVars, storeVars
  <2>3. HoldsInv'
    BY <2>2, HoldsFrame DEF LossInv
  <2>4. Resolved \subseteq Resolved'
    BY <2>2 DEF Resolved
  <2>5. PositionInv' /\ CountInv'
    BY <2>1, <2>2, <2>4, LossFrame
  <2> QED BY <2>1, <2>3, <2>5 DEF LossInv
<1> QED BY <1>1, JobStepIsDrainerStep, LossStep

\* At the start nothing is accepted and nothing has died.
LEMMA LossInit == DrainInit => LossInv
<1> SUFFICES ASSUME DrainInit PROVE LossInv
  OBVIOUS
<1>1. data = <<>> /\ Len(data) = 0 /\ up /\ size = 0 /\ offset = 0
      /\ offsetFile = 0 /\ accepted = {} /\ crashes = 0
  BY EmptyFile DEF DrainInit, SpoolInit
<1>2. ReadPosition = 0
  BY <1>1 DEF ReadPosition
<1>3. PositionInv
  BY <1>1, <1>2 DEF PositionInv
<1>4. HoldsInv
  BY DEF DrainInit, HoldsInv
<1>5. Lost = {} /\ Unpaid = 0
  BY <1>1 DEF Lost, Unpaid, EndsTorn
<1>6. CountInv
  BY <1>1, <1>5, FS_EmptySet DEF CountInv
<1> QED BY <1>3, <1>4, <1>6, DrainTypeInit DEF LossInv

\* The inductive invariant implies the bound.
LEMMA LossInvSuffices == LossInv => LossBoundedByCrashes
<1> SUFFICES ASSUME LossInv PROVE LossBoundedByCrashes
  OBVIOUS
<1>1. IsFiniteSet(Lost) /\ Cardinality(Lost) + Unpaid <= crashes
  BY DEF LossInv, CountInv
<1>2. Cardinality(Lost) \in Nat /\ Unpaid \in Nat /\ crashes \in Nat
  BY <1>1, FS_CardinalityType, UnpaidType DEF LossInv, DrainTypeOK, SpoolTypeOK
<1>3. Cardinality(Lost) <= crashes
  BY <1>1, <1>2
<1> QED BY <1>3 DEF LossBoundedByCrashes, Lost

\* With one drain job at a time, a crash costs at most one accepted event,
\* wherever it strikes (spool.ts:32-33): any number of crashes, inside writes,
\* commits and phase 2, or a single one that may also hit a rotation; whatever
\* the files, the batches, the outages and the rejections.
THEOREM CrashesLoseOneEach ==
    ASSUME CountedDeployment
    PROVE  Spec => []LossBoundedByCrashes
<1>1. Init => LossInv
  BY LossInit DEF Init
<1>2. LossInv /\ [Next]_vars => LossInv'
  BY JobLossStep
<1>3. LossInv => LossBoundedByCrashes
  BY LossInvSuffices
<1> QED BY <1>1, <1>2, <1>3, PTL DEF Spec

\* The same for the timer while its ticks do not overlap.
THEOREM TimerLosesOnePerCrash ==
    ASSUME CountedDeployment
    PROVE  TimerSpec => []LossBoundedByCrashes
<1>1. DrainInit => LossInv
  BY LossInit
<1>2. LossInv /\ [TimerNext]_drainVars => LossInv'
  BY LossStep
<1>3. LossInv => LossBoundedByCrashes
  BY LossInvSuffices
<1> QED BY <1>1, <1>2, <1>3, PTL DEF TimerSpec

=============================================================================
