--------------------------- MODULE ChatTurnProofs ---------------------------
(***************************************************************************)
(* Proofs about ChatTurn for any number of overlapping turns, any policies *)
(* of tenants, thresholds, rounds and faults: its types, the circuit of    *)
(* Laya, and what a turn may answer, store and spend.                      *)
(***************************************************************************)
EXTENDS ChatTurn, TLAPS

-----------------------------------------------------------------------------
(* The inductive invariant *)

PastGate == {"gated", "audited", "stored", "logged", "answered"}

Suspicious(r) ==
    r.gate = "strict" /\ r.reply # "abstention" /\ r.verdicts \cap Doubtful # {}

\* The loop spends what its route allows, and every turn beyond the gate that is
\* not direct has called the model.
SpendInv(r) ==
    /\ r.stage \in {"idle", "planning", "consulting"} => r.llm = 0
    /\ r.stage = "running" =>
          /\ r.budget = Budget(r.route)
          /\ r.llm <= r.budget
          /\ r.route = "direct" => r.llm = 0
    /\ r.stage \in PastGate =>
          /\ r.llm <= Budget(r.route)
          /\ r.llm = 0 <=> r.route = "direct"

\* The gate decided on the verdicts the turn still has.
GateInv(r) ==
    /\ r.stage \in PastGate /\ r.gate = "strict" /\ r.policy = NoPolicy /\ "incomplete" \in r.verdicts
          => r.reply = "abstention"
    /\ r.stage = "gated" /\ Suspicious(r) => r.warned

\* Each row is there once its stage is passed, and none before.
RowInv(r) ==
    /\ "answer" \in r.rows => r.stage \in {"stored", "logged", "answered", "failed"}
    /\ r.stage \in {"stored", "logged"} => "answer" \in r.rows
    /\ r.stage = "logged" => "actions" \in r.rows
    /\ r.stage = "audited" \/ "answer" \in r.rows => (Suspicious(r) => "suspicion" \in r.rows)
    /\ "candidate" \in r.rows =>
          /\ r.stage = "answered"
          /\ r.reply # "abstention" /\ "incomplete" \notin r.verdicts /\ r.live
          /\ {"answer", "actions"} \subseteq r.rows

TurnInv(r) == SpendInv(r) /\ GateInv(r) /\ RowInv(r)

IInv == TypeOK /\ ProbesAreSpaced /\ \A t \in Followed : TurnInv(turn[t])

-----------------------------------------------------------------------------
(* Lemmas about the operators *)

LEMMA BudgetType ==
    ASSUME NEW route \in Routes
    PROVE  /\ Budget(route) \in 0 .. MaxIterations + 1
           /\ route = "direct" => Budget(route) = 0
           /\ route # "direct" => Budget(route) > 0
BY TurnAssumption DEF Budget, Routes

\* Whatever Laya said, the route that is planned is one.
LEMMA RoutePlanned ==
    ASSUME NEW adaptive \in Routes, NEW advice \in Decisions \cup {NoDecision}
    PROVE  PlannedRoute(adaptive, advice) \in Routes
<1>1. mergeRoutingDecision(adaptive, advice) \in Routes
  BY DEF mergeRoutingDecision, Routes
<1>2. Follows(advice) => advice.route \in Routes
  BY DEF Follows, Decisions, Routes
<1> QED BY <1>1, <1>2 DEF PlannedRoute

\* finalize() is the gate: what it makes of a turn of the loop is a turn beyond it.
LEMMA FinalizedHolds ==
    ASSUME NEW r \in Turn, NEW text \in {"answer", "limit"},
           r.llm <= Budget(r.route), r.llm = 0 <=> r.route = "direct",
           "answer" \notin r.rows, "candidate" \notin r.rows
    PROVE  Finalized(r, text) \in Turn /\ TurnInv(Finalized(r, text))
<1> DEFINE d == shouldAbstain(r.verdicts, r.gate, r.policy)
           f == Finalized(r, text)
<1>1. /\ f.stage = "gated" /\ f.warned = (d = "warn")
      /\ f.reply = IF d = "abstain" THEN "abstention" ELSE text
      /\ f.gate = r.gate /\ f.policy = r.policy /\ f.verdicts = r.verdicts
      /\ f.llm = r.llm /\ f.route = r.route /\ f.rows = r.rows
  BY DEF Finalized, Turn
<1>2. f \in Turn
  BY DEF Finalized, Turn, Stages
<1>3. r.gate = "strict" /\ r.policy = NoPolicy /\ "incomplete" \in r.verdicts => d = "abstain"
  BY DEF shouldAbstain
<1>4. r.gate = "strict" /\ d # "abstain" /\ r.verdicts \cap Doubtful # {} => d = "warn"
  BY DEF shouldAbstain
<1>5. SpendInv(f)
  BY <1>1 DEF SpendInv, PastGate
<1>6. GateInv(f)
  <2> HIDE DEF d, f
  <2>1. f.gate = "strict" /\ f.policy = NoPolicy /\ "incomplete" \in f.verdicts => f.reply = "abstention"
    BY <1>1, <1>3
  <2>2. Suspicious(f) => f.warned
    BY <1>1, <1>4 DEF Suspicious
  <2> QED BY <2>1, <2>2 DEF GateInv
<1>7. RowInv(f)
  BY <1>1 DEF RowInv
<1> QED BY <1>2, <1>5, <1>6, <1>7 DEF TurnInv

\* A step of one turn to a record that holds leaves every turn holding.
LEMMA OneTurn ==
    ASSUME turn \in [Followed -> Turn], \A t \in Followed : TurnInv(turn[t]),
           NEW t \in Followed, NEW r \in Turn, TurnInv(r), Becomes(t, r)
    PROVE  turn' \in [Followed -> Turn] /\ \A u \in Followed : TurnInv(turn'[u])
<1>1. turn' = [turn EXCEPT ![t] = r]
  BY DEF Becomes
<1>2. turn' \in [Followed -> Turn]
  BY <1>1
<1>3. \A u \in Followed : turn'[u] = IF u = t THEN r ELSE turn[u]
  BY <1>1
<1> QED BY <1>2, <1>3
-----------------------------------------------------------------------------
(* The circuit *)

LEMMA ConsultationKeepsCircuit ==
    ASSUME BreakerTypeOK, ProbesAreSpaced, NEW t \in Turns,
           Ask(t) \/ (AskNobody(t) \/ Fail(t))
                  \/ \E decision \in Decisions \cup {NoDecision} : Answer(t, decision)
    PROVE  BreakerTypeOK' /\ ProbesAreSpaced'
<1> USE BreakerAssumption
<1>1. \A decision \in Decisions \cup {NoDecision, Asked} :
        Learns(t, decision) => laya' \in [Turns -> Decisions \cup {NoDecision, Asked}]
  BY DEF Learns, BreakerTypeOK
<1>2. CASE Ask(t)
  <2>1. laya' \in [Turns -> Decisions \cup {NoDecision, Asked}]
    BY <1>1, <1>2 DEF Ask
  <2>2. /\ circuit' \in [status : {"closed", "open", "half-open"}, failures : 0 .. Threshold, age : 0 .. Reset]
        /\ ProbesAreSpaced'
    BY <1>2 DEF Ask, CanExecute, Probe, BreakerTypeOK, ProbesAreSpaced
  <2> QED BY <2>1, <2>2 DEF BreakerTypeOK
<1>3. CASE AskNobody(t)
  BY <1>1, <1>3 DEF AskNobody, BreakerTypeOK, ProbesAreSpaced
<1>4. CASE Fail(t)
  <2>1. laya' \in [Turns -> Decisions \cup {NoDecision, Asked}]
    BY <1>1, <1>4 DEF Fail
  <2>2. /\ circuit' \in [status : {"closed", "open", "half-open"}, failures : 0 .. Threshold, age : 0 .. Reset]
        /\ ProbesAreSpaced'
    BY <1>4 DEF Fail, BreakerTypeOK, ProbesAreSpaced
  <2> QED BY <2>1, <2>2 DEF BreakerTypeOK
<1>5. ASSUME NEW decision \in Decisions \cup {NoDecision}, Answer(t, decision)
      PROVE  BreakerTypeOK' /\ ProbesAreSpaced'
  <2>1. laya' \in [Turns -> Decisions \cup {NoDecision, Asked}]
    BY <1>1, <1>5 DEF Answer
  <2>2. /\ circuit' \in [status : {"closed", "open", "half-open"}, failures : 0 .. Threshold, age : 0 .. Reset]
        /\ ProbesAreSpaced'
    <3>1. 0 \in 0 .. Threshold /\ 0 < Threshold
      OBVIOUS
    <3>2. circuit' = [status |-> "closed", failures |-> 0, age |-> circuit.age]
      BY <1>5 DEF Answer, BreakerTypeOK
    <3> QED BY <3>1, <3>2 DEF BreakerTypeOK, ProbesAreSpaced
  <2> QED BY <2>1, <2>2 DEF BreakerTypeOK
<1> QED BY <1>2, <1>3, <1>4, <1>5

LEMMA ClockKeepsCircuit ==
    ASSUME BreakerTypeOK, ProbesAreSpaced, Tick
    PROVE  BreakerTypeOK' /\ ProbesAreSpaced'
BY BreakerAssumption DEF Tick, BreakerTypeOK, ProbesAreSpaced

LEMMA QuietCircuit ==
    ASSUME BreakerTypeOK, ProbesAreSpaced, UNCHANGED <<circuit, laya>>
    PROVE  BreakerTypeOK' /\ ProbesAreSpaced'
BY DEF BreakerTypeOK, ProbesAreSpaced

-----------------------------------------------------------------------------
(* Every step keeps the invariant *)

\* A step that changes one turn only.
LEMMA TurnAlone ==
    ASSUME IInv, NEW t \in Followed, NEW r \in Turn, TurnInv(r), TurnOnly(t, r)
    PROVE  IInv'
<1>1. BreakerTypeOK' /\ ProbesAreSpaced'
  BY QuietCircuit DEF IInv, TypeOK, TurnOnly
<1>2. turn' \in [Followed -> Turn] /\ \A u \in Followed : TurnInv(turn'[u])
  BY OneTurn DEF IInv, TypeOK, TurnOnly
<1>3. env' \in Env
  BY DEF IInv, TypeOK, TurnOnly
<1> QED BY <1>1, <1>2, <1>3 DEF IInv, TypeOK

\* A step of the circuit that changes one turn as well.
LEMMA TurnWithCircuit ==
    ASSUME IInv, NEW t \in Followed, NEW r \in Turn, TurnInv(r), Becomes(t, r),
           UNCHANGED env, BreakerTypeOK', ProbesAreSpaced'
    PROVE  IInv'
<1>1. turn' \in [Followed -> Turn] /\ \A u \in Followed : TurnInv(turn'[u])
  BY OneTurn DEF IInv, TypeOK
<1> QED BY <1>1 DEF IInv, TypeOK

\* A step of the circuit alone.
LEMMA CircuitAlone ==
    ASSUME IInv, UNCHANGED <<env, turn>>, BreakerTypeOK', ProbesAreSpaced'
    PROVE  IInv'
BY DEF IInv, TypeOK

LEMMA NoTurnHolds == NoTurn \in Turn /\ TurnInv(NoTurn)
<1>1. NoTurn \in Turn
  BY TurnAssumption DEF NoTurn, Turn, Stages, Routes, Rows
<1>2. SpendInv(NoTurn) /\ GateInv(NoTurn) /\ RowInv(NoTurn)
  BY DEF NoTurn, SpendInv, GateInv, RowInv, PastGate
<1> QED BY <1>1, <1>2 DEF TurnInv

LEMMA InitHolds == Init => IInv
<1> SUFFICES ASSUME Init PROVE IInv
  OBVIOUS
<1>1. BreakerTypeOK /\ ProbesAreSpaced
  BY BreakerAssumption DEF Init, BreakerInit, BreakerTypeOK, ProbesAreSpaced
<1>2. turn \in [Followed -> Turn] /\ \A t \in Followed : TurnInv(turn[t])
  BY NoTurnHolds DEF Init
<1> QED BY <1>1, <1>2 DEF Init, IInv, TypeOK

LEMMA BeginHolds ==
    ASSUME IInv, NEW t \in Followed, Begin(t)
    PROVE  IInv'
<1>1. PICK gate \in {"strict", "observe"}, policy \in Policies \cup {NoPolicy},
           live \in BOOLEAN, route \in Routes :
        TurnOnly(t, [NoTurn EXCEPT !.stage = "planning", !.gate = gate, !.policy = policy,
                                   !.live = live, !.route = route, !.rows = {"question"}])
  BY DEF Begin
<1> DEFINE r == [NoTurn EXCEPT !.stage = "planning", !.gate = gate, !.policy = policy,
                               !.live = live, !.route = route, !.rows = {"question"}]
<1>2. r \in Turn
  BY NoTurnHolds DEF Turn, Stages, Rows
<1>3. TurnInv(r)
  BY DEF NoTurn, TurnInv, SpendInv, GateInv, RowInv, PastGate
<1> QED BY <1>1, <1>2, <1>3, TurnAlone

LEMMA PlanHolds ==
    ASSUME IInv, NEW t \in Followed, Plans(t)
    PROVE  IInv'
<1> DEFINE r == turn[t]
<1>1. r \in Turn /\ TurnInv(r) /\ t \in Turns /\ BreakerTypeOK /\ ProbesAreSpaced
  BY TurnAssumption DEF IInv, TypeOK
<1>2. CASE Consult(t)
  <2> DEFINE s == [r EXCEPT !.stage = "consulting"]
  <2>1. s \in Turn
    BY <1>1 DEF Turn, Stages
  <2>2. TurnInv(s)
    BY <1>1, <1>2 DEF Consult, At, TurnInv, SpendInv, GateInv, RowInv, PastGate, Turn
  <2>3. BreakerTypeOK' /\ ProbesAreSpaced'
    BY <1>1, <1>2, ConsultationKeepsCircuit DEF Consult
  <2>4. Becomes(t, s) /\ UNCHANGED env
    BY <1>2 DEF Consult
  <2> QED BY <2>1, <2>2, <2>3, <2>4, TurnWithCircuit
<1>3. CASE Consulted(t)
  <2>1. BreakerTypeOK' /\ ProbesAreSpaced'
    BY <1>1, <1>3, ConsultationKeepsCircuit DEF Consulted
  <2> QED BY <1>3, <2>1, CircuitAlone DEF Consulted
<1>4. CASE PlanRoute(t)
  <2> DEFINE route == PlannedRoute(r.route, laya[t])
  <2>1. route \in Routes
    <3>1. CASE At(t, "planning") /\ ~Consults
      BY <1>1, <3>1 DEF Consults, PlannedRoute, Follows, Turn
    <3>2. CASE At(t, "consulting") /\ laya[t] # Asked
      <4>1. laya[t] \in Decisions \cup {NoDecision}
        BY <1>1, <3>2 DEF BreakerTypeOK
      <4> QED BY <1>1, <4>1, RoutePlanned DEF Turn
    <3> QED BY <1>4, <3>1, <3>2 DEF PlanRoute, ConsultationEnded
  <2> HIDE DEF route
  <2>2. r.llm = 0 /\ "answer" \notin r.rows /\ "candidate" \notin r.rows
    BY <1>1, <1>4 DEF PlanRoute, ConsultationEnded, At, TurnInv, SpendInv, RowInv
  <2>3. Plan(t, route) \in Turn
    BY <1>1, <2>1, BudgetType DEF Plan, Turn, Stages
  <2>4. TurnInv(Plan(t, route))
    <3>1. /\ Plan(t, route).stage = "running" /\ Plan(t, route).route = route
          /\ Plan(t, route).budget = Budget(route) /\ Plan(t, route).llm = 0
          /\ Plan(t, route).rows = r.rows
      BY <1>1, <2>2 DEF Plan, Turn
    <3>2. SpendInv(Plan(t, route))
      BY <3>1, <2>1, BudgetType DEF SpendInv, PastGate
    <3>3. GateInv(Plan(t, route)) /\ RowInv(Plan(t, route))
      BY <3>1, <2>2 DEF GateInv, RowInv, PastGate
    <3> QED BY <3>2, <3>3 DEF TurnInv
  <2>5. Becomes(t, Plan(t, route)) /\ UNCHANGED env
    BY <1>4 DEF PlanRoute, route
  <2>6. BreakerTypeOK' /\ ProbesAreSpaced'
    BY <1>1, <1>4 DEF PlanRoute, Learns, BreakerTypeOK, ProbesAreSpaced
  <2> QED BY <2>3, <2>4, <2>5, <2>6, TurnWithCircuit
<1>5. CASE FailClosed(t)
  <2> DEFINE s == [r EXCEPT !.stage = "failed"]
  <2>1. s \in Turn
    BY <1>1 DEF Turn, Stages
  <2>2. TurnInv(s)
    BY <1>1, <1>5 DEF FailClosed, ConsultationEnded, At, TurnInv, SpendInv, GateInv, RowInv, PastGate, Turn
  <2> QED BY <1>5, <2>1, <2>2, TurnAlone DEF FailClosed
<1> QED BY <1>2, <1>3, <1>4, <1>5 DEF Plans

LEMMA RunHolds ==
    ASSUME IInv, NEW t \in Followed, Runs(t)
    PROVE  IInv'
<1> DEFINE r == turn[t]
           called == [r EXCEPT !.llm = @ + 1]
<1>1. r \in Turn /\ TurnInv(r)
  BY DEF IInv, TypeOK
<1>2. At(t, "running")
  BY DEF Runs, DirectTool, LlmAnswers, LlmCallsTools, LimitReached, LlmFails, Asks, Loops
<1>3. /\ r.stage = "running" /\ r.budget = Budget(r.route) /\ r.llm <= r.budget
      /\ r.route = "direct" => r.llm = 0
      /\ "answer" \notin r.rows /\ "candidate" \notin r.rows
      /\ r.llm \in Nat /\ r.route \in Routes /\ Budget(r.route) \in Nat
      /\ r.verdicts \in SUBSET Codes
  BY <1>1, <1>2, BudgetType DEF At, TurnInv, SpendInv, RowInv, Turn
\* A call of the model that the budget still has.
<1>4. ASSUME Asks(t)
      PROVE  /\ called \in Turn /\ called.stage = "running" /\ called.llm = r.llm + 1
             /\ called.llm <= Budget(r.route) /\ r.route # "direct" /\ called.llm # 0
             /\ called.route = r.route /\ called.budget = r.budget /\ called.rows = r.rows
             /\ OneMore(t) = called
  <2>1. r.llm + 1 \in 0 .. MaxIterations + 1
    BY <1>1, <1>3, <1>4, BudgetType, TurnAssumption DEF Asks, Turn
  <2> QED BY <1>1, <1>3, <1>4, <2>1 DEF Asks, Loops, OneMore, Turn
<1> HIDE DEF called
<1>5. CASE DirectTool(t)
  <2>1. PICK code \in Codes : TurnOnly(t, Finalized([r EXCEPT !.verdicts = {code}], "answer"))
    BY <1>5 DEF DirectTool
  <2> DEFINE s == [r EXCEPT !.verdicts = {code}]
  <2>2. /\ s \in Turn /\ s.llm <= Budget(s.route) /\ (s.llm = 0 <=> s.route = "direct")
        /\ "answer" \notin s.rows /\ "candidate" \notin s.rows
    BY <1>1, <1>3, <1>5 DEF DirectTool, Turn
  <2> HIDE DEF s
  <2>3. Finalized(s, "answer") \in Turn /\ TurnInv(Finalized(s, "answer"))
    BY <2>2, FinalizedHolds
  <2> QED BY <2>1, <2>3, TurnAlone DEF s
<1>6. CASE LlmAnswers(t)
  <2>1. Asks(t) /\ TurnOnly(t, Finalized(OneMore(t), "answer"))
    BY <1>6 DEF LlmAnswers
  <2>2. /\ OneMore(t) \in Turn /\ OneMore(t).llm <= Budget(OneMore(t).route)
        /\ (OneMore(t).llm = 0 <=> OneMore(t).route = "direct")
        /\ "answer" \notin OneMore(t).rows /\ "candidate" \notin OneMore(t).rows
    <3>1. OneMore(t).route = r.route /\ Budget(OneMore(t).route) = Budget(r.route)
      BY <1>4, <2>1
    <3> QED BY <1>3, <1>4, <2>1, <3>1
  <2>3. Finalized(OneMore(t), "answer") \in Turn /\ TurnInv(Finalized(OneMore(t), "answer"))
    BY <2>2, FinalizedHolds
  <2> QED BY <2>1, <2>3, TurnAlone
<1>7. CASE LlmCallsTools(t)
  <2>1. PICK codes \in SUBSET Codes : TurnOnly(t, [OneMore(t) EXCEPT !.verdicts = @ \cup codes])
    BY <1>7 DEF LlmCallsTools
  <2>2. Asks(t)
    BY <1>7 DEF LlmCallsTools
  <2> DEFINE s == [OneMore(t) EXCEPT !.verdicts = @ \cup codes]
  <2>3. s \in Turn
    BY <1>4, <2>2 DEF Turn
  <2>4. /\ s.stage = "running" /\ s.budget = Budget(s.route) /\ s.llm <= s.budget
        /\ s.route # "direct" /\ s.rows = r.rows
    BY <1>3, <1>4, <2>2 DEF Turn
  <2>5. TurnInv(s)
    BY <1>3, <2>4 DEF TurnInv, SpendInv, GateInv, RowInv, PastGate
  <2> QED BY <2>1, <2>3, <2>5, TurnAlone
<1>8. CASE LimitReached(t)
  <2>1. /\ TurnOnly(t, Finalized(r, "limit"))
        /\ r.route # "direct" /\ r.llm = r.budget
    BY <1>8 DEF LimitReached, Loops
  <2>2. r.llm # 0 /\ r.llm <= Budget(r.route)
    BY <1>3, <2>1, BudgetType
  <2>3. Finalized(r, "limit") \in Turn /\ TurnInv(Finalized(r, "limit"))
    BY <1>1, <1>3, <2>1, <2>2, FinalizedHolds
  <2> QED BY <2>1, <2>3, TurnAlone
<1>9. CASE LlmFails(t)
  <2>1. Asks(t) /\ TurnOnly(t, [OneMore(t) EXCEPT !.stage = "failed"])
    BY <1>9 DEF LlmFails
  <2> DEFINE s == [OneMore(t) EXCEPT !.stage = "failed"]
  <2>2. s \in Turn /\ s.stage = "failed" /\ s.rows = r.rows
    BY <1>4, <2>1 DEF Turn, Stages
  <2>3. TurnInv(s)
    BY <1>3, <2>2 DEF TurnInv, SpendInv, GateInv, RowInv, PastGate
  <2> QED BY <2>1, <2>2, <2>3, TurnAlone
<1> QED BY <1>5, <1>6, <1>7, <1>8, <1>9 DEF Runs

\* A write of rows that leaves everything else as it is.
LEMMA WriteHolds ==
    ASSUME IInv, NEW t \in Followed, NEW from, NEW to \in Stages, NEW rows \in SUBSET Rows,
           Writes(t, from, to, rows),
           TurnInv([turn[t] EXCEPT !.stage = to, !.rows = @ \cup rows])
    PROVE  IInv'
<1>1. [turn[t] EXCEPT !.stage = to, !.rows = @ \cup rows] \in Turn
  BY DEF IInv, TypeOK, Turn
<1> QED BY <1>1, TurnAlone DEF Writes

LEMMA StoreHolds ==
    ASSUME IInv, NEW t \in Followed, Stores(t)
    PROVE  IInv'
<1> DEFINE r == turn[t]
           w(to, rows) == [r EXCEPT !.stage = to, !.rows = @ \cup rows]
<1>1. r \in Turn /\ TurnInv(r)
  BY DEF IInv, TypeOK
<1>2. ASSUME NEW to, NEW rows
      PROVE  /\ w(to, rows).stage = to /\ w(to, rows).rows = r.rows \cup rows
             /\ w(to, rows).gate = r.gate /\ w(to, rows).policy = r.policy
             /\ w(to, rows).reply = r.reply /\ w(to, rows).verdicts = r.verdicts
             /\ w(to, rows).llm = r.llm /\ w(to, rows).route = r.route
             /\ w(to, rows).live = r.live /\ w(to, rows).warned = r.warned
             /\ Suspicious(w(to, rows)) <=> Suspicious(r)
  BY <1>1 DEF Turn, Suspicious
<1> HIDE DEF w
\* Within the writes, what the loop spent and what the gate decided stays.
<1>3. ASSUME NEW to \in {"audited", "stored", "logged", "answered", "failed"}, NEW rows,
             r.stage \in {"gated", "audited", "stored", "logged"}
      PROVE  SpendInv(w(to, rows)) /\ GateInv(w(to, rows))
  <2>1. r.llm <= Budget(r.route) /\ (r.llm = 0 <=> r.route = "direct")
    BY <1>1, <1>3 DEF TurnInv, SpendInv, PastGate
  <2>2. r.gate = "strict" /\ r.policy = NoPolicy /\ "incomplete" \in r.verdicts => r.reply = "abstention"
    BY <1>1, <1>3 DEF TurnInv, GateInv, PastGate
  <2>3. Budget(w(to, rows).route) = Budget(r.route)
    BY <1>2
  <2>4. SpendInv(w(to, rows))
    BY <1>2, <1>3, <2>1, <2>3 DEF SpendInv, PastGate
  <2>5. GateInv(w(to, rows))
    BY <1>2, <1>3, <2>2 DEF GateInv, PastGate
  <2> QED BY <2>4, <2>5
<1>4. CASE AuditWarning(t)
  <2> DEFINE rows == IF r.warned THEN {"suspicion"} ELSE {}
  <2>1. Writes(t, "gated", "audited", rows) /\ r.stage = "gated"
    BY <1>4 DEF AuditWarning, Writes, At
  <2>2. RowInv(w("audited", rows))
    BY <1>1, <1>2, <2>1 DEF TurnInv, RowInv, GateInv
  <2>3. TurnInv(w("audited", rows))
    BY <1>3, <2>1, <2>2 DEF TurnInv
  <2>4. rows \in SUBSET Rows /\ "audited" \in Stages
    BY DEF Rows, Stages
  <2> QED BY <2>1, <2>3, <2>4, WriteHolds DEF w
<1>5. CASE StoreMessage(t)
  <2>1. Writes(t, "audited", "stored", {"answer"}) /\ r.stage = "audited"
    BY <1>5 DEF StoreMessage, Writes, At
  <2>2. RowInv(w("stored", {"answer"}))
    BY <1>1, <1>2, <2>1 DEF TurnInv, RowInv
  <2>3. TurnInv(w("stored", {"answer"}))
    BY <1>3, <2>1, <2>2 DEF TurnInv
  <2>4. {"answer"} \in SUBSET Rows /\ "stored" \in Stages
    BY DEF Rows, Stages
  <2> QED BY <2>1, <2>3, <2>4, WriteHolds DEF w
<1>6. CASE StoreLogs(t)
  <2>1. PICK rows \in {{"actions", "verdicts"}, {"actions"}} : Writes(t, "stored", "logged", rows)
    BY <1>6 DEF StoreLogs
  <2>2. r.stage = "stored" /\ "actions" \in rows /\ "answer" \notin rows /\ "candidate" \notin rows
    BY <2>1 DEF Writes, At
  <2>3. RowInv(w("logged", rows))
    BY <1>1, <1>2, <2>2 DEF TurnInv, RowInv
  <2>4. TurnInv(w("logged", rows))
    BY <1>3, <2>2, <2>3 DEF TurnInv
  <2>5. rows \in SUBSET Rows /\ "logged" \in Stages
    BY DEF Rows, Stages
  <2> QED BY <2>1, <2>4, <2>5, WriteHolds DEF w
<1>7. CASE Reply(t)
  <2> DEFINE rows == IF shouldWriteCandidate(t) THEN {"candidate"} ELSE {}
  <2>1. Writes(t, "logged", "answered", rows) /\ r.stage = "logged"
    BY <1>7 DEF Reply, Writes, At
  <2>2. RowInv(w("answered", rows))
    BY <1>1, <1>2, <2>1 DEF TurnInv, RowInv, shouldWriteCandidate
  <2>3. TurnInv(w("answered", rows))
    BY <1>3, <2>1, <2>2 DEF TurnInv
  <2>4. rows \in SUBSET Rows /\ "answered" \in Stages
    BY DEF Rows, Stages
  <2> QED BY <2>1, <2>3, <2>4, WriteHolds DEF w
<1>8. CASE WriteFails(t)
  <2>1. PICK from \in {"gated", "audited", "stored", "logged"} : Writes(t, from, "failed", {})
    BY <1>8 DEF WriteFails
  <2>2. r.stage = from
    BY <2>1 DEF Writes, At
  <2>3. RowInv(w("failed", {}))
    BY <1>1, <1>2, <2>2 DEF TurnInv, RowInv
  <2>4. TurnInv(w("failed", {}))
    BY <1>3, <2>2, <2>3 DEF TurnInv
  <2>5. {} \in SUBSET Rows /\ "failed" \in Stages
    BY DEF Stages
  <2> QED BY <2>1, <2>4, <2>5, WriteHolds DEF w
<1> QED BY <1>4, <1>5, <1>6, <1>7, <1>8 DEF Stores

LEMMA StepHolds == IInv /\ [Next]_vars => IInv'
<1> SUFFICES ASSUME IInv, [Next]_vars PROVE IInv'
  OBVIOUS
<1>1. BreakerTypeOK /\ ProbesAreSpaced
  BY DEF IInv, TypeOK
<1>2. ASSUME NEW t \in Followed,
             Begin(t) \/ Plans(t) \/ Runs(t) \/ Stores(t) \/ NextRequest(t)
      PROVE  IInv'
  <2>1. CASE NextRequest(t)
    BY <2>1, NoTurnHolds, TurnAlone DEF NextRequest
  <2> QED BY <1>2, <2>1, BeginHolds, PlanHolds, RunHolds, StoreHolds
<1>3. ASSUME NEW t \in Turns \ Followed, Elsewhere(t)
      PROVE  IInv'
  <2>1. BreakerTypeOK' /\ ProbesAreSpaced'
    BY <1>1, <1>3, ConsultationKeepsCircuit DEF Elsewhere
  <2> QED BY <1>3, <2>1, CircuitAlone DEF Elsewhere
<1>4. ASSUME Tick, UNCHANGED <<env, turn>>
      PROVE  IInv'
  BY <1>1, <1>4, ClockKeepsCircuit, CircuitAlone
<1>5. CASE UNCHANGED vars
  BY <1>1, <1>5, QuietCircuit, CircuitAlone DEF vars
<1> QED BY <1>2, <1>3, <1>4, <1>5 DEF Next

LEMMA Invariant == Spec => []IInv
BY InitHolds, StepHolds, PTL DEF Spec

-----------------------------------------------------------------------------
(* Theorems *)

\* The circuit, the calls of the classifier and every turn keep their types.
THEOREM TypeCorrect == Spec => []TypeOK
<1>1. IInv => TypeOK
  BY DEF IInv
<1> QED BY <1>1, Invariant, PTL

\* However the answers and failures of overlapping calls are ordered, the circuit is
\* closed exactly below its threshold, and half-open only a whole timeout after the last
\* failure (laya-client.ts:166-199).
THEOREM CircuitIsProbedInTime == Spec => []ProbesAreSpaced
<1>1. IInv => ProbesAreSpaced
  BY DEF IInv
<1> QED BY <1>1, Invariant, PTL

\* Without an override of the tenant a strict gate lets no text pass that rests on an
\* incomplete result, whichever exit of the loop it comes from (abstention-policy.ts:79).
THEOREM IncompleteIsNeverAnswered == Spec => []IncompleteNeverAnswered
<1>1. IInv => IncompleteNeverAnswered
  BY DEF IInv, TurnInv, GateInv, IncompleteNeverAnswered, Gated, PastGate
<1> QED BY <1>1, Invariant, PTL

\* What the chat proposes for the knowledge base was stored as an answer, is no
\* abstention and rests on no incomplete result (chat/route.ts:465).
THEOREM CandidatesAreClean == Spec => []CandidateIsClean
<1>1. IInv => CandidateIsClean
  BY DEF IInv, TurnInv, RowInv, CandidateIsClean
<1> QED BY <1>1, Invariant, PTL

\* A doubtful answer is stored only after its suspicion, whatever write fails
\* (chat/route.ts:335).
THEOREM SuspicionIsFirst == Spec => []SuspicionComesFirst
<1>1. IInv => SuspicionComesFirst
  BY DEF IInv, TurnInv, RowInv, Suspicious, SuspicionComesFirst
<1> QED BY <1>1, Invariant, PTL

\* The calls of the model are those the final route has a budget for (runtime.ts:337).
THEOREM BudgetIsKept == Spec => []BudgetKept
<1>1. IInv => BudgetKept
  BY DEF IInv, TurnInv, SpendInv, BudgetKept, Gated, PastGate
<1> QED BY <1>1, Invariant, PTL

\* A step leaves each turn as it is or is a step of that turn.
LEMMA WhoseStep ==
    ASSUME TypeOK, [Next]_vars, NEW t \in Followed, turn'[t] # turn[t]
    PROVE  Begin(t) \/ Consult(t) \/ PlanRoute(t) \/ FailClosed(t) \/ Runs(t) \/ Stores(t) \/ NextRequest(t)
<1>1. turn \in [Followed -> Turn] /\ turn' # turn
  BY DEF TypeOK
<1>2. \A u \in Followed : \A r : Becomes(u, r) => u = t
  BY <1>1 DEF Becomes
<1>3. PICK u \in Followed : Begin(u) \/ Plans(u) \/ Runs(u) \/ Stores(u) \/ NextRequest(u)
  BY <1>1 DEF Next, Elsewhere, vars
<1>4. \E r : Becomes(u, r)
  <2>1. CASE Begin(u)
    BY <2>1 DEF Begin, TurnOnly
  <2>2. CASE Plans(u)
    BY <1>1, <2>2 DEF Plans, Consult, Consulted, PlanRoute, FailClosed, TurnOnly
  <2>3. CASE Runs(u)
    BY <2>3 DEF Runs, DirectTool, LlmAnswers, LlmCallsTools, LimitReached, LlmFails, TurnOnly
  <2>4. CASE Stores(u)
    BY <2>4 DEF Stores, AuditWarning, StoreMessage, StoreLogs, Reply, WriteFails, Writes, TurnOnly
  <2>5. CASE NextRequest(u)
    BY <2>5 DEF NextRequest, TurnOnly
  <2> QED BY <1>3, <2>1, <2>2, <2>3, <2>4, <2>5
<1>5. u = t
  BY <1>2, <1>4
<1>6. ~Consulted(t)
  BY <1>1 DEF Consulted
<1> QED BY <1>3, <1>5, <1>6 DEF Plans

\* Laya advises and no more: see LayaOnlyAdvises (runtime.ts:325-336).
THEOREM LayaAdvises == Spec => LayaOnlyAdvises
<1> DEFINE Advised == \A t \in Followed :
         ~At(t, "running") /\ At(t, "running")' =>
           /\ turn'[t].route # turn[t].route =>
                /\ turn'[t].route = laya[t].route
                /\ \/ env.mode = "assisted" /\ laya[t].confidence # {}
                   \/ env.mode = "automatic" /\ env.half # {}
           /\ Consults /\ ~env.failOpen => laya[t] \in Decisions
<1>1. TypeOK /\ [Next]_vars => [Advised]_vars
  <2> SUFFICES ASSUME TypeOK, [Next]_vars, NEW t \in Followed,
                      ~At(t, "running"), At(t, "running")'
               PROVE  /\ turn'[t].route # turn[t].route =>
                           /\ turn'[t].route = laya[t].route
                           /\ \/ env.mode = "assisted" /\ laya[t].confidence # {}
                              \/ env.mode = "automatic" /\ env.half # {}
                      /\ Consults /\ ~env.failOpen => laya[t] \in Decisions
    OBVIOUS
  <2>1. turn \in [Followed -> Turn] /\ turn[t] \in Turn /\ turn'[t].stage = "running" /\ turn[t].stage # "running"
    BY DEF TypeOK, At
  <2>2. PlanRoute(t)
    <3>1. Begin(t) \/ Consult(t) \/ PlanRoute(t) \/ FailClosed(t) \/ Runs(t) \/ Stores(t) \/ NextRequest(t)
      BY <2>1, WhoseStep
    <3>2. ~Begin(t) /\ ~Consult(t) /\ ~FailClosed(t) /\ ~NextRequest(t)
      <4>1. \A r : Becomes(t, r) => r.stage = "running"
        BY <2>1 DEF Becomes
      <4>2. ~Begin(t)
        <5> SUFFICES ASSUME Begin(t) PROVE FALSE
          OBVIOUS
        <5>1. PICK gate, policy, live, route :
                Becomes(t, [NoTurn EXCEPT !.stage = "planning", !.gate = gate, !.policy = policy,
                                          !.live = live, !.route = route, !.rows = {"question"}])
          BY DEF Begin, TurnOnly
        <5>2. [NoTurn EXCEPT !.stage = "planning", !.gate = gate, !.policy = policy,
                             !.live = live, !.route = route, !.rows = {"question"}].stage
                = "planning"
          BY DEF NoTurn
        <5> QED BY <4>1, <5>1, <5>2
      <4>4. ~NextRequest(t)
        <5>1. NoTurn.stage = "idle"
          BY DEF NoTurn
        <5> QED BY <4>1, <5>1 DEF NextRequest, TurnOnly
      <4>3. ~Consult(t) /\ ~FailClosed(t)
        BY <2>1, <4>1 DEF Consult, FailClosed, TurnOnly, Turn
      <4> QED BY <4>2, <4>3, <4>4
    <3>3. ~Stores(t)
      BY <2>1 DEF Stores, AuditWarning, StoreMessage, StoreLogs, Reply, WriteFails, Writes, TurnOnly, Becomes, Turn
    <3>4. ~Runs(t)
      BY <2>1 DEF Runs, DirectTool, LlmAnswers, LlmCallsTools, LimitReached, LlmFails, Asks, Loops, At
    <3> QED BY <3>1, <3>2, <3>3, <3>4
  <2>3. turn'[t].route = PlannedRoute(turn[t].route, laya[t])
    BY <2>1, <2>2 DEF PlanRoute, Becomes, Plan, Turn
  <2>4. (At(t, "planning") /\ ~Consults) \/ laya[t] # Asked
    BY <2>2 DEF PlanRoute, ConsultationEnded
  <2>5. laya[t] \in Decisions \cup {NoDecision, Asked}
    BY TurnAssumption DEF TypeOK, BreakerTypeOK
  <2>6. Consults /\ ~env.failOpen => laya[t] \in Decisions
    BY <2>2, <2>4, <2>5 DEF PlanRoute, Unreachable
  <2>7. ASSUME turn'[t].route # turn[t].route
        PROVE  /\ turn'[t].route = laya[t].route
               /\ \/ env.mode = "assisted" /\ laya[t].confidence # {}
                  \/ env.mode = "automatic" /\ env.half # {}
    <3>1. CASE env.mode = "assisted"
      BY <2>3, <2>7, <3>1 DEF PlannedRoute, mergeRoutingDecision, Follows
    <3>2. CASE env.mode # "assisted"
      BY <2>3, <2>7, <3>2 DEF PlannedRoute, Follows, shouldFollowLayaRoute
    <3> QED BY <3>1, <3>2
  <2> QED BY <2>6, <2>7
<1> QED BY <1>1, TypeCorrect, PTL DEF Spec, LayaOnlyAdvises
=============================================================================
