------------------------------ MODULE ChatTurn ------------------------------
(***************************************************************************)
(* A turn of the chat: POST /api/chat and the runAgent() it calls.  The    *)
(* route is planned (with Laya's advice, if it is consulted), tools and    *)
(* the language model are called within the budget of the route, the truth *)
(* gate decides what may be answered, and the outcome is stored in several *)
(* writes.  Other requests of the process share the circuit of Laya.       *)
(*                                                                         *)
(* A tool result is the code of its verdict.                               *)
(***************************************************************************)
EXTENDS LayaBreaker, FiniteSets

CONSTANTS
    Followed,        \* the requests whose whole turn is modelled
    Codes,           \* of the verdicts: "incomplete", "stale", ...
    MaxIterations,   \* rounds of an investigation
    Policies,        \* abstainOnCodes of the tenants that override the codes
    Faults           \* "llm", "database"

Doubtful == {"stale", "low_confidence"}

ASSUME TurnAssumption ==
    /\ Followed \subseteq Turns
    /\ Codes \subseteq {"ok", "incomplete"} \cup Doubtful
    /\ MaxIterations \in Nat \ {0}
    /\ Policies \subseteq SUBSET Codes

\* A tenant without an override.
NoPolicy == {"no policy"}

VARIABLES
    env,       \* LAYA_MODE, LAYA_FAIL_OPEN and the thresholds of the process
    turn       \* each followed request

vars == <<circuit, laya, env, turn>>

\* `half' is the thresholds that 0.5 reaches, the confidence the client gives every route.
Env == [mode : {"disabled", "shadow", "assisted", "automatic"}, failOpen : BOOLEAN,
        half : Confidences]

Stages == {"idle", "planning", "consulting", "running", "gated", "audited", "stored", "logged",
           "answered", "failed"}
Rows == {"question", "suspicion", "answer", "actions", "verdicts", "candidate"}

\* `route' is the one of the adaptive router until the final one is planned.
Turn == [stage : Stages, gate : {"strict", "observe"}, policy : Policies \cup {NoPolicy},
         live : BOOLEAN, route : Routes, budget : 0 .. MaxIterations + 1,
         llm : 0 .. MaxIterations + 1, verdicts : SUBSET Codes,
         reply : {"none", "answer", "limit", "abstention"}, warned : BOOLEAN, rows : SUBSET Rows]

NoTurn == [stage |-> "idle", gate |-> "strict", policy |-> NoPolicy, live |-> FALSE,
           route |-> "direct", budget |-> 0, llm |-> 0, verdicts |-> {},
           reply |-> "none", warned |-> FALSE, rows |-> {}]

TypeOK ==
    /\ BreakerTypeOK
    /\ env \in Env
    /\ turn \in [Followed -> Turn]

Init ==
    /\ BreakerInit
    /\ env \in Env
    /\ turn = [t \in Followed |-> NoTurn]

At(t, stage) == turn[t].stage = stage
Becomes(t, record) == turn' = [turn EXCEPT ![t] = record]
TurnOnly(t, record) == Becomes(t, record) /\ UNCHANGED <<circuit, laya, env>>

-----------------------------------------------------------------------------
(* The route *)

\* The policy of the tenant is read, the question stored and the message classified.
Begin(t) ==
    /\ At(t, "idle")
    /\ \E gate \in {"strict", "observe"}, policy \in Policies \cup {NoPolicy},
          live \in BOOLEAN, route \in Routes :
         TurnOnly(t, [NoTurn EXCEPT !.stage = "planning", !.gate = gate, !.policy = policy,
                                    !.live = live, !.route = route, !.rows = {"question"}])

Consults == env.mode # "disabled"

\* A request that waits for the open circuit to let it through.
WaitsForCircuit(t) ==
    /\ At(t, "planning")
    /\ Consults
    /\ Ask(t)
    /\ Becomes(t, [turn[t] EXCEPT !.stage = "consulting"])
    /\ UNCHANGED env

Consult(t) ==
    /\ At(t, "planning")
    /\ Consults
    /\ Ask(t) \/ AskNobody(t)
    /\ Becomes(t, [turn[t] EXCEPT !.stage = "consulting"])
    /\ UNCHANGED env

Consulted(t) ==
    /\ Fail(t) \/ \E decision \in Decisions \cup {NoDecision} : Answer(t, decision)
    /\ UNCHANGED <<env, turn>>

\* The consultations of the other requests; their turns share nothing else.
Elsewhere(t) ==
    /\ \/ Consults /\ laya[t] # Asked /\ Ask(t)
       \/ Fail(t)
       \/ Answer(t, NoDecision)
    /\ UNCHANGED <<env, turn>>

mergeRoutingDecision(adaptive, advice) ==
    CASE "high" \in advice.confidence /\ advice.route = "direct" -> "direct"
      [] "low" \in advice.confidence /\ advice.route = "investigation" -> "investigation"
      [] OTHER -> adaptive

shouldFollowLayaRoute(advice) ==
    \/ "high" \in env.half
    \/ "low" \in env.half /\ advice.route = "direct"

\* Following a consultation that brought nothing.
FollowsNothing(advice) == env.mode = "automatic" /\ shouldFollowLayaRoute(advice)

Follows(advice) ==
    /\ env.mode = "automatic"
    /\ advice # NoDecision
    /\ shouldFollowLayaRoute(advice)

\* A shadow that merges what it only measures.
ShadowFollows(adaptive, advice) ==
    IF Follows(advice) THEN advice.route ELSE mergeRoutingDecision(adaptive, advice)

PlannedRoute(adaptive, advice) ==
    CASE env.mode = "assisted" -> mergeRoutingDecision(adaptive, advice)
      [] Follows(advice) -> advice.route
      [] OTHER -> adaptive

\* Assisted adds the call of its synthesis.
Budget(route) ==
    CASE route = "direct" -> 0
      [] route = "assisted" -> 2
      [] OTHER -> MaxIterations

\* A plan whose iterations are those of the route before the advice.
StalePlan(t, route) ==
    [turn[t] EXCEPT !.stage = "running", !.route = route, !.budget = Budget(turn[t].route)]

Plan(t, route) ==
    [turn[t] EXCEPT !.stage = "running", !.route = route, !.budget = Budget(route)]

ConsultationEnded(t) ==
    \/ At(t, "planning") /\ ~Consults
    \/ At(t, "consulting") /\ laya[t] # Asked

Unreachable(t) == Consults /\ laya[t] = NoDecision

PlanRoute(t) ==
    /\ ConsultationEnded(t)
    /\ Unreachable(t) => env.failOpen
    /\ Becomes(t, Plan(t, PlannedRoute(turn[t].route, laya[t])))
    /\ Learns(t, NoDecision)
    /\ UNCHANGED <<circuit, env>>

\* LAYA_FAIL_OPEN=false: without a decision the request ends in an error.
FailClosed(t) ==
    /\ ConsultationEnded(t)
    /\ Unreachable(t) /\ ~env.failOpen
    /\ TurnOnly(t, [turn[t] EXCEPT !.stage = "failed"])

-----------------------------------------------------------------------------
(* The loop of tools and language model, and the gate of every exit *)

shouldAbstain(verdicts, gate, policy) ==
    LET triggers == IF policy = NoPolicy THEN {"incomplete"} ELSE policy
    IN  CASE gate = "observe" -> "allow"
          [] gate = "strict" /\ verdicts \cap triggers # {} -> "abstain"
          [] gate = "strict" /\ verdicts \cap triggers = {} /\ verdicts \cap Doubtful # {} -> "warn"
          [] OTHER -> "allow"

\* finalize(), of the text of an answer or the text that the limit was reached.
Finalized(r, text) ==
    LET decision == shouldAbstain(r.verdicts, r.gate, r.policy)
    IN  [r EXCEPT !.stage = "gated", !.warned = (decision = "warn"),
                  !.reply = IF decision = "abstain" THEN "abstention" ELSE text]

DirectTool(t) ==
    /\ At(t, "running")
    /\ turn[t].route = "direct"
    /\ \E code \in Codes : TurnOnly(t, Finalized([turn[t] EXCEPT !.verdicts = {code}], "answer"))

Loops(t) == At(t, "running") /\ turn[t].route # "direct"
Asks(t) == Loops(t) /\ turn[t].llm < turn[t].budget

OneMore(t) == [turn[t] EXCEPT !.llm = @ + 1]

Synthesis(t) == turn[t].route = "assisted" /\ turn[t].llm > 0

\* The model answers with text; what it calls in a synthesis is ignored.
LlmAnswers(t) == Asks(t) /\ TurnOnly(t, Finalized(OneMore(t), "answer"))

LlmCallsTools(t) ==
    /\ Asks(t)
    /\ ~Synthesis(t)
    /\ \E codes \in SUBSET Codes \ {{}} :
         TurnOnly(t, [OneMore(t) EXCEPT !.verdicts = @ \cup codes])

\* The text of the limit, past the gate.
LimitUngated(t) ==
    /\ Loops(t)
    /\ turn[t].llm = turn[t].budget
    /\ TurnOnly(t, [turn[t] EXCEPT !.stage = "gated", !.reply = "limit"])

LimitReached(t) ==
    /\ Loops(t)
    /\ turn[t].llm = turn[t].budget
    /\ TurnOnly(t, Finalized(turn[t], "limit"))

LlmFails(t) ==
    /\ "llm" \in Faults
    /\ Asks(t)
    /\ TurnOnly(t, [OneMore(t) EXCEPT !.stage = "failed"])

-----------------------------------------------------------------------------
(* The writes of the outcome, one after another *)

Writes(t, from, to, rows) ==
    /\ At(t, from)
    /\ TurnOnly(t, [turn[t] EXCEPT !.stage = to, !.rows = @ \cup rows])

\* A suspicion logged after the answer, with the actions.
LateAudit(t) == Writes(t, "gated", "audited", {})

AuditWarning(t) ==
    Writes(t, "gated", "audited", IF turn[t].warned THEN {"suspicion"} ELSE {})

StoreMessage(t) == Writes(t, "audited", "stored", {"answer"})

\* The actions, then the verdicts, which may fail.
StoreLogs(t) ==
    \/ Writes(t, "stored", "logged", {"actions", "verdicts"})
    \/ "database" \in Faults /\ Writes(t, "stored", "logged", {"actions"})

\* The candidate of every answer that is no abstention.
ProposesAllText(t) == turn[t].reply # "abstention" /\ turn[t].live

shouldWriteCandidate(t) ==
    turn[t].reply # "abstention" /\ "incomplete" \notin turn[t].verdicts /\ turn[t].live

Reply(t) ==
    Writes(t, "logged", "answered", IF shouldWriteCandidate(t) THEN {"candidate"} ELSE {})

WriteFails(t) ==
    /\ "database" \in Faults
    /\ \E stage \in {"gated", "audited", "stored", "logged"} : Writes(t, stage, "failed", {})

NextRequest(t) ==
    /\ turn[t].stage \in {"answered", "failed"}
    /\ TurnOnly(t, NoTurn)

-----------------------------------------------------------------------------
Plans(t) == Consult(t) \/ Consulted(t) \/ PlanRoute(t) \/ FailClosed(t)
Runs(t) == DirectTool(t) \/ LlmAnswers(t) \/ LlmCallsTools(t) \/ LimitReached(t) \/ LlmFails(t)
Stores(t) == AuditWarning(t) \/ StoreMessage(t) \/ StoreLogs(t) \/ Reply(t) \/ WriteFails(t)

Next ==
    \/ \E t \in Followed : Begin(t) \/ Plans(t) \/ Runs(t) \/ Stores(t) \/ NextRequest(t)
    \/ \E t \in Turns \ Followed : Elsewhere(t)
    \/ Tick /\ UNCHANGED <<env, turn>>

\* Calls of Laya and of the model end or time out, and writes succeed or fail.
Fairness == \A t \in Followed : WF_vars(Plans(t) \/ Runs(t) \/ Stores(t))

Spec == Init /\ [][Next]_vars /\ Fairness

-----------------------------------------------------------------------------
Gated(t) == turn[t].stage \in {"gated", "audited", "stored", "logged", "answered"}

\* Without an override of the tenant, a strict gate answers with an abstention once any
\* tool of the turn was incomplete, whatever the exit: the answer of the model, a
\* synthesis, the direct tool or the limit of the loop (abstention-policy.ts:79).
IncompleteNeverAnswered ==
    \A t \in Followed :
      Gated(t) /\ turn[t].gate = "strict" /\ turn[t].policy = NoPolicy /\ "incomplete" \in turn[t].verdicts
        => turn[t].reply = "abstention"

\* What may become knowledge is a text the operator was given and that rests on no
\* incomplete result, even where the gate only observes or the tenant switched it off
\* (chat/route.ts:465).
CandidateIsClean ==
    \A t \in Followed :
      "candidate" \in turn[t].rows =>
        /\ turn[t].reply # "abstention"
        /\ "incomplete" \notin turn[t].verdicts
        /\ turn[t].live
        /\ {"answer", "actions"} \subseteq turn[t].rows

\* What a strict gate let pass on doubtful results is never stored without
\* the suspicion before it, also where a later write fails (chat/route.ts:335).
SuspicionComesFirst ==
    \A t \in Followed :
      /\ "answer" \in turn[t].rows
      /\ turn[t].gate = "strict"
      /\ turn[t].reply # "abstention"
      /\ turn[t].verdicts \cap Doubtful # {}
      => "suspicion" \in turn[t].rows

\* The calls of the model stay within the budget of the route that was finally taken,
\* and a turn that is not direct is never answered without one (runtime.ts:337, AD-6).
BudgetKept ==
    \A t \in Followed :
      Gated(t) =>
        /\ turn[t].llm <= Budget(turn[t].route)
        /\ turn[t].llm = 0 <=> turn[t].route = "direct"

\* Laya advises and no more: another route than the adaptive one is the one it
\* suggested, in a mode that acts on it, with a confidence that reaches a threshold;
\* with no decision, a process that is to fail closed plans nothing (runtime.ts:325-336).
LayaOnlyAdvises ==
    [][\A t \in Followed :
         ~At(t, "running") /\ At(t, "running")' =>
           /\ turn'[t].route # turn[t].route =>
                /\ turn'[t].route = laya[t].route
                /\ \/ env.mode = "assisted" /\ laya[t].confidence # {}
                   \/ env.mode = "automatic" /\ env.half # {}
           /\ Consults /\ ~env.failOpen => laya[t] \in Decisions]_vars

\* Every request ends in an answer or in an error.
TurnEnds == \A t \in Followed : At(t, "planning") ~> turn[t].stage \in {"answered", "failed"}

\* What becomes knowledge was an answer: not so, the text of the limit may.
CandidateIsAnAnswer ==
    \A t \in Followed : "candidate" \in turn[t].rows => turn[t].reply = "answer"

\* What the comment at chat/route.ts:447 says of a stored answer: the request succeeds.
StoredIsAnswered == \A t \in Followed : "answer" \in turn[t].rows => ~At(t, "failed")
=============================================================================
