---------------------------- MODULE LayaBreaker ----------------------------
(***************************************************************************)
(* The client of the Laya classifier and its circuit breaker, which all    *)
(* requests of a web process share.  Requests overlap, so an answer or a   *)
(* failure may arrive in any state of the circuit.                         *)
(***************************************************************************)
EXTENDS Naturals

CONSTANTS
    Turns,        \* requests that may be under way at once
    Threshold,    \* consecutiveFailuresThreshold
    Reset         \* resetTimeoutMs, in periods of the clock

ASSUME BreakerAssumption == Threshold \in Nat \ {0} /\ Reset \in Nat \ {0}

VARIABLES
    circuit,      \* status, failures up to Threshold, and time since the last one
    laya          \* the call of each turn, or what came of it

Routes == {"direct", "assisted", "investigation"}
\* The thresholds a confidence reaches; nothing in the code keeps low under high.
Confidences == SUBSET {"low", "high"}
Decisions == [route : {"direct", "investigation"}, confidence : Confidences]
NoDecision == [route |-> "none", confidence |-> {}]
Asked == [route |-> "asked", confidence |-> {}]

BreakerTypeOK ==
    /\ circuit \in [status : {"closed", "open", "half-open"},
                    failures : 0 .. Threshold, age : 0 .. Reset]
    /\ laya \in [Turns -> Decisions \cup {NoDecision, Asked}]

BreakerInit ==
    /\ circuit = [status |-> "closed", failures |-> 0, age |-> Reset]
    /\ laya = [t \in Turns |-> NoDecision]

Learns(t, decision) == laya' = [laya EXCEPT ![t] = decision]

-----------------------------------------------------------------------------
CanExecute == circuit.status = "open" => circuit.age >= Reset

\* A probe that forgets the failures that opened the circuit.
ForgetfulProbe ==
    IF circuit.status = "open" THEN [circuit EXCEPT !.status = "half-open", !.failures = 0] ELSE circuit

Probe == IF circuit.status = "open" THEN [circuit EXCEPT !.status = "half-open"] ELSE circuit

\* decide(): the request goes out; half-open lets every request through.
Ask(t) ==
    /\ CanExecute
    /\ circuit' = Probe
    /\ Learns(t, Asked)

AskNobody(t) ==
    /\ ~CanExecute
    /\ Learns(t, NoDecision)
    /\ UNCHANGED circuit

\* recordSuccess; an answer may be one that maps to no decision.
Answer(t, decision) ==
    /\ laya[t] = Asked
    /\ circuit' = [circuit EXCEPT !.status = "closed", !.failures = 0]
    /\ Learns(t, decision)

\* recordFailure, after an error or the timeout.
Fail(t) ==
    /\ laya[t] = Asked
    /\ LET failures == IF circuit.failures < Threshold THEN circuit.failures + 1 ELSE Threshold
       IN  circuit' = [status |-> IF failures = Threshold THEN "open" ELSE circuit.status,
                       failures |-> failures, age |-> 0]
    /\ Learns(t, NoDecision)

Tick ==
    /\ circuit.age < Reset
    /\ circuit' = [circuit EXCEPT !.age = @ + 1]
    /\ UNCHANGED laya

-----------------------------------------------------------------------------
\* Whatever order overlapping calls end in: the circuit is closed exactly below the
\* threshold, and it is probed only a whole timeout after the last failure, so one
\* failed probe opens it again (laya-client.ts:166-199).
ProbesAreSpaced ==
    /\ circuit.status = "closed" <=> circuit.failures < Threshold
    /\ circuit.status = "half-open" => circuit.age = Reset
=============================================================================
