SPECIFICATION Spec
CONSTANTS
    t1 = t1
    t2 = t2
    Turns <- MCTurns
    Followed <- MCFollowed
    Threshold = 2
    Reset = 2
    Codes <- MCCodes
    MaxIterations = 3
    Policies <- MCPolicies
    Faults <- MCFaults
INVARIANTS
    TypeOK
    ProbesAreSpaced
    IncompleteNeverAnswered
    CandidateIsClean
    SuspicionComesFirst
    BudgetKept
PROPERTIES
    LayaOnlyAdvises
    TurnEnds
