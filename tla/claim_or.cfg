SPECIFICATION FairSpec
CONSTANTS
    e1 = e1
    e2 = e2
    p1 = p1
    p2 = p2
    EvalTasks = {e1}
    PropTasks = {p1, p2}
    NoRule = NoRule
    Pace = "paced"
    Budget <- NoEvents
    MaxEvents = 0
    Nodes <- GraphNodes
    Rules <- JoinRules
    Projections <- JoinProjections
    Owner <- JoinOwner
    ProjOwner <- JoinProjOwner
    Inputs <- JoinInputs
    Mode <- JoinModeOr
    Terminal <- JoinTerminal
    Controllers <- None
    MaxIterations <- JoinMax
    Route <- JoinRoute
    FbiSource <- JoinFbi
    Children <- JoinChildren
    Seeds <- JoinSeeds
    UserInputs <- JoinUser
CHECK_DEADLOCK FALSE
PROPERTY OrRuleFires
