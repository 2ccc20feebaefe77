SPECIFICATION FairSpec
CONSTANTS
    e1 = e1
    e2 = e2
    p1 = p1
    p2 = p2
    EvalTasks = {e1, e2}
    PropTasks = {p1, p2}
    NoRule = NoRule
    Pace = "paced"
    Budget <- Errors
    MaxEvents = 3
    Nodes <- GraphNodes
    Rules <- ChainRules
    Projections <- ChainProjections
    Owner <- ChainOwner
    ProjOwner <- ChainProjOwner
    Inputs <- ChainInputs
    Mode <- ChainMode
    Terminal <- ChainTerminal
    Controllers <- None
    MaxIterations <- ChainMax
    Route <- ChainRoute
    FbiSource <- ChainFbi
    Children <- ChainChildren
    Seeds <- ChainSeeds
    UserInputs <- ChainUser
CHECK_DEADLOCK FALSE
INVARIANTS RetryBudget NothingStranded
PROPERTIES RunCloses
