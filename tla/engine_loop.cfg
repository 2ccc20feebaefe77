SPECIFICATION FairSpec
CONSTANTS
    e1 = e1
    e2 = e2
    p1 = p1
    p2 = p2
    EvalTasks = {e1, e2}
    PropTasks = {p1, p2}
    NoRule = NoRule
    Pace = "drained"
    Budget <- Errors
    MaxEvents = 3
    Nodes <- GraphNodes
    Rules <- LoopRules
    Projections <- LoopProjections
    Owner <- LoopOwner
    ProjOwner <- LoopProjOwner
    Inputs <- LoopInputs
    Mode <- LoopMode
    Terminal <- None
    Controllers <- LoopControllers
    MaxIterations <- LoopMax
    Route <- LoopRoute
    FbiSource <- LoopFbi
    Children <- LoopChildren
    Seeds <- LoopSeeds
    UserInputs <- LoopUser
CHECK_DEADLOCK FALSE
INVARIANTS NothingStranded LoopRunsToBound
PROPERTIES RunCloses
