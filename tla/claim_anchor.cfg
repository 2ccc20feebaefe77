SPECIFICATION Spec
CONSTANTS
    e1 = e1
    e2 = e2
    p1 = p1
    p2 = p2
    EvalTasks = {e1}
    PropTasks = {p1, p2}
    NoRule = NoRule
    Pace = "racing"
    Budget <- NoEvents
    MaxEvents = 0
    Nodes <- GraphNodes
    Rules <- LoopRules
    Projections <- LoopProjections
    Owner <- LoopOwner
    ProjOwner <- LoopProjOwner
    Inputs <- LoopInputs
    Mode <- LoopMode
    Terminal <- None
    Controllers <- LoopControllers
    MaxIterations <- LoopMaxOne
    Route <- LoopRoute
    FbiSource <- LoopFbi
    Children <- LoopChildren
    Seeds <- LoopSeeds
    UserInputs <- LoopUser
CHECK_DEADLOCK FALSE
SYMMETRY Symmetry
INVARIANT HeldRuleFires
