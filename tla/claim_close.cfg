SPECIFICATION Spec
CONSTANTS
    e1 = e1
    e2 = e2
    p1 = p1
    p2 = p2
    EvalTasks = {e1, e2}
    PropTasks = {p1, p2}
    NoRule = NoRule
    Pace = "paced"
    Budget <- NoEvents
    MaxEvents = 0
    Nodes <- GraphNodes
    Rules <- ForkRules
    Projections <- ForkProjections
    Owner <- ForkOwner
    ProjOwner <- ForkProjOwner
    Inputs <- ForkInputs
    Mode <- ForkMode
    Terminal <- ForkTerminal
    Controllers <- None
    MaxIterations <- ForkMax
    Route <- ForkRoute
    FbiSource <- ForkFbi
    Children <- ForkChildren
    Seeds <- ForkSeeds
    UserInputs <- ForkUser
CHECK_DEADLOCK FALSE
INVARIANT ClosedOverSettled
