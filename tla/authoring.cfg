SPECIFICATION MCSpec
CONSTANTS
    g1 = g1
    g2 = g2
    g3 = g3
    r1 = r1
    r2 = r2
    r3 = r3
    c1 = c1
    c2 = c2
    s1 = s1
    s2 = s2
    s3 = s3
    a1 = a1
    a2 = a2
    t1 = t1
    t2 = t2
    GNodes = {g1, g2, g3}
    Rules = {r1, r2}
    Creators = {c1, c2}
    NoGNode = NoGNode
    NoOwner = NoOwner
    MaxRemovals = 2
    MaxPatches = 1
    Slots = {s1, s2, s3}
    Graphs = {"first", "second"}
    GraphOf <- MCGraphOf
    Agents = {a1, a2}
    Tasks = {t1, t2}
    NoAgent = NoAgent
    MaxOperations = 3
    MaxLosses = 1
CHECK_DEADLOCK FALSE
SYMMETRY Symmetry
INVARIANTS MCTypeOK ForwardAcyclic RoutesKept InputsKept StartIsRoot RulesCanFire
    LinkedIsUsed NoDanglingLink
