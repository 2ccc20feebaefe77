SPECIFICATION MCSpec
CONSTANTS
    n1 = n1
    m1 = m1
    m2 = m2
    tool = tool
    bucket = bucket
    coll = coll
    q1 = q1
    u1 = u1
    u2 = u2
    f1 = f1
    c1 = c1
    l1 = l1
    l2 = l2
    h1 = h1
    h2 = h2
    Nodes = {n1}
    Models = {m1, m2}
    Deps = {tool, bucket, coll}
    Kind <- MCKind
    Starts <- MCStarts
    Capabilities <- MCCapabilities
    Requests = {q1}
    Updates = {u1, u2}
    NoNode = NoNode
    NoModel = NoModel
    MaxChanges = 2
    MaxFailures = 1
    Files = {f1}
    Contents = {"text", "blank"}
    Collections = {c1}
    Links = {l1, l2}
    Handlers = {h1, h2}
    None = None
    MaxJobs = 2
    MaxMishaps = 1
CHECK_DEADLOCK FALSE
SYMMETRY Symmetry
INVARIANTS TypeOK NoDangling TemplateFits
    RetrievalTypeOK NoStrayVectors CompletedIsIndexed IngestionInHand ProjectSwept
PROPERTY NoResurrection
