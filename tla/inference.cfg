SPECIFICATION MCSpec
CONSTANTS
    job1 = job1
    job2 = job2
    t1 = t1
    t2 = t2
    c1 = c1
    c2 = c2
    e1 = e1
    look = look
    two = two
    renew = renew
    Jobs = {job1, job2}
    MaxChunks = 1
    MaxFaults = 1
    Consumers = {c1, c2}
    Nobody = Nobody
    Window = 1
    Editors = {e1}
    MaxEdits = 2
    Requests <- MCRequests
    Tasks = {t1, t2}
    NoTask = NoTask
    MaxCancels = 1
    MaxCalls = 3
    MaxBoxes = 3
    Plans = {look, two, renew}
    Wide = {two}
    Fresh = {renew}
    MaxIterations = 3
    MaxRepeat = 1
    MaxMishaps = 1
    MaxInstances = 2
    Sizes = {1, 2}
    MaxTroubles = 1
CHECK_DEADLOCK FALSE
INVARIANTS MCTypeOK VerdictsSettle StreamInOrder  SessionKept RuntimeRecorded
PROPERTY JobAnswered
