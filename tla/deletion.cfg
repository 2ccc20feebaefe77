SPECIFICATION Spec
CONSTANTS
    p1 = p1
    d1 = d1
    s1 = s1
    s2 = s2
    Projects = {p1}
    Deleters = {d1}
    SagaIds = {s1, s2}
    NoProject = NoProject
    NoSaga = NoSaga
    ServiceOrder <- MCOrder
    UserServices <- MCUser
    UserWaitsFor <- MCWaits
    MaxMishaps = 1
CHECK_DEADLOCK FALSE
SYMMETRY Symmetry
INVARIANTS TypeOK OneSaga GoneIsCleaned NoSagaStranded AccountTakesAll
