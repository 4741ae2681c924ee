SPECIFICATION FairSpec
CONSTANTS
    t1 = t1
    t2 = t2
    c1 = c1
    c2 = c2
    c3 = c3
    env = env
    Tasks <- OneTask
    SerialTasks <- OneTask
    CallerScoped <- None
    Closers <- TwoClosers
    CancelPending <- OneCloser
    Patient <- Second
    Canceller = env
    HasRecurring = TRUE
INVARIANTS
    TypeOK
    ConvergedMeansJoined
    SingleLeader
    LeaderVerdictIsTrue
    FailuresAreReported
PROPERTIES
    ConvergenceIsFinal
    PatientCloseReturns
    PatientLeaderConverges
