SPECIFICATION Spec
CONSTANTS
    t1 = t1
    t2 = t2
    c1 = c1
    c2 = c2
    c3 = c3
    env = env
    Tasks <- OneTask
    SerialTasks <- None
    CallerScoped <- None
    Closers <- TwoClosers
    CancelPending <- OneCloser
    Patient <- None
    Canceller = env
    HasRecurring = TRUE
INVARIANTS
    CleanCloseIsConverged
