SPECIFICATION Spec
CONSTANTS
    t1 = t1
    t2 = t2
    Tasks <- TwoTasks
    Cpu <- First
    Async <- Second
    CallerScoped <- First
    TaskOwned <- First
    HasGroupDeadline = FALSE
    FailFast = TRUE
    Cancellable <- First
    Failures <- OwnTimeout
INVARIANTS
    TypeOK
    NoFalseSuccess
    NoStrayTimer
    NobodyOutlivesFailFast
    RequestFailureStaysItsCallers
PROPERTIES
    VerdictIsFinal
    MetDeadlineIsHonoured
CHECK_DEADLOCK FALSE
