SPECIFICATION Spec
CONSTANTS
    t1 = t1
    t2 = t2
    Tasks <- TwoTasks
    Cpu <- First
    Async <- Second
    CallerScoped <- First
    TaskOwned <- None
    HasGroupDeadline = TRUE
    FailFast = TRUE
    Cancellable <- None
    Failures <- None
INVARIANTS
    NoFalseSuccess
CHECK_DEADLOCK FALSE
