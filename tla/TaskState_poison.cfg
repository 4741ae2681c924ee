SPECIFICATION Spec
CONSTANTS
    t1 = t1
    t2 = t2
    Tasks <- OneTask
    Cpu <- None
    Async <- None
    CallerScoped <- OneTask
    TaskOwned <- None
    HasGroupDeadline = TRUE
    FailFast = TRUE
    Cancellable <- None
    Failures <- AnyFailure
INVARIANT RequestFailureStaysItsCallers
CHECK_DEADLOCK FALSE
