SPECIFICATION FairSpec
CONSTANTS
    l1 = l1
    l2 = l2
    w1 = w1
    j1 = j1
    j2 = j2
    j3 = j3
    j4 = j4
    k1 = k1
    close = close
    stop1 = stop1
    stop2 = stop2
    NoKey = NoKey
    NoJob = NoJob
    NoLane = NoLane
    Lanes <- TwoLanes
    Workers <- OneWorker
    Jobs <- FourJobs
    Keys <- OneKey
    Pin <- PinAll
    LaneOf <- FourthApart
    KeysOf <- ThirdMayJoin
    Shutdowns <- OneStop
    LaneClosers <- LaneClose
    TargetOf <- CloseL1
    Cancellable <- ThirdJob
    Patient <- LaneClose
    Capacity = 2
INVARIANTS
    TypeOK
    OneTokenPerLane
    NoLostWakeup
    OpenItemsAreQueued
    ClosedLaneIsQuiet
PROPERTIES
    AcceptedJobsResolve
    ImplementsMailbox
CHECK_DEADLOCK FALSE
