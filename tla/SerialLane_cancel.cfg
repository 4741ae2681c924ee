SPECIFICATION Spec
CONSTANTS
    l1 = l1
    l2 = l2
    w1 = w1
    j1 = j1
    j2 = j2
    j3 = j3
    j4 = j4
    k1 = k1
    close = close
    stop1 = stop1
    stop2 = stop2
    NoKey = NoKey
    NoJob = NoJob
    NoLane = NoLane
    Lanes <- OneLane
    Workers <- OneWorker
    Jobs <- ThreeJobs
    Keys <- OneKey
    Pin <- PinAll
    LaneOf <- AllOnOne
    KeysOf <- AllShareKey
    Shutdowns <- OneStop
    LaneClosers <- LaneClose
    TargetOf <- CloseL1
    Cancellable <- ThreeJobs
    Patient <- None
    Capacity = 1
INVARIANTS
    CancelStaysWithWatcher
CHECK_DEADLOCK FALSE
