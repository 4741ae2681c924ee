SPECIFICATION FairSpec
CONSTANTS
    l1 = l1
    l2 = l2
    w1 = w1
    j1 = j1
    j2 = j2
    j3 = j3
    j4 = j4
    k1 = k1
    close = close
    stop1 = stop1
    stop2 = stop2
    NoKey = NoKey
    NoJob = NoJob
    NoLane = NoLane
    Lanes <- OneLane
    Workers <- OneWorker
    Jobs <- ThreeJobs
    Keys <- OneKey
    Pin <- PinAll
    LaneOf <- AllOnOne
    KeysOf <- LastTwoShareKey
    Shutdowns <- TwoStops
    LaneClosers <- None
    TargetOf <- CloseL1
    Cancellable <- ThreeJobs
    Patient <- SecondStop
    Capacity = 1
PROPERTIES
    RetriedShutdownConverges
CHECK_DEADLOCK FALSE
