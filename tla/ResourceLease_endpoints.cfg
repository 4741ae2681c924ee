SPECIFICATION Spec
CONSTANTS
    b1 = b1
    c1 = c1
    e1 = e1
    e2 = e2
    server1 = server1
    rcon1 = rcon1
    s1 = s1
    s2 = s2
    p1 = p1
    Nobody = Nobody
    Branches <- OneBranch
    Clients <- OneClient
    Endpoints <- TwoEndpoints
    Allocations <- TwoAllocations
    AllocationsOf <- ServerThenRcon
    Candidates <- Overlapping
    EndpointOf <- OnFirst
    OwnerScope <- ClientApart
    Scopes <- TwoScopes
    Proofs <- OneProof
    Ttl = 1
    LockWait = 1
    MaxTime = 2
    MaxCrashes <- OneCrash
INVARIANTS
    TypeOK
    LeasesHaveAllocations
    CleanCloseReleases
PROPERTIES
    ImplementsFencedLock
    AllocationsGoForward
