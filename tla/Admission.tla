----------------------------- MODULE Admission -----------------------------
(***************************************************************************)
(* HierarchicalAdmissionAuthority with FairPrioritySchedulingPolicy.       *)
(*                                                                         *)
(* Each request is a thread that asks for one permit, waits for it, holds  *)
(* it and gives it back.  Everything happens under one condition.  Waiters *)
(* poll; the selection among them is cached until the queue or the         *)
(* accounting changes, or the 50 ms scheduling bucket ends.                *)
(*                                                                         *)
(* Tickets and grant sequence numbers only order waiters and groups, so    *)
(* they are kept as the sequences queue and recency.  Time is kept as the  *)
(* number of aging periods each waiter has waited, up to MaxRank.          *)
(***************************************************************************)
EXTENDS Naturals, Sequences, FiniteSets

CONSTANTS
    Requests, Groups, Lanes, Tenants, Resources,
    GroupOf, LaneOf,      \* of a request
    TenantOf,             \* of a group, Nobody when it has none
    ResourceOf,           \* its resource key (tenant and resource id), or Nobody
    Rank,                 \* priority rank of a group: 0 is critical
    Rejecting,            \* the groups whose intent has mode REJECT
    Impatient,            \* the requests with a deadline or a cancellation token
    MaxTotal, MaxGroup, MaxTenant, MaxResource,
    LaneLimit,            \* of a lane kind
    MaxRank,              \* the lowest priority's rank
    Nobody

ASSUME AdmissionAssumption ==
    /\ IsFiniteSet(Requests)
    /\ GroupOf \in [Requests -> Groups]
    /\ LaneOf \in [Requests -> Lanes]
    /\ TenantOf \in [Groups -> Tenants \cup {Nobody}]
    /\ ResourceOf \in [Groups -> Resources \cup {Nobody}]
    /\ \A g, h \in Groups : ResourceOf[g] = ResourceOf[h] /\ ResourceOf[g] # Nobody
                               => TenantOf[g] = TenantOf[h]
    /\ MaxRank \in Nat /\ Rank \in [Groups -> 0..MaxRank]
    /\ Rejecting \subseteq Groups /\ Impatient \subseteq Requests
    /\ MaxTotal \in Nat \ {0} /\ MaxGroup \in Nat \ {0}
    /\ MaxTenant \in Nat \ {0} /\ MaxResource \in Nat \ {0}
    /\ LaneLimit \in [Lanes -> Nat \ {0}]
    /\ Nobody \notin Requests \cup Groups \cup Tenants \cup Resources

VARIABLES
    inFlight, byGroup, byTenant, byResource, byLane,  \* the counters
    held,      \* requests whose lease is not released
    queue,     \* _waiters, in ticket order
    age,       \* aging periods a waiter has waited
    recency,   \* groups granted before, the latest last
    fresh,     \* whether the cached selection is valid
    selected,  \* _selection_cache_ticket
    closed

counters  == <<inFlight, byGroup, byTenant, byResource, byLane>>
selection == <<fresh, selected>>
vars == <<counters, held, queue, age, recency, selection, closed>>

Elements(s) == {s[n] : n \in DOMAIN s}
Waiting == Elements(queue)

\* Sequence s, which has no duplicates, without x.
Without(s, x) ==
    IF \E n \in DOMAIN s : s[n] = x
    THEN LET at == CHOOSE n \in DOMAIN s : s[n] = x
         IN [n \in 1..Len(s) - 1 |-> IF n < at THEN s[n] ELSE s[n + 1]]
    ELSE s

Init ==
    /\ inFlight = 0
    /\ byGroup = [g \in Groups |-> 0]
    /\ byTenant = [t \in Tenants |-> 0]
    /\ byResource = [x \in Resources |-> 0]
    /\ byLane = [l \in Lanes |-> 0]
    /\ held = {} /\ queue = <<>>
    /\ age = [r \in Requests |-> 0]
    /\ recency = <<>>
    /\ fresh = FALSE /\ selected = Nobody
    /\ closed = FALSE

-----------------------------------------------------------------------------
(***************************************************************************)
(* Faulty forms of definitions below, for the mutation runs.               *)
(***************************************************************************)
WithinGroupForgotten(g) == TRUE
FreshAfterReleaseKept == fresh
FreshAfterDepartureKept == fresh
RankWithoutAging(r) == Rank[GroupOf[r]]
UncountedCleared(counter, key) == [k \in DOMAIN counter |-> IF k = key THEN 0 ELSE counter[k]]
ReleasableTwice(r) == TRUE

-----------------------------------------------------------------------------
(***************************************************************************)
(* Capacity.                                                               *)
(***************************************************************************)
WithinGroup(g) == byGroup[g] < MaxGroup

\* _can_admit: every level of the hierarchy has room for the request.
CanAdmit(r) ==
    LET g == GroupOf[r] IN
    /\ inFlight < MaxTotal
    /\ WithinGroup(g)
    /\ byLane[LaneOf[r]] < LaneLimit[LaneOf[r]]
    /\ TenantOf[g] # Nobody => byTenant[TenantOf[g]] < MaxTenant
    /\ ResourceOf[g] # Nobody => byResource[ResourceOf[g]] < MaxResource

-----------------------------------------------------------------------------
(***************************************************************************)
(* Scheduling: priority with aging, then the group served longest ago,     *)
(* then the oldest ticket.                                                 *)
(***************************************************************************)
EffectiveRank(r) == IF Rank[GroupOf[r]] <= age[r] THEN 0 ELSE Rank[GroupOf[r]] - age[r]

\* Position of a group's last grant, 0 for one that has had none.
LastGrant(g) ==
    LET at == {n \in DOMAIN recency : recency[n] = g}
    IN IF at = {} THEN 0 ELSE CHOOSE n \in at : TRUE

Precedes(q, m, n) ==
    LET a == q[m]
        b == q[n]
        ga == LastGrant(GroupOf[a])
        gb == LastGrant(GroupOf[b])
    IN \/ EffectiveRank(a) < EffectiveRank(b)
       \/ /\ EffectiveRank(a) = EffectiveRank(b)
          /\ ga < gb \/ (ga = gb /\ m <= n)

\* The policy's choice among the admissible waiters of queue q.
Select(q) ==
    LET able == {n \in DOMAIN q : CanAdmit(q[n])}
    IN IF able = {} THEN Nobody
       ELSE q[CHOOSE m \in able : \A n \in able : Precedes(q, m, n)]

\* _selected_waiter: the cached choice while it is valid.
Selected(q, valid) == IF valid THEN selected ELSE Select(q)

-----------------------------------------------------------------------------
(***************************************************************************)
(* Operations.                                                             *)
(***************************************************************************)

\* A counter after one more lease under a key, and after one less (_decrement).
\* A group without tenant or resource has the key Nobody, which is not counted.
Counted(counter, key) ==
    [k \in DOMAIN counter |-> IF k = key THEN counter[k] + 1 ELSE counter[k]]
Uncounted(counter, key) ==
    [k \in DOMAIN counter |-> IF k = key THEN counter[k] - 1 ELSE counter[k]]

\* _invalidate_selection, whose callers are a waiter that leaves the queue
\* (granted or not), _grant, and _release.
FreshAfterDeparture == FALSE
FreshAfterRelease == FALSE
Invalidate(valid) ==
    /\ fresh' = valid
    /\ selected' = IF valid THEN selected ELSE Nobody

\* _grant.  It raises when the request exceeds the budget, which Selected rules
\* out; the accounting, the group's turn and the cache change together.
Grant(r) ==
    LET g == GroupOf[r] IN
    /\ CanAdmit(r)
    /\ inFlight' = inFlight + 1
    /\ byGroup' = Counted(byGroup, g)
    /\ byLane' = Counted(byLane, LaneOf[r])
    /\ byTenant' = Counted(byTenant, TenantOf[g])
    /\ byResource' = Counted(byResource, ResourceOf[g])
    /\ held' = held \cup {r}
    /\ recency' = Append(Without(recency, g), g)
    /\ Invalidate(FreshAfterDeparture)

Idle(r) == r \notin held /\ r \notin Waiting

\* acquire in REJECT mode: granted only when no waiter could be served instead.
AcquireOrReject(r) ==
    LET sel == Selected(queue, fresh)
    IN /\ Idle(r) /\ GroupOf[r] \in Rejecting /\ ~closed
       /\ IF ~CanAdmit(r)
          THEN UNCHANGED <<counters, held, recency, selection>>
          ELSE IF sel = Nobody
          THEN Grant(r)
          ELSE fresh' = TRUE /\ selected' = sel /\ UNCHANGED <<counters, held, recency>>
       /\ UNCHANGED <<queue, age, closed>>

\* acquire in WAIT mode: the waiter joins the queue, which invalidates the
\* cache, and looks for its turn before it sleeps for the first time.
AcquireOrWait(r) ==
    LET q   == Append(queue, r)
        sel == Select(q)
    IN /\ Idle(r) /\ GroupOf[r] \notin Rejecting /\ ~closed
       /\ IF sel = r
          THEN Grant(r) /\ UNCHANGED queue
          ELSE /\ queue' = q /\ fresh' = TRUE /\ selected' = sel
               /\ UNCHANGED <<counters, held, recency>>
       /\ UNCHANGED <<age, closed>>

\* A waiter wakes up and takes its turn, or refreshes the cache and sleeps.
Poll(r) ==
    LET sel == Selected(queue, fresh)
    IN /\ r \in Waiting /\ ~closed
       /\ IF sel = r
          THEN /\ Grant(r)
               /\ queue' = Without(queue, r)
               /\ age' = [age EXCEPT ![r] = 0]
          ELSE /\ fresh' = TRUE /\ selected' = sel
               /\ UNCHANGED <<counters, held, recency, queue, age>>
       /\ UNCHANGED closed

\* A waiter is cancelled, its deadline expires, or the authority is closed.
GiveUp(r) ==
    /\ r \in Waiting
    /\ r \in Impatient \/ closed
    /\ queue' = Without(queue, r)
    /\ age' = [age EXCEPT ![r] = 0]
    /\ Invalidate(FreshAfterDeparture)
    /\ UNCHANGED <<counters, held, recency, closed>>

\* _AdmissionLease._released: a second release returns without effect.
Releasable(r) == r \in held

\* lease.release and _release; the "accounting underflow" errors are unreachable
\* as long as the counters match the leases.
Release(r) ==
    LET g == GroupOf[r] IN
    /\ Releasable(r)
    /\ held' = held \ {r}
    /\ inFlight' = inFlight - 1
    /\ byGroup' = Uncounted(byGroup, g)
    /\ byLane' = Uncounted(byLane, LaneOf[r])
    /\ byTenant' = Uncounted(byTenant, TenantOf[g])
    /\ byResource' = Uncounted(byResource, ResourceOf[g])
    /\ Invalidate(FreshAfterRelease)
    /\ UNCHANGED <<queue, age, recency, closed>>

\* The scheduling bucket ends; some waiters may complete an aging period.
TimePasses ==
    /\ \E old \in SUBSET Waiting :
          age' = [r \in Requests |-> IF r \in old /\ age[r] < MaxRank THEN age[r] + 1 ELSE age[r]]
    /\ Invalidate(FALSE)
    /\ UNCHANGED <<counters, held, queue, recency, closed>>

\* Every waiter completes an aging period: the step time owes to all of them.
EveryoneAges ==
    /\ TimePasses
    /\ \A r \in Waiting : age'[r] = age[r] + 1 \/ age[r] = MaxRank

Close ==
    /\ closed' = TRUE
    /\ UNCHANGED <<counters, held, queue, age, recency, selection>>

Next ==
    \/ \E r \in Requests : \/ AcquireOrReject(r) \/ AcquireOrWait(r) \/ Poll(r)
                           \/ GiveUp(r) \/ Release(r)
    \/ TimePasses
    \/ Close

Spec == Init /\ [][Next]_vars

(***************************************************************************)
(* Fairness.  Waiters poll, holders end their work and release, the clock  *)
(* advances, and a closed authority turns its waiters away.                *)
(***************************************************************************)
FairSpec ==
    /\ Spec
    /\ \A r \in Requests : /\ WF_vars(Poll(r)) /\ WF_vars(Release(r))
                           /\ WF_vars(closed /\ GiveUp(r))
    /\ WF_vars(EveryoneAges)

-----------------------------------------------------------------------------
(***************************************************************************)
(* Properties.                                                             *)
(***************************************************************************)

\* Every variable stays in the set its declaration describes; no counter of the
\* accounting goes below zero.
TypeOK ==
    /\ inFlight \in Nat
    /\ byGroup \in [Groups -> Nat] /\ byTenant \in [Tenants -> Nat]
    /\ byResource \in [Resources -> Nat] /\ byLane \in [Lanes -> Nat]
    /\ held \subseteq Requests
    /\ queue \in Seq(Requests)
    /\ age \in [Requests -> 0..MaxRank]
    /\ recency \in Seq(Groups)
    /\ fresh \in BOOLEAN /\ selected \in Requests \cup {Nobody}
    /\ closed \in BOOLEAN

Count(S, F, v) == Cardinality({r \in S : F[r] = v})
TenantOfRequest == [r \in Requests |-> TenantOf[GroupOf[r]]]
ResourceOfRequest == [r \in Requests |-> ResourceOf[GroupOf[r]]]

\* Every counter of the hierarchy counts exactly the leases not released, so no
\* release meets the "accounting underflow" errors and no capacity leaks.
AccountingMatchesLeases ==
    /\ inFlight = Cardinality(held)
    /\ \A g \in Groups : byGroup[g] = Count(held, GroupOf, g)
    /\ \A l \in Lanes : byLane[l] = Count(held, LaneOf, l)
    /\ \A t \in Tenants : byTenant[t] = Count(held, TenantOfRequest, t)
    /\ \A x \in Resources : byResource[x] = Count(held, ResourceOfRequest, x)

\* The leases never exceed the budget at any level of the hierarchy.
BudgetRespected ==
    /\ Cardinality(held) <= MaxTotal
    /\ \A g \in Groups : Count(held, GroupOf, g) <= MaxGroup
    /\ \A l \in Lanes : Count(held, LaneOf, l) <= LaneLimit[l]
    /\ \A t \in Tenants : Count(held, TenantOfRequest, t) <= MaxTenant
    /\ \A x \in Resources : Count(held, ResourceOfRequest, x) <= MaxResource

\* A cached selection is never stale: it names a waiter that is still queued and
\* fits the budget, so _grant's "violated configured budget" is unreachable; and
\* when it names nobody, no waiter fits.
SelectionIsCurrent ==
    fresh => IF selected = Nobody THEN \A w \in Waiting : ~CanAdmit(w)
             ELSE selected \in Waiting /\ CanAdmit(selected)

\* A request in REJECT mode never takes capacity a waiter could have had, even
\* when it decides on a cached selection.
RejectNeverOvertakes ==
    [][\A r \in Requests :
          r \in held' \ held /\ r \notin Waiting /\ GroupOf[r] \in Rejecting =>
              \A w \in Waiting : ~CanAdmit(w)]_vars

\* Fairness among the waiters that fit: one that fits again and again leaves the
\* queue, or its own group is served again and again, or those whose turn it is keep
\* leaving without taking it.  Aging lifts every priority, and the group served
\* longest ago goes first.
Served(g) == \E q \in held' \ held : GroupOf[q] = g
TurnGivenUp == Select(queue) \in Waiting \ (Waiting' \cup held')
FittingWaitersTakeTurns ==
    \A r \in Requests :
        []<>(r \in Waiting /\ CanAdmit(r)) =>
            \/ []<>(r \notin Waiting)
            \/ []<><<Served(GroupOf[r])>>_vars
            \/ []<><<TurnGivenUp>>_vars
=============================================================================
