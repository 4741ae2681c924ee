--------------------------- MODULE ResourceLease ---------------------------
(***************************************************************************)
(* The durable lease and endpoint authority (one SQLite database) and its  *)
(* users: branch runtimes that allocate endpoints, keep their leases alive *)
(* by a heartbeat and release them; clients of the lease port; and whoever *)
(* reconciles.                                                             *)
(*                                                                         *)
(* Every call is one BEGIN IMMEDIATE transaction, so one action; but it    *)
(* reads the clock before it waits for the write lock, so the time it      *)
(* decides on may be old.  A call that waits for too long fails and        *)
(* changes nothing, like one that ends in an exception and a rollback.     *)
(***************************************************************************)
EXTENDS Naturals, Sequences, FiniteSets

CONSTANTS
    Branches, Clients, Endpoints,
    Allocations,     \* allocation ids
    AllocationsOf,   \* the allocations of a branch: server, then RCON endpoint
    Candidates,      \* the candidate endpoints of an allocation's request
    EndpointOf,      \* the endpoint each client of the lease port leases
    OwnerScope,      \* the scope for which an allocation or a client registers
    Scopes, Proofs, Nobody,
    Ttl,
    LockWait,        \* how old the time is that a call may decide on
    MaxTime,         \* bound: the clock stops here
    MaxCrashes       \* bound: crashes of each branch's process

Holders == Allocations \cup Clients
AllocatedBy(b) == {AllocationsOf[b][n] : n \in DOMAIN AllocationsOf[b]}

ASSUME ResourceLeaseAssumption ==
    /\ IsFiniteSet(Endpoints) /\ IsFiniteSet(Holders)
    /\ Allocations \cap Clients = {}
    /\ AllocationsOf \in [Branches -> Seq(Allocations) \ {<<>>}]
    /\ \A b, c \in Branches : b # c => AllocatedBy(b) \cap AllocatedBy(c) = {}
    /\ Candidates \in [Allocations -> Seq(Endpoints) \ {<<>>}]
    /\ EndpointOf \in [Clients -> Endpoints]
    /\ OwnerScope \in [Holders -> Scopes]
    /\ Nobody \notin Holders \X Endpoints /\ Nobody \notin Scopes /\ Nobody \notin Proofs
    /\ Ttl \in Nat \ {0} /\ LockWait \in Nat /\ MaxTime \in Nat /\ MaxCrashes \in [Branches -> Nat]

VARIABLES
    clock,
    owner,        \* resource_owners
    lastToken,    \* resource_lease_fencing
    lease,        \* resource_leases; the id names holder and endpoint
    allocation,   \* endpoint_allocations
    pc,           \* where each branch runtime is
    at,           \* the allocation it is about, an index
    trying,       \* the candidate it tries, an index
    held,         \* allocations it has still to release
    unwinding,    \* why it releases: "open" failed, a "close", or a close in which
                  \* something else raised, "faulty"
    heart,        \* the heartbeat: "off", "beating", "failed", or "lastBeat"
    crashes

tables == <<owner, lastToken, lease, allocation>>
progress == <<at, trying, held, unwinding, heart>>
users == <<pc, progress, crashes>>
vars == <<clock, tables, users>>

\* An id names the holder and, for an allocation, the endpoint.
LeaseIds ==
    {<<c, EndpointOf[c]>> : c \in Clients} \cup
    UNION {{<<a, Candidates[a][n]>> : n \in DOMAIN Candidates[a]} : a \in Allocations}
Forever == MaxTime + Ttl + 1

NoLease == [state |-> "none", token |-> 0, expires |-> 0]
NoAllocation == [state |-> "none", endpoint |-> Nobody, token |-> 0, expires |-> 0, proof |-> Nobody]

Init ==
    /\ clock = 0
    /\ owner = [e \in Endpoints |-> Nobody]
    /\ lastToken = [e \in Endpoints |-> 0]
    /\ lease = [l \in LeaseIds |-> NoLease]
    /\ allocation = [a \in Allocations |-> NoAllocation]
    /\ pc = [b \in Branches |-> "idle"]
    /\ at = [b \in Branches |-> 1]
    /\ trying = [b \in Branches |-> 1]
    /\ held = [b \in Branches |-> {}]
    /\ unwinding = [b \in Branches |-> "open"]
    /\ heart = [b \in Branches |-> "off"]
    /\ crashes = [b \in Branches |-> 0]

-----------------------------------------------------------------------------
(***************************************************************************)
(* The forms that a faulty version of the code would have.                 *)
(***************************************************************************)

BusyForgotten(e, leases) == FALSE
ReleasedRowGone(a) == [NoAllocation EXCEPT !.state = "released"]
ReleasedRowUnproven(a) == [allocation[a] EXCEPT !.state = "released", !.expires = 0, !.proof = Nobody]
ClearedByNobody(a, rec) == rec.lease
CleanlyClosedAnyhow(b) == unwinding[b] = "close"

-----------------------------------------------------------------------------
(***************************************************************************)
(* Pieces of transactions.                                                 *)
(***************************************************************************)

\* What time() may have given a call that now has the write lock.
Nows == {t \in 0..clock : clock - t <= LockWait}

Active(leases, l) == leases[l].state = "active"
OnEndpoint == [e \in Endpoints |-> {l \in LeaseIds : l[2] = e}]

\* The row of a lease or an allocation that ended; its expiry is read no more.
Ended(row, state) == [row EXCEPT !.state = state, !.expires = 0]

\* expire_lease, expire_resource and the global UPDATE of the reconcilers.
Expired(leases, S, now) ==
    [l \in LeaseIds |-> IF l \in S /\ Active(leases, l) /\ leases[l].expires <= now
                        THEN Ended(leases[l], "expired") ELSE leases[l]]

Busy(e, leases) == \E l \in OnEndpoint[e] : Active(leases, l)

IsLive(row) == row.state \in {"reserved", "bound"}
LeaseOf(a) == <<a, allocation[a].endpoint>>

\* An allocation outlived its lease.
Orphaned(row, a, leases) ==
    IsLive(row) /\ ~(/\ Active(leases, <<a, row.endpoint>>)
                     /\ leases[<<a, row.endpoint>>].token = row.token)

ReleasedRow(a) == Ended(allocation[a], "released")

\* _reconcile_one for every allocation of A.
Reconciled(A, now) ==
    LET leases == Expired(lease, {LeaseOf(a) : a \in {x \in A : IsLive(allocation[x])}}, now)
    IN  [lease |-> leases,
         allocation |-> [a \in Allocations |->
             IF a \in A /\ Orphaned(allocation[a], a, leases)
             THEN ReleasedRow(a) ELSE allocation[a]]]

\* A new lease under the next fencing token of its resource.
GrantLease(l, leases, expires) ==
    /\ lastToken' = [lastToken EXCEPT ![l[2]] = @ + 1]
    /\ lease' = [leases EXCEPT ![l] =
                    [state |-> "active", token |-> lastToken[l[2]] + 1, expires |-> expires]]

-----------------------------------------------------------------------------
(***************************************************************************)
(* The endpoint authority, used by the branch runtimes.                    *)
(***************************************************************************)

AllocationAt(b) == AllocationsOf[b][at[b]]
CandidateAt(b) == Candidates[AllocationAt(b)][trying[b]]

Goto(b, where) == pc' = [pc EXCEPT ![b] = where]

\* Reading an allocation commits its reconciliation.
ReadAllocation(a) ==
    /\ \E now \in Nows : /\ lease' = Reconciled({a}, now).lease
                         /\ allocation' = Reconciled({a}, now).allocation
    /\ UNCHANGED <<clock, owner, lastToken>>

\* allocate() returned: the next allocation, or the heartbeat starts.
Proceed(b) ==
    /\ held' = [held EXCEPT ![b] = @ \cup {AllocationAt(b)}]
    /\ trying' = [trying EXCEPT ![b] = 1]
    /\ IF at[b] < Len(AllocationsOf[b])
       THEN /\ at' = [at EXCEPT ![b] = @ + 1]
            /\ Goto(b, "getting")
            /\ UNCHANGED heart
       ELSE /\ Goto(b, "open")
            /\ heart' = [heart EXCEPT ![b] = "beating"]
            /\ UNCHANGED at
    /\ UNCHANGED unwinding

\* allocate() raised: what was allocated before is released in reverse order.
Abandon(b) ==
    /\ Goto(b, "releasing")
    /\ trying' = [trying EXCEPT ![b] = 1]
    /\ UNCHANGED <<at, held, unwinding, heart>>

NextCandidate(b) ==
    IF trying[b] < Len(Candidates[AllocationAt(b)])
    THEN /\ trying' = [trying EXCEPT ![b] = @ + 1]
         /\ UNCHANGED <<pc, at, held, unwinding, heart>>
    ELSE Abandon(b)

Open(b) ==
    /\ pc[b] = "idle"
    /\ Goto(b, "getting")
    /\ UNCHANGED <<clock, tables, progress, crashes>>

\* allocate(): an allocation id that is known is resumed, or refused for good
\* once it was released.
Get(b) ==
    /\ pc[b] = "getting"
    /\ ReadAllocation(AllocationAt(b))
    /\ LET row == allocation'[AllocationAt(b)]
       IN  \/ /\ row.state = "none"
              /\ Goto(b, "probing")
              /\ UNCHANGED progress
           \/ IsLive(row) /\ Proceed(b)
           \/ row.state = "released" /\ Abandon(b)
    /\ UNCHANGED crashes

\* The probe reads the operating system only, and may find the endpoint taken.
ProbeUnavailable(b) ==
    /\ pc[b] = "probing"
    /\ NextCandidate(b)
    /\ UNCHANGED <<clock, tables, crashes>>

\* The probe, then reserve() of an allocation id without a row, as allocate() has
\* just read it and no two branches share one; with its three results.
Reserve(b) ==
    /\ pc[b] = "probing"
    /\ LET a == AllocationAt(b)
           e == CandidateAt(b)
       IN  \/ /\ owner[e] \notin {Nobody, OwnerScope[a]}
              /\ UNCHANGED tables
              /\ NextCandidate(b)
           \/ /\ owner[e] \in {Nobody, OwnerScope[a]}
              /\ owner' = [owner EXCEPT ![e] = OwnerScope[a]]
              /\ \E now \in Nows :
                    LET leases == Expired(lease, OnEndpoint[e], now)
                    IN  \/ /\ Busy(e, leases)
                           /\ lease' = leases
                           /\ UNCHANGED <<lastToken, allocation>>
                           /\ NextCandidate(b)
                        \/ /\ ~Busy(e, leases)
                           /\ GrantLease(<<a, e>>, leases, now + Ttl)
                           /\ allocation' = [allocation EXCEPT ![a] =
                                 [state |-> "reserved", endpoint |-> e, proof |-> Nobody,
                                  token |-> lastToken[e] + 1, expires |-> now + Ttl]]
                           /\ Proceed(b)
    /\ UNCHANGED <<clock, crashes>>

\* allocate() raises, because the lock was not free in time or for another reason.
AllocateRaises(b) ==
    /\ pc[b] \in {"getting", "probing"}
    /\ Abandon(b)
    /\ UNCHANGED <<clock, tables, crashes>>

\* confirm_bound, whose proof carries the token the allocation was made under.  An
\* identical proof changes nothing more than the reconciliation does; every refusal
\* is rolled back.
ConfirmBound(a, proof) ==
    /\ \E now \in Nows :
          LET rec == Reconciled({a}, now)
              row == rec.allocation[a]
          IN  /\ \/ row.state = "reserved"
                 \/ row.state = "bound" /\ row.proof = proof
              /\ lease' = rec.lease
              /\ allocation' = [rec.allocation EXCEPT ![a].state = "bound", ![a].proof = proof]
    /\ UNCHANGED <<clock, owner, lastToken, users>>

Renewable(a, rec) == IsLive(rec.allocation[a])

\* renew (for one) and renew_many: all of them, or the exception rolls back.
Extended(A, rec, expires) ==
    /\ lease' = [l \in LeaseIds |->
                    IF l[1] \in A /\ l = LeaseOf(l[1]) /\ Active(rec.lease, l)
                    THEN [rec.lease[l] EXCEPT !.expires = expires] ELSE rec.lease[l]]
    /\ allocation' = [a \in Allocations |->
                    IF a \in A THEN [rec.allocation[a] EXCEPT !.expires = expires]
                    ELSE rec.allocation[a]]

RenewAllocation(a) ==
    /\ \E now \in Nows :
          LET rec == Reconciled({a}, now)
          IN  Renewable(a, rec) /\ Extended({a}, rec, now + Ttl)
    /\ UNCHANGED <<clock, owner, lastToken, users>>

\* The guard's tick.  One that had begun before the guard was closed may still
\* commit while the branch releases.
Beat(b) ==
    /\ heart[b] \in {"beating", "lastBeat"}
    /\ \/ /\ \E now \in Nows :
                LET rec == Reconciled(AllocatedBy(b), now)
                IN  /\ \A a \in AllocatedBy(b) : Renewable(a, rec)
                    /\ Extended(AllocatedBy(b), rec, now + Ttl)
          /\ heart' = [heart EXCEPT ![b] = IF @ = "lastBeat" THEN "off" ELSE @]
       \/ /\ heart' = [heart EXCEPT ![b] = IF @ = "lastBeat" THEN "off" ELSE "failed"]
          /\ UNCHANGED <<lease, allocation>>
    /\ UNCHANGED <<clock, owner, lastToken, pc, at, trying, held, unwinding, crashes>>

\* The branch cannot be composed once its heartbeat runs ("open" again), open_session
\* fails, or close() is called, perhaps once more.  A session or a server that does
\* not stop and a heartbeat that failed are errors of close, and the releases are
\* made in any case.  A tick may be on its way when the guard is closed.
Close(b) ==
    /\ pc[b] \in {"open", "unclosed"}
    /\ \E why \in {"open", "faulty", "close"} :
          /\ why = "open" => pc[b] = "open"
          /\ heart[b] = "failed" => why # "close"
          /\ unwinding' = [unwinding EXCEPT ![b] = why]
    /\ \E h \in {"off", "lastBeat"} :
          /\ h = "lastBeat" => heart[b] \in {"beating", "lastBeat"}
          /\ heart' = [heart EXCEPT ![b] = h]
    /\ at' = [at EXCEPT ![b] = Len(AllocationsOf[b])]
    /\ Goto(b, "releasing")
    /\ UNCHANGED <<clock, tables, trying, held, crashes>>

\* Release in one transaction; the lease is the one that the allocation names.
Cleared(a, rec) ==
    [l \in LeaseIds |-> IF l = LeaseOf(a) /\ Active(rec.lease, l)
                        THEN Ended(rec.lease[l], "released") ELSE rec.lease[l]]

ReleaseAllocation(a, now) ==
    LET rec == Reconciled({a}, now)
    IN  /\ lease' = IF IsLive(rec.allocation[a]) THEN Cleared(a, rec) ELSE rec.lease
        /\ allocation' = [rec.allocation EXCEPT ![a] =
                             IF IsLive(rec.allocation[a]) THEN ReleasedRow(a) ELSE @]

\* The next allocation of the pass: released, or the release raised.
Release(b) ==
    /\ pc[b] = "releasing" /\ at[b] > 0
    /\ at' = [at EXCEPT ![b] = @ - 1]
    /\ \/ /\ AllocationAt(b) \in held[b]
          /\ \E now \in Nows : ReleaseAllocation(AllocationAt(b), now)
          /\ held' = [held EXCEPT ![b] = @ \ {AllocationAt(b)}]
       \/ UNCHANGED <<lease, allocation, held>>
    /\ UNCHANGED <<clock, owner, lastToken, pc, trying, unwinding, heart, crashes>>

CleanlyClosed(b) == unwinding[b] = "close" /\ held[b] = {}

\* The locals of the pass are gone, and after a failed open the branch as well.
Released(b) ==
    /\ pc[b] = "releasing" /\ at[b] = 0
    /\ Goto(b, CASE unwinding[b] = "open" -> "failed"
                 [] CleanlyClosed(b) -> "closed"
                 [] OTHER -> "unclosed")
    /\ held' = [held EXCEPT ![b] = IF unwinding[b] = "open" THEN {} ELSE @]
    /\ unwinding' = [unwinding EXCEPT ![b] = "open"]
    /\ UNCHANGED <<clock, tables, at, trying, heart, crashes>>

\* The branch's process dies with its heartbeat; another may open the same branch.
Crash(b) ==
    /\ pc[b] \notin {"idle", "closed", "failed"} /\ crashes[b] < MaxCrashes[b]
    /\ crashes' = [crashes EXCEPT ![b] = @ + 1]
    /\ Goto(b, "idle")
    /\ at' = [at EXCEPT ![b] = 1] /\ trying' = [trying EXCEPT ![b] = 1]
    /\ held' = [held EXCEPT ![b] = {}]
    /\ unwinding' = [unwinding EXCEPT ![b] = "open"]
    /\ heart' = [heart EXCEPT ![b] = "off"]
    /\ UNCHANGED <<clock, tables>>

-----------------------------------------------------------------------------
(***************************************************************************)
(* The lease port, used by its clients, and the reconcilers.               *)
(***************************************************************************)

RegisterOwner(c) ==
    /\ owner[EndpointOf[c]] = Nobody
    /\ owner' = [owner EXCEPT ![EndpointOf[c]] = OwnerScope[c]]
    /\ UNCHANGED <<clock, lastToken, lease, allocation, users>>

\* Rows of leases and of fencing tokens refer to the owner and are never deleted:
\* the foreign keys refuse to remove the owner of what was ever leased.
RemoveOwner(e) ==
    /\ owner[e] # Nobody /\ lastToken[e] = 0
    /\ owner' = [owner EXCEPT ![e] = Nobody]
    /\ UNCHANGED <<clock, lastToken, lease, allocation, users>>

\* acquire.  The same active intent is found again; every other row with this id,
\* and another active lease of the resource, is a conflict and rolled back.
Acquire(c) ==
    LET l == <<c, EndpointOf[c]>>
    IN  /\ owner[l[2]] # Nobody
        /\ \E now \in Nows :
              LET leases == Expired(lease, OnEndpoint[l[2]], now)
              IN  \/ Active(leases, l) /\ lease' = leases /\ UNCHANGED lastToken
                  \/ /\ leases[l].state = "none" /\ ~Busy(l[2], leases)
                     /\ \E expires \in {now + Ttl, Forever} : GrantLease(l, leases, expires)
        /\ UNCHANGED <<clock, owner, allocation, users>>

\* renew under the token of the grant: refused, and rolled back, once it is over.
\* It is for the clients' leases: that of an allocation is renewed by the endpoint
\* authority together with its row, and nobody renews it by the lease port.
Renew(c) ==
    LET l == <<c, EndpointOf[c]>>
    IN  /\ \E now \in Nows :
              /\ Active(Expired(lease, {l}, now), l)
              /\ lease' = [lease EXCEPT ![l].expires = now + Ttl]
        /\ UNCHANGED <<clock, owner, lastToken, allocation, users>>

\* release, which anybody may call who knows the id; what is not active stays.
ReleaseLease(l) ==
    /\ Active(lease, l)
    /\ \E now \in Nows :
          LET leases == Expired(lease, {l}, now)
          IN  lease' = [leases EXCEPT ![l] = IF Active(leases, l) THEN Ended(@, "released") ELSE @]
    /\ UNCHANGED <<clock, owner, lastToken, allocation, users>>

\* get and active_for, which expire what they read, and reconcile_expired.
ReadLeases(S) ==
    /\ \E l \in S : Active(lease, l)
    /\ \E now \in Nows : lease' = Expired(lease, S, now)
    /\ UNCHANGED <<clock, owner, lastToken, allocation, users>>

\* reconcile_orphans, and active.
ReconcileOrphans ==
    /\ \E now \in Nows :
          LET leases == Expired(lease, LeaseIds, now)
          IN  /\ lease' = leases
              /\ allocation' = [a \in Allocations |->
                    IF Orphaned(allocation[a], a, leases) THEN ReleasedRow(a) ELSE allocation[a]]
    /\ UNCHANGED <<clock, owner, lastToken, users>>

Tick ==
    /\ clock < MaxTime
    /\ clock' = clock + 1
    /\ UNCHANGED <<tables, users>>

BranchNext(b) ==
    \/ Open(b) \/ Get(b) \/ ProbeUnavailable(b) \/ Reserve(b) \/ AllocateRaises(b)
    \/ Close(b) \/ Release(b) \/ Released(b) \/ Beat(b) \/ Crash(b)

Next ==
    \/ \E b \in Branches : BranchNext(b)
    \/ \E a \in Allocations : \/ \E p \in Proofs : ConfirmBound(a, p)
                              \/ RenewAllocation(a)
                              \/ IsLive(allocation[a]) /\ ReadAllocation(a) /\ UNCHANGED users
    \/ \E c \in Clients : RegisterOwner(c) \/ Acquire(c) \/ Renew(c)
    \/ \E e \in Endpoints : RemoveOwner(e) \/ ReadLeases(OnEndpoint[e])
    \/ \E l \in LeaseIds : ReleaseLease(l) \/ ReadLeases({l})
    \/ ReadLeases(LeaseIds)
    \/ ReconcileOrphans
    \/ Tick

Spec == Init /\ [][Next]_vars

-----------------------------------------------------------------------------
(***************************************************************************)
(* Properties.                                                             *)
(***************************************************************************)

LeaseRows == [state : {"none", "active", "released", "expired"}, token : Nat, expires : 0..Forever]
AllocationRows ==
    [state : {"none", "reserved", "bound", "released"}, endpoint : Endpoints \cup {Nobody},
     token : Nat, expires : 0..Forever, proof : Proofs \cup {Nobody}]

\* Every variable stays in the set its declaration describes; an allocation that
\* has a row has an endpoint.
TypeOK ==
    /\ clock \in 0..MaxTime
    /\ owner \in [Endpoints -> Scopes \cup {Nobody}]
    /\ lastToken \in [Endpoints -> Nat]
    /\ lease \in [LeaseIds -> LeaseRows]
    /\ allocation \in [Allocations -> AllocationRows]
    /\ \A a \in Allocations : allocation[a].state # "none" => allocation[a].endpoint \in Endpoints
    /\ \A b \in Branches : at[b] \in 0..Len(AllocationsOf[b]) /\ held[b] \subseteq AllocatedBy(b)
    /\ heart \in [Branches -> {"off", "beating", "failed", "lastBeat"}]

\* Leases implement the fenced lock: one holder, growing tokens, nobody driven out
\* before its time, no grant revived, whoever renews, releases or reconciles late.
Lock == INSTANCE FencedLock WITH
    Resources <- Endpoints, Grants <- LeaseIds, Times <- 0..Forever,
    holding <- [e \in Endpoints |-> {[grant |-> l, until |-> lease[l].expires] :
                                     l \in {x \in OnEndpoint[e] : Active(lease, x)}}],
    token <- lastToken,
    used <- {l \in LeaseIds : lease[l].state # "none"}
ImplementsFencedLock == Lock!Spec

\* An endpoint is never leased to an allocation that does not have it: every active
\* lease of an allocation is the one its live row names, under the same token and
\* until the same time, although the two tables are changed by many hands.
LeasesHaveAllocations ==
    \A l \in LeaseIds : Active(lease, l) /\ l[1] \in Allocations =>
        LET row == allocation[l[1]]
        IN  /\ IsLive(row) /\ row.endpoint = l[2]
            /\ row.token = lease[l].token /\ row.expires = lease[l].expires

\* RESERVED -> BOUND -> RELEASED: an allocation never goes back, is given one proof
\* at most, and keeps it when it is released.
AllocationsGoForward ==
    [][\A a \in Allocations :
          LET old == allocation[a]  new == allocation'[a]
          IN  /\ old.state = "released" => new = old
              /\ old.state = "bound" => new.state \in {"bound", "released"}
              /\ old.proof # Nobody => new.proof = old.proof
              /\ old.state # "none" => new.endpoint = old.endpoint /\ new.token = old.token]_vars

\* A close that returned normally has given all endpoints of the branch back, for
\* good, whatever tick of the heartbeat was still on its way.
CleanCloseReleases ==
    \A b \in Branches : pc[b] = "closed" =>
        /\ \A a \in AllocatedBy(b) : allocation[a].state = "released"
        /\ \A l \in LeaseIds : l[1] \in AllocatedBy(b) => ~Active(lease, l)
=============================================================================
