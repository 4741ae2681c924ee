------------------------ MODULE ResourceLeaseProofs ------------------------
(***************************************************************************)
(* For any branches, clients, endpoints and times, and however old the     *)
(* time is that a transaction decides on: the tables implement the fenced  *)
(* lock, leases and allocations agree, allocations only go forward, and a  *)
(* clean close gives everything back.                                      *)
(***************************************************************************)
EXTENDS ResourceLease, TLAPS

-----------------------------------------------------------------------------
(***************************************************************************)
(* The inductive invariant, of the tables.  It is stated of any pair of    *)
(* tables L and A, since a transaction changes them in several steps.      *)
(***************************************************************************)

OneHolder(L) == \A l, m \in LeaseIds : Active(L, l) /\ Active(L, m) /\ l[2] = m[2] => l = m

Agree(L, A) ==
    \A l \in LeaseIds : Active(L, l) /\ l[1] \in Allocations =>
        LET row == A[l[1]]
        IN  /\ IsLive(row) /\ row.endpoint = l[2]
            /\ row.token = L[l].token /\ row.expires = L[l].expires

\* An allocation without a row never had a lease, one with a row has an id for
\* its lease, and a proof comes with the binding.
RowOK(L, A, a) ==
    /\ A[a].state = "none" => /\ A[a] = NoAllocation
                              /\ \A l \in LeaseIds : l[1] = a => L[l].state = "none"
    /\ A[a].state # "none" => A[a].endpoint \in Endpoints /\ <<a, A[a].endpoint>> \in LeaseIds
    /\ A[a].state = "reserved" => A[a].proof = Nobody

TablesOK(L, A) ==
    /\ L \in [LeaseIds -> LeaseRows]
    /\ A \in [Allocations -> AllocationRows]
    /\ OneHolder(L)
    /\ Agree(L, A)
    /\ \A a \in Allocations : RowOK(L, A, a)

\* What every transaction that grants nothing does to the leases, ...
Weakens(L, M) ==
    \A l \in LeaseIds : /\ M[l].state = "none" <=> L[l].state = "none"
                        /\ Active(M, l) => Active(L, l)

\* ... and every one to the allocations.
Forward(A, B) ==
    \A a \in Allocations :
        LET old == A[a]  new == B[a]
        IN  /\ old.state = "released" => new = old
            /\ old.state = "bound" => new.state \in {"bound", "released"}
            /\ old.proof # Nobody => new.proof = old.proof
            /\ old.state = "none" <=> new.state = "none"
            /\ old.state # "none" => new.endpoint = old.endpoint /\ new.token = old.token

-----------------------------------------------------------------------------
(***************************************************************************)
(* Rows and ids.                                                           *)
(***************************************************************************)

\* An id is a pair of a holder and an endpoint.
LEMMA Ids ==
    /\ \A l \in LeaseIds : l[1] \in Holders /\ l[2] \in Endpoints /\ l = <<l[1], l[2]>>
    /\ \A a \in Allocations : \A n \in DOMAIN Candidates[a] : <<a, Candidates[a][n]>> \in LeaseIds
    /\ \A c \in Clients : <<c, EndpointOf[c]>> \in LeaseIds
<1>1. \A a \in Allocations : Candidates[a] \in Seq(Endpoints)
  BY ResourceLeaseAssumption
<1>2. \A a \in Allocations : \A n \in DOMAIN Candidates[a] : Candidates[a][n] \in Endpoints
  BY <1>1
<1>3. ASSUME NEW l \in LeaseIds
      PROVE  l[1] \in Holders /\ l[2] \in Endpoints /\ l = <<l[1], l[2]>>
  <2>1. \/ \E c \in Clients : l = <<c, EndpointOf[c]>>
        \/ \E a \in Allocations : \E n \in DOMAIN Candidates[a] : l = <<a, Candidates[a][n]>>
    BY DEF LeaseIds
  <2> QED
    BY <2>1, <1>2, ResourceLeaseAssumption DEF Holders
<1>4. \A a \in Allocations : \A n \in DOMAIN Candidates[a] : <<a, Candidates[a][n]>> \in LeaseIds
  BY DEF LeaseIds
<1>5. \A c \in Clients : <<c, EndpointOf[c]>> \in LeaseIds
  BY DEF LeaseIds
<1> QED
  BY <1>3, <1>4, <1>5

LEMMA Constants ==
    /\ Ttl \in Nat /\ Ttl > 0 /\ MaxTime \in Nat /\ LockWait \in Nat /\ Forever \in Nat
    /\ Forever = MaxTime + Ttl + 1
BY ResourceLeaseAssumption DEF Forever

\* Only the state and the expiry of a row change when it ends.
LEMMA EndedLease ==
    ASSUME NEW r \in LeaseRows, NEW s \in {"released", "expired"}
    PROVE  /\ Ended(r, s) \in LeaseRows
           /\ Ended(r, s).state = s /\ Ended(r, s).token = r.token
<1>1. 0 \in 0..Forever
  BY Constants
<1> QED
  BY <1>1 DEF Ended, LeaseRows

LEMMA EndedAllocation ==
    ASSUME NEW r \in AllocationRows
    PROVE  LET e == Ended(r, "released")
           IN  /\ e \in AllocationRows
               /\ e.state = "released" /\ e.token = r.token
               /\ e.endpoint = r.endpoint /\ e.proof = r.proof
<1>1. 0 \in 0..Forever
  BY Constants
<1> QED
  BY <1>1 DEF Ended, AllocationRows

\* A time that a transaction decides on is not ahead of the clock.
LEMMA NowsType ==
    ASSUME clock \in 0..MaxTime, NEW now \in Nows
    PROVE  now \in Nat /\ now <= clock /\ now + Ttl \in 0..Forever /\ Forever \in 0..Forever
BY Constants DEF Nows

-----------------------------------------------------------------------------
(***************************************************************************)
(* The pieces of a transaction.                                            *)
(***************************************************************************)

LEMMA WeakensTransitive ==
    ASSUME NEW L, NEW M, NEW N, Weakens(L, M), Weakens(M, N)
    PROVE  Weakens(L, N)
BY DEF Weakens

LEMMA ForwardTransitive ==
    ASSUME NEW A, NEW B, NEW C, Forward(A, B), Forward(B, C),
           \A a \in Allocations : B[a].state \in {"none", "reserved", "bound", "released"}
    PROVE  Forward(A, C)
BY DEF Forward

\* Leases that end take nothing from what is known of the others.
LEMMA FewerLeases ==
    ASSUME NEW L, NEW A, TablesOK(L, A), NEW M \in [LeaseIds -> LeaseRows],
           \A l \in LeaseIds : \/ M[l] = L[l]
                               \/ Active(L, l) /\ M[l].state \in {"released", "expired"}
    PROVE  TablesOK(M, A) /\ Weakens(L, M)
<1>1. Weakens(L, M)
  BY DEF Weakens, Active
<1>2. OneHolder(M)
  BY <1>1 DEF TablesOK, OneHolder, Weakens
<1>3. \A l \in LeaseIds : Active(M, l) => M[l] = L[l]
  BY DEF Active
<1>4. Agree(M, A)
  BY <1>1, <1>3 DEF TablesOK, Agree, Weakens
<1>5. \A a \in Allocations : RowOK(M, A, a)
  BY <1>1 DEF TablesOK, RowOK, Weakens
<1> QED
  BY <1>1, <1>2, <1>4, <1>5 DEF TablesOK

\* Allocations that have no lease may be released.
LEMMA FreedAllocations ==
    ASSUME NEW L, NEW A, TablesOK(L, A), NEW B \in [Allocations -> AllocationRows],
           \A a \in Allocations :
              \/ B[a] = A[a]
              \/ /\ IsLive(A[a]) /\ B[a] = Ended(A[a], "released")
                 /\ ~Active(L, <<a, A[a].endpoint>>)
    PROVE  TablesOK(L, B) /\ Forward(A, B)
<1>1. ASSUME NEW a \in Allocations, B[a] # A[a]
      PROVE  /\ A[a].state \in {"reserved", "bound"}
             /\ B[a].state = "released" /\ B[a].token = A[a].token
             /\ B[a].endpoint = A[a].endpoint /\ B[a].proof = A[a].proof
             /\ ~Active(L, <<a, A[a].endpoint>>)
  <2>1. A[a] \in AllocationRows
    BY DEF TablesOK
  <2> QED
    BY <1>1, <2>1, EndedAllocation DEF IsLive
<1>2. Forward(A, B)
  BY <1>1 DEF Forward
<1>3. Agree(L, B)
  <2> SUFFICES ASSUME NEW l \in LeaseIds, Active(L, l), l[1] \in Allocations
               PROVE  B[l[1]] = A[l[1]]
    BY DEF Agree, TablesOK
  <2>1. A[l[1]].endpoint = l[2] /\ l = <<l[1], l[2]>>
    BY Ids DEF TablesOK, Agree
  <2> QED
    BY <1>1, <2>1
<1>4. \A a \in Allocations : RowOK(L, B, a)
  BY <1>1 DEF TablesOK, RowOK
<1> QED
  BY <1>2, <1>3, <1>4 DEF TablesOK

\* Expiring leases, of which only those end whose time has passed.
LEMMA ExpiredOK ==
    ASSUME NEW A, TablesOK(lease, A), NEW S, NEW now
    PROVE  LET M == Expired(lease, S, now)
           IN  /\ TablesOK(M, A) /\ Weakens(lease, M)
               /\ \A l \in LeaseIds : Active(lease, l) /\ ~Active(M, l) => lease[l].expires <= now
               /\ \A l \in LeaseIds : Active(M, l) => M[l] = lease[l]
               /\ \A l \in S \cap LeaseIds : Active(M, l) => ~(lease[l].expires <= now)
<1> DEFINE M == Expired(lease, S, now)
<1>1. lease \in [LeaseIds -> LeaseRows]
  BY DEF TablesOK
<1>2. ASSUME NEW l \in LeaseIds
      PROVE  /\ M[l] \in LeaseRows
             /\ \/ M[l] = lease[l]
                \/ /\ Active(lease, l) /\ M[l].state = "expired"
                   /\ lease[l].expires <= now
             /\ l \in S /\ Active(lease, l) /\ lease[l].expires <= now => M[l].state = "expired"
  <2>1. CASE l \in S /\ Active(lease, l) /\ lease[l].expires <= now
    <3>1. M[l] = Ended(lease[l], "expired")
      BY <2>1 DEF Expired
    <3> QED
      BY <1>1, <2>1, <3>1, EndedLease
  <2>2. CASE ~(l \in S /\ Active(lease, l) /\ lease[l].expires <= now)
    <3>1. M[l] = lease[l]
      BY <2>2 DEF Expired
    <3> QED
      BY <1>1, <2>2, <3>1
  <2> QED
    BY <2>1, <2>2
<1>3. M \in [LeaseIds -> LeaseRows]
  <2>1. M = [l \in LeaseIds |-> M[l]]
    BY DEF Expired
  <2> HIDE DEF M
  <2> QED
    BY <1>2, <2>1
<1> HIDE DEF M
<1>4. TablesOK(M, A) /\ Weakens(lease, M)
  BY <1>2, <1>3, FewerLeases
<1>5. \A l \in LeaseIds : Active(lease, l) /\ ~Active(M, l) => lease[l].expires <= now
  BY <1>2 DEF Active
<1>6. \A l \in LeaseIds : Active(M, l) => M[l] = lease[l]
  BY <1>2 DEF Active
<1>7. \A l \in S \cap LeaseIds : Active(M, l) => ~(lease[l].expires <= now)
  BY <1>2, <1>6 DEF Active
<1> QED
  BY <1>4, <1>5, <1>6, <1>7 DEF M

\* Releasing the allocations of A0 that outlived their leases M.
LEMMA OrphansFreed ==
    ASSUME TablesOK(lease, allocation), NEW M, TablesOK(M, allocation), NEW A0
    PROVE  LET B == [a \in Allocations |->
                        IF a \in A0 /\ Orphaned(allocation[a], a, M)
                        THEN ReleasedRow(a) ELSE allocation[a]]
           IN  /\ TablesOK(M, B) /\ Forward(allocation, B)
               /\ \A a \in Allocations : IsLive(B[a]) => B[a] = allocation[a]
               /\ \A a \in A0 \cap Allocations : IsLive(B[a]) => Active(M, <<a, B[a].endpoint>>)
<1> DEFINE B == [a \in Allocations |->
                    IF a \in A0 /\ Orphaned(allocation[a], a, M)
                    THEN ReleasedRow(a) ELSE allocation[a]]
<1>1. allocation \in [Allocations -> AllocationRows]
  BY DEF TablesOK
<1>2. ASSUME NEW a \in Allocations
      PROVE  /\ B[a] \in AllocationRows
             /\ \/ B[a] = allocation[a]
                \/ /\ IsLive(allocation[a]) /\ B[a] = Ended(allocation[a], "released")
                   /\ ~Active(M, <<a, allocation[a].endpoint>>)
             /\ IsLive(B[a]) => B[a] = allocation[a]
             /\ a \in A0 /\ IsLive(B[a]) => Active(M, <<a, B[a].endpoint>>)
  <2>1. CASE a \in A0 /\ Orphaned(allocation[a], a, M)
    <3>1. B[a] = Ended(allocation[a], "released") /\ IsLive(allocation[a])
      BY <2>1 DEF ReleasedRow, Orphaned
    <3>2. B[a] \in AllocationRows /\ B[a].state = "released"
      BY <1>1, <3>1, EndedAllocation
    <3>3. ~Active(M, <<a, allocation[a].endpoint>>)
      <4> SUFFICES ASSUME Active(M, <<a, allocation[a].endpoint>>) PROVE FALSE
        OBVIOUS
      <4>1. <<a, allocation[a].endpoint>> \in LeaseIds
        BY <3>1 DEF TablesOK, RowOK, IsLive
      <4>2. allocation[a].token = M[<<a, allocation[a].endpoint>>].token
        BY <4>1 DEF TablesOK, Agree
      <4> QED
        BY <2>1, <4>2 DEF Orphaned
    <3> QED
      BY <3>1, <3>2, <3>3 DEF IsLive
  <2>2. CASE ~(a \in A0 /\ Orphaned(allocation[a], a, M))
    <3>1. B[a] = allocation[a]
      BY <2>2
    <3> QED
      BY <1>1, <2>2, <3>1 DEF Orphaned
  <2> QED
    BY <2>1, <2>2
<1>3. B \in [Allocations -> AllocationRows]
  <2>1. B = [a \in Allocations |-> B[a]]
    OBVIOUS
  <2> HIDE DEF B
  <2> QED
    BY <1>2, <2>1
<1> HIDE DEF B
<1>4. TablesOK(M, B) /\ Forward(allocation, B)
  BY <1>2, <1>3, FreedAllocations
<1>5. \A a \in Allocations : IsLive(B[a]) => B[a] = allocation[a]
  BY <1>2
<1>6. \A a \in A0 \cap Allocations : IsLive(B[a]) => Active(M, <<a, B[a].endpoint>>)
  BY <1>2
<1> QED
  BY <1>4, <1>5, <1>6 DEF B

\* The reconciliation every transaction on allocations begins with.  What is
\* live after it was so before, and has its lease.
LEMMA ReconciledOK ==
    ASSUME TablesOK(lease, allocation), NEW A0, NEW now
    PROVE  LET rec == Reconciled(A0, now)
           IN  /\ TablesOK(rec.lease, rec.allocation)
               /\ Weakens(lease, rec.lease)
               /\ Forward(allocation, rec.allocation)
               /\ \A a \in Allocations : IsLive(rec.allocation[a]) => rec.allocation[a] = allocation[a]
               /\ \A a \in A0 \cap Allocations :
                     IsLive(rec.allocation[a]) => Active(rec.lease, LeaseOf(a))
<1> DEFINE M == Expired(lease, {LeaseOf(a) : a \in {x \in A0 : IsLive(allocation[x])}}, now)
           B == [a \in Allocations |->
                    IF a \in A0 /\ Orphaned(allocation[a], a, M)
                    THEN ReleasedRow(a) ELSE allocation[a]]
<1>1. Reconciled(A0, now) = [lease |-> M, allocation |-> B]
  BY DEF Reconciled
<1>2. TablesOK(M, allocation) /\ Weakens(lease, M)
  BY ExpiredOK
<1>3. /\ TablesOK(M, B) /\ Forward(allocation, B)
      /\ \A a \in Allocations : IsLive(B[a]) => B[a] = allocation[a]
      /\ \A a \in A0 \cap Allocations : IsLive(B[a]) => Active(M, <<a, B[a].endpoint>>)
  <2> HIDE DEF M
  <2> QED
    BY <1>2, OrphansFreed
<1>4. Reconciled(A0, now).lease = M /\ Reconciled(A0, now).allocation = B
  BY <1>1
<1> HIDE DEF M, B
<1> QED
  BY <1>2, <1>3, <1>4 DEF LeaseOf

-----------------------------------------------------------------------------
(***************************************************************************)
(* The transactions.  Each of them either grants one lease, or weakens     *)
(* leases and moves allocations forward.                                   *)
(***************************************************************************)

Tables == TablesOK(lease, allocation) /\ clock \in 0..MaxTime /\ lastToken \in [Endpoints -> Nat]

QuietStep ==
    /\ TablesOK(lease, allocation)'
    /\ Weakens(lease, lease') /\ Forward(allocation, allocation')
    /\ UNCHANGED <<clock, lastToken>>

GrantStep ==
    \E l \in LeaseIds :
        /\ lease[l].state = "none" /\ Active(lease', l)
        /\ lastToken' = [lastToken EXCEPT ![l[2]] = @ + 1]
        /\ \A m \in LeaseIds : m[2] = l[2] /\ Active(lease, m) => lease[m].expires <= clock
        /\ \A m \in LeaseIds : m # l => /\ lease'[m].state = "none" <=> lease[m].state = "none"
                                        /\ Active(lease', m) => Active(lease, m)
        /\ \A m \in LeaseIds : m[2] # l[2] => lease'[m] = lease[m]
        /\ \A a \in Allocations : a # l[1] => allocation'[a] = allocation[a]
        /\ l[1] \in Allocations => allocation[l[1]].state = "none"
        /\ TablesOK(lease, allocation)'
        /\ UNCHANGED clock

LEMMA ReadAllocationStep ==
    ASSUME Tables, NEW a, ReadAllocation(a)
    PROVE  QuietStep
BY ReconciledOK DEF Tables, ReadAllocation, QuietStep

\* Renewing the leases and the allocations of A0 together keeps them together.
LEMMA ExtendedStep ==
    ASSUME Tables, NEW A0 \in SUBSET Allocations, NEW now, NEW expires \in 0..Forever,
           \A a \in A0 : Renewable(a, Reconciled(A0, now)),
           Extended(A0, Reconciled(A0, now), expires),
           UNCHANGED <<clock, lastToken>>
    PROVE  QuietStep
<1> DEFINE M == Reconciled(A0, now).lease
           B == Reconciled(A0, now).allocation
<1>1. /\ TablesOK(M, B) /\ Weakens(lease, M) /\ Forward(allocation, B)
      /\ \A a \in Allocations : IsLive(B[a]) => B[a] = allocation[a]
  BY ReconciledOK DEF Tables
<1>2. /\ lease' = [l \in LeaseIds |->
                      IF l[1] \in A0 /\ l = LeaseOf(l[1]) /\ Active(M, l)
                      THEN [M[l] EXCEPT !.expires = expires] ELSE M[l]]
      /\ allocation' = [a \in Allocations |->
                      IF a \in A0 THEN [B[a] EXCEPT !.expires = expires] ELSE B[a]]
      /\ \A a \in A0 : IsLive(B[a])
  BY DEF Extended, Renewable
<1> HIDE DEF M, B
<1>3. ASSUME NEW l \in LeaseIds
      PROVE  /\ lease'[l] \in LeaseRows
             /\ lease'[l].state = M[l].state /\ lease'[l].token = M[l].token
             /\ lease'[l].expires = IF l[1] \in A0 /\ l = LeaseOf(l[1]) /\ Active(M, l)
                                    THEN expires ELSE M[l].expires
  <2>1. M[l] \in LeaseRows
    BY <1>1 DEF TablesOK
  <2>2. [M[l] EXCEPT !.expires = expires] \in LeaseRows
    BY <2>1 DEF LeaseRows
  <2>3. CASE l[1] \in A0 /\ l = LeaseOf(l[1]) /\ Active(M, l)
    <3>1. lease'[l] = [M[l] EXCEPT !.expires = expires]
      BY <1>2, <2>3
    <3> QED
      BY <2>1, <2>2, <2>3, <3>1 DEF LeaseRows
  <2>4. CASE ~(l[1] \in A0 /\ l = LeaseOf(l[1]) /\ Active(M, l))
    <3>1. lease'[l] = M[l]
      BY <1>2, <2>4
    <3> QED
      BY <2>1, <2>4, <3>1
  <2> QED
    BY <2>3, <2>4
<1>4. ASSUME NEW a \in Allocations
      PROVE  /\ allocation'[a] \in AllocationRows
             /\ allocation'[a].state = B[a].state /\ allocation'[a].token = B[a].token
             /\ allocation'[a].endpoint = B[a].endpoint /\ allocation'[a].proof = B[a].proof
             /\ allocation'[a].expires = IF a \in A0 THEN expires ELSE B[a].expires
             /\ a \notin A0 => allocation'[a] = B[a]
  <2>1. B[a] \in AllocationRows
    BY <1>1 DEF TablesOK
  <2>2. CASE a \in A0
    <3>1. allocation'[a] = [B[a] EXCEPT !.expires = expires]
      BY <1>2, <2>2
    <3> QED
      BY <2>1, <2>2, <3>1 DEF AllocationRows
  <2>3. CASE a \notin A0
    <3>1. allocation'[a] = B[a]
      BY <1>2, <2>3
    <3> QED
      BY <2>1, <2>3, <3>1
  <2> QED
    BY <2>2, <2>3
<1>5. lease' \in [LeaseIds -> LeaseRows] /\ allocation' \in [Allocations -> AllocationRows]
  <2>1. lease' = [l \in LeaseIds |-> lease'[l]] /\ allocation' = [a \in Allocations |-> allocation'[a]]
    BY <1>2
  <2> QED
    BY <1>3, <1>4, <2>1
<1>6. OneHolder(lease')
  BY <1>1, <1>3 DEF TablesOK, OneHolder, Active
<1>7. Agree(lease', allocation')
  <2> SUFFICES ASSUME NEW l \in LeaseIds, Active(lease', l), l[1] \in Allocations
               PROVE  /\ IsLive(allocation'[l[1]]) /\ allocation'[l[1]].endpoint = l[2]
                      /\ allocation'[l[1]].token = lease'[l].token
                      /\ allocation'[l[1]].expires = lease'[l].expires
    BY DEF Agree
  <2>1. Active(M, l)
    BY <1>3 DEF Active
  <2>2. /\ IsLive(B[l[1]]) /\ B[l[1]].endpoint = l[2]
        /\ B[l[1]].token = M[l].token /\ B[l[1]].expires = M[l].expires
    BY <1>1, <2>1 DEF TablesOK, Agree
  <2>3. l = LeaseOf(l[1])
    BY <1>1, <2>2, Ids DEF LeaseOf
  <2> QED
    BY <1>3, <1>4, <2>1, <2>2, <2>3 DEF IsLive
<1>8. \A a \in Allocations : RowOK(lease', allocation', a)
  <2> SUFFICES ASSUME NEW a \in Allocations PROVE RowOK(lease', allocation', a)
    OBVIOUS
  <2>1. RowOK(M, B, a)
    BY <1>1 DEF TablesOK
  <2>2. B[a].state = "none" => a \notin A0
    BY <1>2 DEF IsLive
  <2> QED
    BY <1>3, <1>4, <2>1, <2>2 DEF RowOK
<1>9. Weakens(lease, lease') /\ Forward(allocation, allocation')
  <2>1. Weakens(M, lease')
    BY <1>3 DEF Weakens, Active
  <2>2. Weakens(lease, lease')
    BY <1>1, <2>1, WeakensTransitive
  <2>3. \A a \in Allocations : B[a].state = "released" => allocation'[a] = B[a]
    BY <1>2, <1>4 DEF IsLive
  <2>4. Forward(B, allocation')
    BY <1>4, <2>3 DEF Forward
  <2>5. \A a \in Allocations : B[a].state \in {"none", "reserved", "bound", "released"}
    BY <1>1 DEF TablesOK, AllocationRows
  <2> QED
    BY <1>1, <2>2, <2>4, <2>5, ForwardTransitive
<1> QED
  BY <1>5, <1>6, <1>7, <1>8, <1>9 DEF QuietStep, TablesOK

LEMMA ConfirmBoundStep ==
    ASSUME Tables, NEW a \in Allocations, NEW proof \in Proofs, ConfirmBound(a, proof)
    PROVE  QuietStep
<1>1. PICK now \in Nows :
         LET rec == Reconciled({a}, now)
             row == rec.allocation[a]
         IN  /\ \/ row.state = "reserved"
                \/ row.state = "bound" /\ row.proof = proof
             /\ lease' = rec.lease
             /\ allocation' = [rec.allocation EXCEPT ![a].state = "bound", ![a].proof = proof]
  BY DEF ConfirmBound
<1> DEFINE M == Reconciled({a}, now).lease
           B == Reconciled({a}, now).allocation
<1>2. TablesOK(M, B) /\ Weakens(lease, M) /\ Forward(allocation, B)
  BY ReconciledOK DEF Tables
<1>3. /\ B[a].state = "reserved" \/ (B[a].state = "bound" /\ B[a].proof = proof)
      /\ lease' = M
      /\ allocation' = [B EXCEPT ![a].state = "bound", ![a].proof = proof]
  BY <1>1
<1> HIDE DEF M, B
<1>4. B \in [Allocations -> AllocationRows]
  BY <1>2 DEF TablesOK
<1>5. /\ allocation' \in [Allocations -> AllocationRows]
      /\ allocation'[a].state = "bound" /\ allocation'[a].proof = proof
      /\ allocation'[a].endpoint = B[a].endpoint /\ allocation'[a].token = B[a].token
      /\ allocation'[a].expires = B[a].expires
      /\ \A x \in Allocations \ {a} : allocation'[x] = B[x]
  BY <1>3, <1>4 DEF AllocationRows
<1>6. Agree(M, allocation')
  BY <1>2, <1>3, <1>5 DEF TablesOK, Agree, IsLive
<1>7. \A x \in Allocations : RowOK(M, allocation', x)
  BY <1>2, <1>3, <1>5 DEF TablesOK, RowOK
<1>8. Forward(B, allocation')
  <2>1. B[a].state = "reserved" => B[a].proof = Nobody
    BY <1>2 DEF TablesOK, RowOK
  <2> QED
    BY <1>3, <1>5, <2>1 DEF Forward
<1>9. Forward(allocation, allocation')
  <2>1. \A x \in Allocations : B[x].state \in {"none", "reserved", "bound", "released"}
    BY <1>4 DEF AllocationRows
  <2> QED
    BY <1>2, <1>8, <2>1, ForwardTransitive
<1> QED
  BY <1>2, <1>3, <1>5, <1>6, <1>7, <1>9 DEF QuietStep, TablesOK, ConfirmBound

\* After a release the allocation is released, whatever it was.
LEMMA ReleaseAllocationStep ==
    ASSUME Tables, NEW a \in Allocations, NEW now, ReleaseAllocation(a, now),
           UNCHANGED <<clock, lastToken>>
    PROVE  /\ QuietStep
           /\ allocation[a].state # "none" => allocation'[a].state = "released"
<1> DEFINE rec == Reconciled({a}, now)
           M == rec.lease
           B == rec.allocation
<1>1. /\ TablesOK(M, B) /\ Weakens(lease, M) /\ Forward(allocation, B)
      /\ \A x \in Allocations : IsLive(B[x]) => B[x] = allocation[x]
  BY ReconciledOK DEF Tables
<1>2. B \in [Allocations -> AllocationRows] /\ M \in [LeaseIds -> LeaseRows]
  BY <1>1 DEF TablesOK
<1>3. \A x \in Allocations : B[x].state \in {"none", "reserved", "bound", "released"}
  BY <1>2 DEF AllocationRows
<1>4. /\ lease' = IF IsLive(B[a]) THEN Cleared(a, rec) ELSE M
      /\ allocation' = [B EXCEPT ![a] = IF IsLive(B[a]) THEN ReleasedRow(a) ELSE B[a]]
  BY DEF ReleaseAllocation
<1>5. Cleared(a, rec) = [l \in LeaseIds |-> IF l = LeaseOf(a) /\ Active(M, l)
                                            THEN Ended(M[l], "released") ELSE M[l]]
  BY DEF Cleared
<1> HIDE DEF rec, M, B
<1>6. CASE ~IsLive(B[a])
  <2>1. lease' = M /\ allocation' = B
    BY <1>2, <1>4, <1>6
  <2>2. allocation[a].state # "none" => B[a].state # "none"
    BY <1>1 DEF Forward
  <2> QED
    BY <1>1, <1>3, <1>6, <2>1, <2>2 DEF QuietStep, IsLive
<1>7. CASE IsLive(B[a])
  <2>1. B[a] = allocation[a] /\ B[a] \in AllocationRows
    BY <1>1, <1>2, <1>7
  <2>2. \A l \in LeaseIds : \/ lease'[l] = M[l] /\ ~(l = LeaseOf(a) /\ Active(M, l))
                            \/ Active(M, l) /\ lease'[l] = Ended(M[l], "released")
    BY <1>4, <1>5, <1>7
  <2>3. ASSUME NEW l \in LeaseIds
        PROVE  /\ lease'[l] \in LeaseRows
               /\ \/ lease'[l] = M[l] /\ ~(l = LeaseOf(a) /\ Active(M, l))
                  \/ Active(M, l) /\ lease'[l].state = "released"
    <3>1. M[l] \in LeaseRows
      BY <1>2
    <3> QED
      BY <2>2, <3>1, EndedLease
  <2>4. lease' \in [LeaseIds -> LeaseRows]
    <3>1. lease' = [l \in LeaseIds |-> lease'[l]]
      BY <1>4, <1>5, <1>7
    <3> QED
      BY <2>3, <3>1
  <2>5. TablesOK(lease', B) /\ Weakens(M, lease')
    BY <1>1, <2>3, <2>4, FewerLeases
  <2>6. ~Active(lease', <<a, B[a].endpoint>>)
    <3>1. <<a, B[a].endpoint>> = LeaseOf(a) /\ <<a, B[a].endpoint>> \in LeaseIds
      BY <1>1, <1>7, <2>1 DEF LeaseOf, TablesOK, RowOK, IsLive
    <3> QED
      BY <2>3, <3>1 DEF Active
  <2>7. allocation' = [B EXCEPT ![a] = Ended(B[a], "released")]
    BY <1>4, <1>7, <2>1 DEF ReleasedRow
  <2>8. Ended(B[a], "released") \in AllocationRows /\ Ended(B[a], "released").state = "released"
    BY <2>1, EndedAllocation
  <2>9. /\ allocation' \in [Allocations -> AllocationRows]
        /\ \A x \in Allocations :
              \/ allocation'[x] = B[x]
              \/ /\ IsLive(B[x]) /\ allocation'[x] = Ended(B[x], "released")
                 /\ ~Active(lease', <<x, B[x].endpoint>>)
        /\ allocation'[a].state = "released"
    BY <1>2, <1>7, <2>6, <2>7, <2>8
  <2>10. TablesOK(lease', allocation') /\ Forward(B, allocation')
    BY <2>5, <2>9, FreedAllocations
  <2>11. Weakens(lease, lease') /\ Forward(allocation, allocation')
    BY <1>1, <1>3, <2>5, <2>10, WeakensTransitive, ForwardTransitive
  <2> QED
    BY <2>9, <2>10, <2>11 DEF QuietStep
<1> QED
  BY <1>6, <1>7

\* Expiring what it reads, a transaction that grants nothing is quiet.
LEMMA ExpireStep ==
    ASSUME Tables, NEW S, NEW now, lease' = Expired(lease, S, now),
           UNCHANGED <<clock, lastToken, allocation>>
    PROVE  QuietStep
<1>1. Forward(allocation, allocation)
  BY DEF Forward
<1> QED
  BY <1>1, ExpiredOK DEF Tables, QuietStep

\* A lease that was never granted is granted under the next token, on an
\* endpoint whose leases all have ended.  L is the lease table in which those
\* whose time has passed are expired.
LEMMA GrantLeaseStep ==
    ASSUME Tables, NEW l \in LeaseIds, NEW now \in Nows, NEW expires \in 0..Forever,
           NEW L, L = Expired(lease, OnEndpoint[l[2]], now),
           ~Busy(l[2], L), L[l].state = "none",
           GrantLease(l, L, expires),
           allocation' \in [Allocations -> AllocationRows],
           \A a \in Allocations : a # l[1] => allocation'[a] = allocation[a],
           l[1] \in Allocations =>
               LET row == allocation'[l[1]]
               IN  /\ row.state = "reserved" /\ row.endpoint = l[2] /\ row.proof = Nobody
                   /\ row.token = lastToken[l[2]] + 1 /\ row.expires = expires,
           l[1] \in Allocations => allocation[l[1]].state = "none",
           UNCHANGED clock
    PROVE  GrantStep
<1>1. /\ TablesOK(L, allocation) /\ Weakens(lease, L)
      /\ \A m \in LeaseIds : Active(lease, m) /\ ~Active(L, m) => lease[m].expires <= now
  BY ExpiredOK DEF Tables
<1>2. /\ L \in [LeaseIds -> LeaseRows] /\ lastToken \in [Endpoints -> Nat] /\ l[2] \in Endpoints
  BY <1>1, Ids DEF TablesOK, Tables
<1>3. lastToken[l[2]] + 1 \in Nat
  BY <1>2
<1>4. /\ lastToken' = [lastToken EXCEPT ![l[2]] = @ + 1]
      /\ lease' = [L EXCEPT ![l] = [state |-> "active", token |-> lastToken[l[2]] + 1,
                                    expires |-> expires]]
  BY DEF GrantLease
<1>5. /\ lease' \in [LeaseIds -> LeaseRows]
      /\ lease'[l].state = "active" /\ lease'[l].token = lastToken[l[2]] + 1
      /\ lease'[l].expires = expires
      /\ \A m \in LeaseIds \ {l} : lease'[m] = L[m]
  <2>1. [state |-> "active", token |-> lastToken[l[2]] + 1, expires |-> expires] \in LeaseRows
    BY <1>3 DEF LeaseRows
  <2> QED
    BY <1>2, <1>4, <2>1
<1>6. \A m \in LeaseIds : m[2] = l[2] => ~Active(L, m)
  BY <1>2 DEF Busy, OnEndpoint
<1>7. \A m \in LeaseIds : m[2] = l[2] /\ Active(lease, m) => lease[m].expires <= clock
  <2>1. now <= clock /\ now \in Nat /\ clock \in Nat
    BY NowsType DEF Tables
  <2> SUFFICES ASSUME NEW m \in LeaseIds, m[2] = l[2], Active(lease, m)
               PROVE  lease[m].expires <= clock
    OBVIOUS
  <2>2. lease[m].expires <= now
    BY <1>1, <1>6
  <2>3. lease[m].expires \in Nat
    BY DEF Tables, TablesOK, LeaseRows
  <2> QED
    BY <2>1, <2>2, <2>3
<1>8. OneHolder(lease')
  BY <1>1, <1>5, <1>6 DEF TablesOK, OneHolder, Active
<1>9. Agree(lease', allocation')
  <2> SUFFICES ASSUME NEW m \in LeaseIds, Active(lease', m), m[1] \in Allocations
               PROVE  /\ IsLive(allocation'[m[1]]) /\ allocation'[m[1]].endpoint = m[2]
                      /\ allocation'[m[1]].token = lease'[m].token
                      /\ allocation'[m[1]].expires = lease'[m].expires
    BY DEF Agree
  <2>1. CASE m = l
    BY <1>5, <2>1 DEF IsLive
  <2>2. CASE m # l
    <3>1. Active(L, m) /\ lease'[m] = L[m]
      BY <1>5, <2>2 DEF Active
    <3>2. /\ IsLive(allocation[m[1]]) /\ allocation[m[1]].endpoint = m[2]
          /\ allocation[m[1]].token = L[m].token /\ allocation[m[1]].expires = L[m].expires
      BY <1>1, <3>1 DEF TablesOK, Agree
    <3>3. allocation'[m[1]] = allocation[m[1]]
      BY <3>2 DEF IsLive
    <3> QED
      BY <3>1, <3>2, <3>3
  <2> QED
    BY <2>1, <2>2
<1>10. \A a \in Allocations : RowOK(lease', allocation', a)
  <2> SUFFICES ASSUME NEW a \in Allocations PROVE RowOK(lease', allocation', a)
    OBVIOUS
  <2>1. RowOK(L, allocation, a)
    BY <1>1 DEF TablesOK
  <2>2. CASE a = l[1]
    <3>1. l = <<l[1], l[2]>>
      BY Ids
    <3> QED
      BY <1>2, <2>2, <3>1 DEF RowOK
  <2>3. CASE a # l[1]
    BY <1>5, <2>1, <2>3 DEF RowOK
  <2> QED
    BY <2>2, <2>3
<1>11. TablesOK(lease', allocation')
  BY <1>5, <1>8, <1>9, <1>10 DEF TablesOK
<1>12. lease[l].state = "none" /\ Active(lease', l)
  BY <1>1, <1>5 DEF Weakens, Active
<1>13. \A m \in LeaseIds : m # l => /\ lease'[m].state = "none" <=> lease[m].state = "none"
                                    /\ Active(lease', m) => Active(lease, m)
  BY <1>1, <1>5 DEF Weakens, Active
<1>14. \A m \in LeaseIds : m[2] # l[2] => lease'[m] = lease[m]
  <2> SUFFICES ASSUME NEW m \in LeaseIds, m[2] # l[2]
               PROVE  lease'[m] = lease[m]
    OBVIOUS
  <2>1. m \notin OnEndpoint[l[2]] /\ m # l
    BY <1>2 DEF OnEndpoint
  <2> QED
    BY <1>5, <2>1 DEF Expired
<1> QED
  BY <1>4, <1>7, <1>11, <1>12, <1>13, <1>14 DEF GrantStep

LEMMA AcquireStep ==
    ASSUME Tables, NEW c \in Clients, Acquire(c)
    PROVE  QuietStep \/ GrantStep
<1> DEFINE l == <<c, EndpointOf[c]>>
<1>1. l \in LeaseIds /\ l[1] = c /\ l[2] = EndpointOf[c] /\ c \notin Allocations
  BY Ids, ResourceLeaseAssumption
<1>2. UNCHANGED <<clock, allocation>>
  BY DEF Acquire
<1>3. PICK now \in Nows :
         LET leases == Expired(lease, OnEndpoint[l[2]], now)
         IN  \/ Active(leases, l) /\ lease' = leases /\ UNCHANGED lastToken
             \/ /\ leases[l].state = "none" /\ ~Busy(l[2], leases)
                /\ \E expires \in {now + Ttl, Forever} : GrantLease(l, leases, expires)
  BY DEF Acquire
<1> DEFINE L == Expired(lease, OnEndpoint[l[2]], now)
<1>4. CASE lease' = L /\ UNCHANGED lastToken
  BY <1>2, <1>4, ExpireStep
<1>5. ASSUME NEW expires \in {now + Ttl, Forever},
             L[l].state = "none", ~Busy(l[2], L), GrantLease(l, L, expires)
      PROVE  GrantStep
  <2>1. expires \in 0..Forever
    BY NowsType DEF Tables
  <2>2. allocation' \in [Allocations -> AllocationRows]
    BY <1>2 DEF Tables, TablesOK
  <2>3. l[1] \notin Allocations /\ \A a \in Allocations : allocation'[a] = allocation[a]
    BY <1>1, <1>2
  <2> HIDE DEF l
  <2> QED
    BY <1>1, <1>2, <1>5, <2>1, <2>2, <2>3, GrantLeaseStep
<1> QED
  BY <1>3, <1>4, <1>5

\* Prolonging a client's lease concerns no allocation.
LEMMA RenewStep ==
    ASSUME Tables, NEW c \in Clients, Renew(c)
    PROVE  QuietStep
<1> DEFINE l == <<c, EndpointOf[c]>>
<1>1. l \in LeaseIds /\ l[1] = c /\ c \notin Allocations
  BY Ids, ResourceLeaseAssumption
<1>2. PICK now \in Nows : /\ Active(Expired(lease, {l}, now), l)
                          /\ lease' = [lease EXCEPT ![l].expires = now + Ttl]
  BY DEF Renew
<1>3. UNCHANGED <<clock, lastToken, allocation>>
  BY DEF Renew
<1> HIDE DEF l
<1>4. Active(lease, l)
  BY <1>1, <1>2, ExpiredOK DEF Tables, Weakens
<1>5. lease \in [LeaseIds -> LeaseRows] /\ now + Ttl \in 0..Forever
  BY NowsType DEF Tables, TablesOK
<1>6. /\ lease' \in [LeaseIds -> LeaseRows]
      /\ lease'[l].state = lease[l].state
      /\ \A m \in LeaseIds \ {l} : lease'[m] = lease[m]
  BY <1>1, <1>2, <1>5 DEF LeaseRows
<1>7. Weakens(lease, lease') /\ Forward(allocation, allocation')
  BY <1>3, <1>6 DEF Weakens, Forward, Active
<1>8. OneHolder(lease')
  BY <1>7 DEF Tables, TablesOK, OneHolder, Weakens
<1>9. Agree(lease', allocation')
  BY <1>1, <1>3, <1>6, <1>7 DEF Tables, TablesOK, Agree, Weakens
<1>10. \A a \in Allocations : RowOK(lease', allocation', a)
  BY <1>3, <1>7 DEF Tables, TablesOK, RowOK, Weakens
<1> QED
  BY <1>3, <1>6, <1>7, <1>8, <1>9, <1>10 DEF Tables, TablesOK, QuietStep

LEMMA ReleaseLeaseStep ==
    ASSUME Tables, NEW l \in LeaseIds, ReleaseLease(l)
    PROVE  QuietStep
<1>1. PICK now \in Nows :
         LET leases == Expired(lease, {l}, now)
         IN  lease' = [leases EXCEPT ![l] = IF Active(leases, l) THEN Ended(@, "released") ELSE @]
  BY DEF ReleaseLease
<1>2. UNCHANGED <<clock, lastToken, allocation>>
  BY DEF ReleaseLease
<1> DEFINE L == Expired(lease, {l}, now)
<1>3. TablesOK(L, allocation) /\ Weakens(lease, L)
  BY ExpiredOK DEF Tables
<1>4. lease' = [L EXCEPT ![l] = IF Active(L, l) THEN Ended(L[l], "released") ELSE L[l]]
  BY <1>1
<1> HIDE DEF L
<1>5. L \in [LeaseIds -> LeaseRows]
  BY <1>3 DEF TablesOK
<1>6. Ended(L[l], "released") \in LeaseRows /\ Ended(L[l], "released").state = "released"
  BY <1>5, EndedLease
<1>7. /\ lease' \in [LeaseIds -> LeaseRows]
      /\ \A m \in LeaseIds : \/ lease'[m] = L[m]
                             \/ Active(L, m) /\ lease'[m].state \in {"released", "expired"}
  BY <1>4, <1>5, <1>6
<1>8. TablesOK(lease', allocation) /\ Weakens(L, lease')
  BY <1>3, <1>7, FewerLeases
<1>9. Weakens(lease, lease') /\ Forward(allocation, allocation')
  BY <1>2, <1>3, <1>8, WeakensTransitive DEF Forward
<1> QED
  BY <1>2, <1>8, <1>9 DEF QuietStep

LEMMA ReconcileOrphansStep ==
    ASSUME Tables, ReconcileOrphans
    PROVE  QuietStep
<1>1. PICK now \in Nows :
         LET leases == Expired(lease, LeaseIds, now)
         IN  /\ lease' = leases
             /\ allocation' = [a \in Allocations |->
                    IF Orphaned(allocation[a], a, leases) THEN ReleasedRow(a) ELSE allocation[a]]
  BY DEF ReconcileOrphans
<1> DEFINE L == Expired(lease, LeaseIds, now)
<1>2. TablesOK(L, allocation) /\ Weakens(lease, L)
  BY ExpiredOK DEF Tables
<1>3. allocation' = [a \in Allocations |->
                        IF a \in Allocations /\ Orphaned(allocation[a], a, L)
                        THEN ReleasedRow(a) ELSE allocation[a]]
  BY <1>1
<1>4. lease' = L
  BY <1>1
<1> HIDE DEF L
<1>5. TablesOK(L, allocation') /\ Forward(allocation, allocation')
  BY <1>2, <1>3, OrphansFreed DEF Tables
<1> QED
  BY <1>2, <1>4, <1>5 DEF QuietStep, ReconcileOrphans

-----------------------------------------------------------------------------
(***************************************************************************)
(* The branches.                                                           *)
(***************************************************************************)

PCs == {"idle", "getting", "probing", "open", "releasing", "failed", "closed", "unclosed"}

Hearts == {"off", "beating", "failed", "lastBeat"}

UsersTyped ==
    /\ pc \in [Branches -> PCs]
    /\ at \in [Branches -> Nat]
    /\ trying \in [Branches -> Nat]
    /\ held \in [Branches -> SUBSET Allocations]
    /\ unwinding \in [Branches -> {"open", "close", "faulty"}]
    /\ heart \in [Branches -> Hearts]
    /\ crashes \in [Branches -> Nat]

\* A branch has still to release what it holds, or it was released by others.
Kept(b, a) == allocation[a].state # "none" /\ (a \in held[b] \/ allocation[a].state = "released")

\* The branch was composed: from then on it accounts for all its allocations.
Composed(b) == pc[b] \in {"open", "unclosed"} \/ (pc[b] = "releasing" /\ unwinding[b] # "open")

BranchOK(b) ==
    /\ at[b] \in 0..Len(AllocationsOf[b])
    /\ held[b] \subseteq AllocatedBy(b)
    /\ pc[b] # "releasing" => unwinding[b] = "open"
    /\ pc[b] = "idle" => at[b] = 1
    /\ pc[b] \in {"getting", "probing"} => at[b] >= 1
    /\ pc[b] \in {"idle", "getting"} => trying[b] = 1
    /\ pc[b] = "probing" => /\ trying[b] \in 1..Len(Candidates[AllocationAt(b)])
                            /\ allocation[AllocationAt(b)].state = "none"
    /\ pc[b] \in {"getting", "probing"} => \A n \in 1..(at[b] - 1) : Kept(b, AllocationsOf[b][n])
    /\ Composed(b) => \A a \in AllocatedBy(b) : Kept(b, a)
    /\ pc[b] = "closed" => \A a \in AllocatedBy(b) : allocation[a].state = "released"

Inv ==
    /\ Tables
    /\ owner \in [Endpoints -> Scopes \cup {Nobody}]
    /\ UsersTyped
    /\ \A b \in Branches : BranchOK(b)

\* A branch has allocations and each allocation candidates; no two branches
\* share an allocation.
LEMMA Branching ==
    /\ \A b \in Branches :
          /\ Len(AllocationsOf[b]) \in Nat /\ Len(AllocationsOf[b]) >= 1
          /\ \A n \in 1..Len(AllocationsOf[b]) :
                AllocationsOf[b][n] \in AllocatedBy(b) /\ AllocationsOf[b][n] \in Allocations
          /\ \A a \in AllocatedBy(b) :
                a \in Allocations /\ \E n \in 1..Len(AllocationsOf[b]) : a = AllocationsOf[b][n]
    /\ \A a \in Allocations :
          /\ Len(Candidates[a]) \in Nat /\ Len(Candidates[a]) >= 1
          /\ \A n \in 1..Len(Candidates[a]) :
                Candidates[a][n] \in Endpoints /\ <<a, Candidates[a][n]>> \in LeaseIds
    /\ \A b, c \in Branches : b # c => AllocatedBy(b) \cap AllocatedBy(c) = {}
<1>1. ASSUME NEW b \in Branches
      PROVE  /\ Len(AllocationsOf[b]) \in Nat /\ Len(AllocationsOf[b]) >= 1
             /\ DOMAIN AllocationsOf[b] = 1..Len(AllocationsOf[b])
             /\ \A n \in 1..Len(AllocationsOf[b]) : AllocationsOf[b][n] \in Allocations
  <2>1. AllocationsOf[b] \in Seq(Allocations) /\ AllocationsOf[b] # <<>>
    BY ResourceLeaseAssumption
  <2> QED
    BY <2>1
<1>2. ASSUME NEW a \in Allocations
      PROVE  /\ Len(Candidates[a]) \in Nat /\ Len(Candidates[a]) >= 1
             /\ DOMAIN Candidates[a] = 1..Len(Candidates[a])
             /\ \A n \in 1..Len(Candidates[a]) : Candidates[a][n] \in Endpoints
  <2>1. Candidates[a] \in Seq(Endpoints) /\ Candidates[a] # <<>>
    BY ResourceLeaseAssumption
  <2> QED
    BY <2>1
<1>3. \A b, c \in Branches : b # c => AllocatedBy(b) \cap AllocatedBy(c) = {}
  BY ResourceLeaseAssumption
<1>4. \A b \in Branches : AllocatedBy(b) = {AllocationsOf[b][n] : n \in 1..Len(AllocationsOf[b])}
  BY <1>1 DEF AllocatedBy
<1>5. \A a \in Allocations : \A n \in 1..Len(Candidates[a]) : <<a, Candidates[a][n]>> \in LeaseIds
  BY <1>2, Ids
<1> QED
  BY <1>1, <1>2, <1>3, <1>4, <1>5

\* The allocation a branch is about.
LEMMA AllocationAtType ==
    ASSUME NEW b \in Branches, at[b] \in 0..Len(AllocationsOf[b]), at[b] >= 1
    PROVE  AllocationAt(b) \in AllocatedBy(b) /\ AllocationAt(b) \in Allocations
BY Branching DEF AllocationAt

\* What a transaction may do to an allocation of a branch that is not in it.
Settled(a) ==
    /\ allocation'[a].state = "none" <=> allocation[a].state = "none"
    /\ allocation[a].state = "released" => allocation'[a].state = "released"

LEMMA QuietSettles ==
    ASSUME QuietStep
    PROVE  \A a \in Allocations : Settled(a)
BY DEF QuietStep, Forward, Settled

LEMMA BranchKept ==
    ASSUME NEW b \in Branches, BranchOK(b),
           \A a \in AllocatedBy(b) : Settled(a),
           pc'[b] = pc[b], at'[b] = at[b], trying'[b] = trying[b], held'[b] = held[b],
           unwinding'[b] = unwinding[b]
    PROVE  BranchOK(b)'
<1>1. \A a \in AllocatedBy(b) : Kept(b, a) => Kept(b, a)'
  BY DEF Kept, Settled
<1>2. AllocationAt(b)' = AllocationAt(b)
  BY DEF AllocationAt
<1>3. pc[b] = "probing" => AllocationAt(b) \in AllocatedBy(b)
  BY AllocationAtType DEF BranchOK
<1>4. pc[b] \in {"getting", "probing"} => \A n \in 1..(at[b] - 1) : AllocationsOf[b][n] \in AllocatedBy(b)
  BY Branching DEF BranchOK
<1> QED
  BY <1>1, <1>2, <1>3, <1>4 DEF BranchOK, Composed, Settled

\* A transaction by somebody else.
LEMMA UsersKept ==
    ASSUME Inv, QuietStep, owner' \in [Endpoints -> Scopes \cup {Nobody}], UNCHANGED users
    PROVE  Inv'
<1>1. Tables'
  BY DEF Inv, Tables, QuietStep
<1>2. UsersTyped'
  BY DEF Inv, UsersTyped, users, progress
<1>3. \A b \in Branches : BranchOK(b)'
  <2> SUFFICES ASSUME NEW b \in Branches PROVE BranchOK(b)'
    OBVIOUS
  <2>1. \A a \in AllocatedBy(b) : Settled(a)
    BY Branching, QuietSettles
  <2> QED
    BY <2>1, BranchKept DEF Inv, users, progress
<1> QED
  BY <1>1, <1>2, <1>3 DEF Inv

\* A step of branch b leaves the others alone.
OnlyBranch(b) ==
    \A c \in Branches \ {b} :
        /\ pc'[c] = pc[c] /\ at'[c] = at[c] /\ trying'[c] = trying[c]
        /\ held'[c] = held[c] /\ unwinding'[c] = unwinding[c]

LEMMA BranchStep ==
    ASSUME Inv, Tables', owner' \in [Endpoints -> Scopes \cup {Nobody}],
           NEW b \in Branches, UsersTyped', OnlyBranch(b), BranchOK(b)',
           \A a \in Allocations : Settled(a) \/ a \in AllocatedBy(b)
    PROVE  Inv'
<1>1. ASSUME NEW c \in Branches \ {b} PROVE BranchOK(c)'
  <2>1. \A a \in AllocatedBy(c) : Settled(a)
    BY Branching
  <2> QED
    BY <2>1, BranchKept DEF Inv, OnlyBranch
<1> QED
  BY <1>1 DEF Inv

\* allocate() returned: what it allocated is held.
LEMMA ProceedStep ==
    ASSUME UsersTyped, NEW b \in Branches, BranchOK(b), pc[b] \in {"getting", "probing"},
           Proceed(b), UNCHANGED crashes,
           \A a \in AllocatedBy(b) : \/ Settled(a)
                                     \/ allocation[a].state = "none",
           allocation'[AllocationAt(b)].state # "none"
    PROVE  UsersTyped' /\ OnlyBranch(b) /\ BranchOK(b)'
<1> DEFINE a == AllocationAt(b)
<1>1. /\ at[b] \in 1..Len(AllocationsOf[b]) /\ Len(AllocationsOf[b]) \in Nat
      /\ a \in AllocatedBy(b) /\ a \in Allocations /\ a = AllocationsOf[b][at[b]]
  BY Branching, AllocationAtType DEF BranchOK, AllocationAt
<1>2. held' = [held EXCEPT ![b] = held[b] \cup {a}] /\ trying' = [trying EXCEPT ![b] = 1]
  BY DEF Proceed
<1>3. UNCHANGED <<unwinding, crashes>>
  BY DEF Proceed
<1>4. \A x \in AllocatedBy(b) : Kept(b, x) => allocation'[x].state # "none" /\
                                   (x \in held'[b] \/ allocation'[x].state = "released")
  BY <1>2 DEF Kept, Settled, UsersTyped
<1>5. a \in held'[b] /\ held'[b] \subseteq AllocatedBy(b) /\ held' \in [Branches -> SUBSET Allocations]
  BY <1>1, <1>2 DEF UsersTyped, BranchOK
<1>6. \A n \in 1..at[b] : AllocationsOf[b][n] \in AllocatedBy(b) /\ Kept(b, AllocationsOf[b][n])'
  <2> SUFFICES ASSUME NEW n \in 1..at[b]
               PROVE  AllocationsOf[b][n] \in AllocatedBy(b) /\ Kept(b, AllocationsOf[b][n])'
    OBVIOUS
  <2>1. AllocationsOf[b][n] \in AllocatedBy(b)
    BY <1>1, Branching
  <2>2. CASE n = at[b]
    BY <1>1, <1>5, <2>1, <2>2 DEF Kept
  <2>3. CASE n # at[b]
    <3>1. n \in 1..(at[b] - 1)
      BY <1>1, <2>3
    <3>2. Kept(b, AllocationsOf[b][n])
      BY <3>1 DEF BranchOK
    <3> QED
      BY <1>4, <2>1, <3>2 DEF Kept
  <2> QED
    BY <2>2, <2>3
<1>7. CASE at[b] < Len(AllocationsOf[b])
  <2>1. /\ at' = [at EXCEPT ![b] = @ + 1] /\ pc' = [pc EXCEPT ![b] = "getting"] /\ UNCHANGED heart
    BY <1>7 DEF Proceed, Goto
  <2>2. at'[b] = at[b] + 1 /\ pc'[b] = "getting" /\ trying'[b] = 1 /\ unwinding'[b] = "open"
    BY <1>2, <1>3, <2>1 DEF UsersTyped, BranchOK
  <2>3. UsersTyped'
    BY <1>2, <1>3, <1>5, <2>1 DEF UsersTyped, PCs
  <2>4. OnlyBranch(b)
    BY <1>2, <1>3, <2>1 DEF UsersTyped, OnlyBranch
  <2>5. at'[b] - 1 = at[b]
    BY <1>1, <2>2
  <2>6. \A n \in 1..(at'[b] - 1) : Kept(b, AllocationsOf[b][n])'
    BY <1>6, <2>5
  <2>7. BranchOK(b)'
    BY <1>1, <1>5, <1>7, <2>2, <2>6 DEF BranchOK, Composed
  <2> QED
    BY <2>3, <2>4, <2>7
<1>8. CASE ~(at[b] < Len(AllocationsOf[b]))
  <2>1. pc' = [pc EXCEPT ![b] = "open"] /\ UNCHANGED at /\ heart' = [heart EXCEPT ![b] = "beating"]
    BY <1>8 DEF Proceed, Goto
  <2>2. at'[b] = at[b] /\ pc'[b] = "open" /\ unwinding'[b] = "open" /\ at[b] = Len(AllocationsOf[b])
    BY <1>1, <1>3, <1>8, <2>1 DEF UsersTyped, BranchOK
  <2>3. UsersTyped'
    BY <1>2, <1>3, <1>5, <2>1 DEF UsersTyped, PCs, Hearts
  <2>4. OnlyBranch(b)
    BY <1>2, <1>3, <2>1 DEF UsersTyped, OnlyBranch
  <2>5. \A x \in AllocatedBy(b) : Kept(b, x)'
    BY <1>6, <2>2, Branching
  <2>6. BranchOK(b)'
    BY <1>1, <1>5, <2>2, <2>5 DEF BranchOK
  <2> QED
    BY <2>3, <2>4, <2>6
<1> QED
  BY <1>7, <1>8

\* allocate() raised: nothing is claimed of a branch that was never composed.
LEMMA AbandonStep ==
    ASSUME UsersTyped, NEW b \in Branches, BranchOK(b), pc[b] \in {"getting", "probing"},
           Abandon(b), UNCHANGED crashes
    PROVE  UsersTyped' /\ OnlyBranch(b) /\ BranchOK(b)'
<1>1. /\ pc' = [pc EXCEPT ![b] = "releasing"] /\ trying' = [trying EXCEPT ![b] = 1]
      /\ UNCHANGED <<at, held, unwinding, heart, crashes>>
  BY DEF Abandon, Goto
<1>2. UsersTyped' /\ OnlyBranch(b)
  BY <1>1 DEF UsersTyped, OnlyBranch, PCs
<1>3. pc'[b] = "releasing" /\ unwinding'[b] = "open" /\ at'[b] = at[b] /\ held'[b] = held[b]
  BY <1>1 DEF UsersTyped, BranchOK
<1>4. BranchOK(b)'
  BY <1>3 DEF BranchOK, Composed
<1> QED
  BY <1>2, <1>4

LEMMA NextCandidateStep ==
    ASSUME UsersTyped, NEW b \in Branches, BranchOK(b), pc[b] = "probing",
           NextCandidate(b), UNCHANGED crashes,
           \A a \in AllocatedBy(b) : Settled(a)
    PROVE  UsersTyped' /\ OnlyBranch(b) /\ BranchOK(b)'
<1>1. CASE trying[b] < Len(Candidates[AllocationAt(b)])
  <2>1. /\ trying' = [trying EXCEPT ![b] = @ + 1]
        /\ UNCHANGED <<pc, at, held, unwinding, heart, crashes>>
    BY <1>1 DEF NextCandidate
  <2>2. UsersTyped' /\ OnlyBranch(b)
    BY <2>1 DEF UsersTyped, OnlyBranch
  <2>3. AllocationAt(b) \in AllocatedBy(b) /\ AllocationAt(b) \in Allocations
    BY AllocationAtType DEF BranchOK
  <2>4. trying'[b] \in 1..Len(Candidates[AllocationAt(b)])
    BY <1>1, <2>1, <2>3, Branching DEF UsersTyped
  <2>5. allocation'[AllocationAt(b)].state = "none" /\ AllocationAt(b)' = AllocationAt(b)
    BY <2>1, <2>3 DEF BranchOK, Settled, AllocationAt
  <2>6. \A n \in 1..(at[b] - 1) : Kept(b, AllocationsOf[b][n])'
    <3>1. \A n \in 1..(at[b] - 1) : AllocationsOf[b][n] \in AllocatedBy(b)
      BY Branching DEF BranchOK
    <3> QED
      BY <2>1, <3>1 DEF BranchOK, Kept, Settled
  <2>7. BranchOK(b)'
    BY <2>1, <2>4, <2>5, <2>6 DEF BranchOK, Composed
  <2> QED
    BY <2>2, <2>7
<1>2. CASE Abandon(b)
  BY <1>2, AbandonStep
<1> QED
  BY <1>1, <1>2 DEF NextCandidate

-----------------------------------------------------------------------------
(***************************************************************************)
(* The actions of a branch.                                                *)
(***************************************************************************)

\* Steps of a branch that leave the tables alone.
LEMMA TablesKept ==
    ASSUME Inv, UNCHANGED <<clock, tables>>
    PROVE  /\ Tables' /\ QuietStep
           /\ owner' \in [Endpoints -> Scopes \cup {Nobody}]
           /\ \A a \in Allocations : Settled(a)
<1>1. TablesOK(lease, allocation)'
  BY DEF Inv, Tables, tables
<1>2. Weakens(lease, lease') /\ Forward(allocation, allocation')
  BY DEF tables, Weakens, Forward
<1> QED
  BY <1>1, <1>2, QuietSettles DEF Inv, Tables, tables, QuietStep

LEMMA OpenInv ==
    ASSUME Inv, NEW b \in Branches, Open(b)
    PROVE  Inv'
<1>1. /\ pc[b] = "idle" /\ pc' = [pc EXCEPT ![b] = "getting"]
      /\ UNCHANGED <<at, trying, held, unwinding, heart, crashes>> /\ UNCHANGED <<clock, tables>>
  BY DEF Open, Goto, progress
<1>2. UsersTyped' /\ OnlyBranch(b)
  BY <1>1 DEF Inv, UsersTyped, OnlyBranch, PCs
<1>3. pc'[b] = "getting" /\ at'[b] = 1 /\ trying'[b] = 1 /\ unwinding'[b] = "open" /\ held'[b] = held[b]
  BY <1>1 DEF Inv, UsersTyped, BranchOK
<1>4. BranchOK(b)'
  BY <1>3, Branching DEF Inv, BranchOK, Composed
<1> QED
  BY <1>1, <1>2, <1>4, TablesKept, BranchStep

LEMMA GetInv ==
    ASSUME Inv, NEW b \in Branches, Get(b)
    PROVE  Inv'
<1> DEFINE a == AllocationAt(b)
<1>1. /\ pc[b] = "getting" /\ BranchOK(b) /\ UsersTyped /\ UNCHANGED crashes
      /\ at[b] \in 0..Len(AllocationsOf[b]) /\ at[b] >= 1 /\ trying[b] = 1
  BY DEF Get, Inv, BranchOK
<1>2. a \in AllocatedBy(b) /\ a \in Allocations
  BY <1>1, AllocationAtType
<1>3. QuietStep /\ UNCHANGED owner
  BY ReadAllocationStep DEF Get, Inv, ReadAllocation
<1>4. Tables' /\ \A x \in Allocations : Settled(x)
  BY <1>3, QuietSettles DEF Inv, Tables, QuietStep
<1>5. \A x \in AllocatedBy(b) : Settled(x)
  BY <1>4, Branching
<1>6. CASE /\ allocation'[a].state = "none" /\ Goto(b, "probing") /\ UNCHANGED progress
  <2>1. pc' = [pc EXCEPT ![b] = "probing"] /\ UNCHANGED <<at, trying, held, unwinding, heart, crashes>>
    BY <1>1, <1>6 DEF Goto, progress
  <2>2. UsersTyped' /\ OnlyBranch(b)
    BY <1>1, <2>1 DEF UsersTyped, OnlyBranch, PCs
  <2>3. pc'[b] = "probing" /\ unwinding'[b] = "open"
    BY <1>1, <2>1 DEF UsersTyped, BranchOK
  <2>4. \A n \in 1..(at[b] - 1) : Kept(b, AllocationsOf[b][n])'
    <3>1. \A n \in 1..(at[b] - 1) : AllocationsOf[b][n] \in AllocatedBy(b)
      BY <1>1, Branching
    <3> QED
      BY <1>1, <1>5, <2>1, <3>1 DEF BranchOK, Kept, Settled
  <2>5. 1 \in 1..Len(Candidates[a])
    BY <1>2, Branching
  <2>6. allocation'[a].state = "none" /\ AllocationAt(b)' = a
    BY <1>6, <2>1 DEF AllocationAt
  <2>7. BranchOK(b)'
    BY <1>1, <2>1, <2>3, <2>4, <2>5, <2>6 DEF BranchOK, Composed
  <2> QED
    BY <1>3, <1>4, <2>2, <2>7, BranchStep DEF Inv
<1>7. CASE IsLive(allocation'[a]) /\ Proceed(b)
  <2>1. allocation'[a].state # "none"
    BY <1>7 DEF IsLive
  <2>2. UsersTyped' /\ OnlyBranch(b) /\ BranchOK(b)'
    BY <1>1, <1>5, <1>7, <2>1, ProceedStep
  <2> QED
    BY <1>3, <1>4, <2>2, BranchStep DEF Inv
<1>8. CASE Abandon(b)
  <2>1. UsersTyped' /\ OnlyBranch(b) /\ BranchOK(b)'
    BY <1>1, <1>8, AbandonStep
  <2> QED
    BY <1>3, <1>4, <2>1, BranchStep DEF Inv
<1> QED
  BY <1>6, <1>7, <1>8 DEF Get

LEMMA ProbeUnavailableInv ==
    ASSUME Inv, NEW b \in Branches, ProbeUnavailable(b)
    PROVE  Inv'
<1>1. /\ pc[b] = "probing" /\ NextCandidate(b) /\ UNCHANGED crashes /\ UNCHANGED <<clock, tables>>
      /\ UsersTyped /\ BranchOK(b)
  BY DEF ProbeUnavailable, Inv
<1>2. \A a \in AllocatedBy(b) : Settled(a)
  BY <1>1, TablesKept, Branching
<1>3. UsersTyped' /\ OnlyBranch(b) /\ BranchOK(b)'
  BY <1>1, <1>2, NextCandidateStep
<1> QED
  BY <1>1, <1>3, TablesKept, BranchStep

LEMMA AllocateRaisesInv ==
    ASSUME Inv, NEW b \in Branches, AllocateRaises(b)
    PROVE  Inv'
<1>1. /\ pc[b] \in {"getting", "probing"} /\ Abandon(b) /\ UNCHANGED crashes
      /\ UNCHANGED <<clock, tables>> /\ UsersTyped /\ BranchOK(b)
  BY DEF AllocateRaises, Inv
<1>2. UsersTyped' /\ OnlyBranch(b) /\ BranchOK(b)'
  BY <1>1, AbandonStep
<1> QED
  BY <1>1, <1>2, TablesKept, BranchStep

\* A grant to an allocation of branch b, settling all but that one.
LEMMA GrantSettles ==
    ASSUME NEW a \in Allocations,
           \A x \in Allocations : x # a => allocation'[x] = allocation[x]
    PROVE  \A x \in Allocations : x # a => Settled(x)
BY DEF Settled

LEMMA ReserveGrants ==
    ASSUME Tables, NEW a \in Allocations, NEW n \in 1..Len(Candidates[a]), NEW now \in Nows,
           NEW e, e = Candidates[a][n], allocation[a].state = "none",
           NEW L, L = Expired(lease, OnEndpoint[e], now), ~Busy(e, L),
           GrantLease(<<a, e>>, L, now + Ttl),
           allocation' = [allocation EXCEPT ![a] =
              [state |-> "reserved", endpoint |-> e, proof |-> Nobody,
               token |-> lastToken[e] + 1, expires |-> now + Ttl]],
           UNCHANGED clock
    PROVE  /\ GrantStep
           /\ allocation'[a].state = "reserved"
           /\ \A x \in Allocations : x # a => allocation'[x] = allocation[x]
<1> DEFINE l == <<a, e>>
           row == [state |-> "reserved", endpoint |-> e, proof |-> Nobody,
                   token |-> lastToken[e] + 1, expires |-> now + Ttl]
<1>1. l \in LeaseIds /\ l[1] = a /\ l[2] = e /\ e \in Endpoints
  BY Branching
<1>2. TablesOK(L, allocation) /\ Weakens(lease, L)
  BY ExpiredOK DEF Tables
<1>3. L[l].state = "none"
  BY <1>1, <1>2 DEF TablesOK, RowOK
<1>4. now + Ttl \in 0..Forever /\ lastToken[e] + 1 \in Nat
  BY <1>1, NowsType DEF Tables
<1>5. row \in AllocationRows
  BY <1>1, <1>4 DEF AllocationRows
<1>6. allocation \in [Allocations -> AllocationRows]
  BY DEF Tables, TablesOK
<1>7. /\ allocation' \in [Allocations -> AllocationRows]
      /\ allocation'[a] = row
      /\ \A x \in Allocations : x # a => allocation'[x] = allocation[x]
  <2> HIDE DEF row
  <2>1. allocation' = [allocation EXCEPT ![a] = row]
    BY DEF row
  <2> QED
    BY <1>5, <1>6, <2>1
<1>8. /\ allocation'[a].state = "reserved" /\ allocation'[a].endpoint = e
      /\ allocation'[a].proof = Nobody /\ allocation'[a].token = lastToken[e] + 1
      /\ allocation'[a].expires = now + Ttl
  BY <1>7
<1> HIDE DEF row
<1>9. GrantLease(l, L, now + Ttl)
  OBVIOUS
<1> HIDE DEF l
<1>10. GrantStep
  BY <1>1, <1>3, <1>4, <1>7, <1>8, <1>9, GrantLeaseStep
<1> QED
  BY <1>7, <1>8, <1>10

\* The two ways a reservation may go: it grants nothing, or the endpoint is
\* reserved for the allocation.
LEMMA ReserveStep ==
    ASSUME Inv, NEW b \in Branches, Reserve(b)
    PROVE  /\ owner' \in [Endpoints -> Scopes \cup {Nobody}]
           /\ \/ QuietStep /\ NextCandidate(b)
              \/ /\ GrantStep /\ Proceed(b)
                 /\ allocation'[AllocationAt(b)].state = "reserved"
                 /\ \A x \in Allocations : x # AllocationAt(b) => allocation'[x] = allocation[x]
<1> DEFINE a == AllocationAt(b)
           e == CandidateAt(b)
<1>1. /\ pc[b] = "probing" /\ BranchOK(b) /\ UsersTyped /\ Tables /\ UNCHANGED <<clock, crashes>>
      /\ at[b] \in 0..Len(AllocationsOf[b]) /\ at[b] >= 1
      /\ trying[b] \in 1..Len(Candidates[a]) /\ allocation[a].state = "none"
  BY DEF Reserve, Inv, BranchOK
<1>2. a \in AllocatedBy(b) /\ a \in Allocations
  BY <1>1, AllocationAtType
<1>3. e = Candidates[a][trying[b]] /\ e \in Endpoints
  BY <1>1, <1>2, Branching DEF CandidateAt
<1>4. OwnerScope[a] \in Scopes
  BY <1>2, ResourceLeaseAssumption DEF Holders
<1>5. CASE UNCHANGED tables /\ NextCandidate(b)
  BY <1>1, <1>5, TablesKept DEF tables
<1>6. ASSUME owner' = [owner EXCEPT ![e] = OwnerScope[a]], NEW now \in Nows,
             Busy(e, Expired(lease, OnEndpoint[e], now)),
             lease' = Expired(lease, OnEndpoint[e], now),
             UNCHANGED <<lastToken, allocation>>, NextCandidate(b)
      PROVE  owner' \in [Endpoints -> Scopes \cup {Nobody}] /\ QuietStep
  <2>1. QuietStep
    BY <1>1, <1>6, ExpireStep
  <2> QED
    BY <1>3, <1>4, <1>6, <2>1 DEF Inv
<1>7. ASSUME owner' = [owner EXCEPT ![e] = OwnerScope[a]], NEW now \in Nows,
             ~Busy(e, Expired(lease, OnEndpoint[e], now)),
             GrantLease(<<a, e>>, Expired(lease, OnEndpoint[e], now), now + Ttl),
             allocation' = [allocation EXCEPT ![a] =
                [state |-> "reserved", endpoint |-> e, proof |-> Nobody,
                 token |-> lastToken[e] + 1, expires |-> now + Ttl]],
             Proceed(b)
      PROVE  /\ owner' \in [Endpoints -> Scopes \cup {Nobody}] /\ GrantStep
             /\ allocation'[a].state = "reserved"
             /\ \A x \in Allocations : x # a => allocation'[x] = allocation[x]
  <2>1. owner' \in [Endpoints -> Scopes \cup {Nobody}]
    BY <1>3, <1>4, <1>7 DEF Inv
  <2> HIDE DEF a, e
  <2> QED
    BY <1>1, <1>2, <1>3, <1>7, <2>1, ReserveGrants
<1> QED
  BY <1>1, <1>5, <1>6, <1>7 DEF Reserve

LEMMA ReserveInv ==
    ASSUME Inv, NEW b \in Branches, Reserve(b)
    PROVE  Inv'
<1> DEFINE a == AllocationAt(b)
<1>1. /\ pc[b] = "probing" /\ BranchOK(b) /\ UsersTyped /\ Tables /\ UNCHANGED <<clock, crashes>>
      /\ at[b] \in 0..Len(AllocationsOf[b]) /\ at[b] >= 1 /\ allocation[a].state = "none"
  BY DEF Reserve, Inv, BranchOK
<1>2. a \in AllocatedBy(b) /\ a \in Allocations
  BY <1>1, AllocationAtType
<1>3. owner' \in [Endpoints -> Scopes \cup {Nobody}]
  BY ReserveStep
<1>4. CASE QuietStep /\ NextCandidate(b)
  <2>1. Tables' /\ \A x \in Allocations : Settled(x)
    BY <1>1, <1>4, QuietSettles DEF Tables, QuietStep
  <2>2. \A x \in AllocatedBy(b) : Settled(x)
    BY <2>1, Branching
  <2>3. UsersTyped' /\ OnlyBranch(b) /\ BranchOK(b)'
    BY <1>1, <1>4, <2>2, NextCandidateStep
  <2> QED
    BY <1>3, <2>1, <2>3, BranchStep
<1>5. CASE /\ GrantStep /\ Proceed(b) /\ allocation'[a].state = "reserved"
           /\ \A x \in Allocations : x # a => allocation'[x] = allocation[x]
  <2>1. \A x \in Allocations : x # a => Settled(x)
    <3> HIDE DEF a
    <3> QED
      BY <1>2, <1>5, GrantSettles
  <2>2. Tables'
    BY <1>1, <1>5, Ids DEF Tables, GrantStep
  <2>3. \A x \in AllocatedBy(b) : Settled(x) \/ allocation[x].state = "none"
    BY <1>1, <2>1, Branching
  <2>4. UsersTyped' /\ OnlyBranch(b) /\ BranchOK(b)'
    BY <1>1, <1>5, <2>3, ProceedStep
  <2>5. \A x \in Allocations : Settled(x) \/ x \in AllocatedBy(b)
    BY <1>2, <2>1
  <2> QED
    BY <1>3, <2>2, <2>4, <2>5, BranchStep
<1> QED
  BY <1>4, <1>5, ReserveStep

LEMMA BeatStep ==
    ASSUME Tables, NEW b \in Branches, Beat(b)
    PROVE  QuietStep
<1>1. UNCHANGED <<clock, lastToken>>
  BY DEF Beat
<1>2. ASSUME NEW now \in Nows,
             \A a \in AllocatedBy(b) : Renewable(a, Reconciled(AllocatedBy(b), now)),
             Extended(AllocatedBy(b), Reconciled(AllocatedBy(b), now), now + Ttl)
      PROVE  QuietStep
  <2>1. AllocatedBy(b) \in SUBSET Allocations
    BY Branching
  <2>2. now + Ttl \in 0..Forever
    BY NowsType DEF Tables
  <2> QED
    BY <1>1, <1>2, <2>1, <2>2, ExtendedStep
<1>3. CASE UNCHANGED <<lease, allocation>>
  BY <1>1, <1>3 DEF Tables, TablesOK, QuietStep, Weakens, Forward
<1> QED
  BY <1>2, <1>3 DEF Beat

LEMMA BeatInv ==
    ASSUME Inv, NEW b \in Branches, Beat(b)
    PROVE  Inv'
<1>1. QuietStep
  BY BeatStep DEF Inv
<1>2. /\ heart' \in [Branches -> Hearts]
      /\ UNCHANGED <<owner, pc, at, trying, held, unwinding, crashes>>
  <2>1. heart \in [Branches -> Hearts]
    BY DEF Inv, UsersTyped
  <2> QED
    BY <2>1 DEF Beat, Hearts
<1>3. UsersTyped' /\ Tables'
  BY <1>1, <1>2 DEF Inv, UsersTyped, Tables, QuietStep
<1>4. \A c \in Branches : BranchOK(c)'
  <2> SUFFICES ASSUME NEW c \in Branches PROVE BranchOK(c)'
    OBVIOUS
  <2>1. \A a \in AllocatedBy(c) : Settled(a)
    BY <1>1, Branching, QuietSettles
  <2> QED
    BY <1>2, <2>1, BranchKept DEF Inv
<1> QED
  BY <1>2, <1>3, <1>4 DEF Inv

LEMMA CloseInv ==
    ASSUME Inv, NEW b \in Branches, Close(b)
    PROVE  Inv'
<1>1. PICK why \in {"open", "faulty", "close"} : unwinding' = [unwinding EXCEPT ![b] = why]
  BY DEF Close
<1>2. PICK h \in {"off", "lastBeat"} : heart' = [heart EXCEPT ![b] = h]
  BY DEF Close
<1>3. /\ pc[b] \in {"open", "unclosed"} /\ pc' = [pc EXCEPT ![b] = "releasing"]
      /\ at' = [at EXCEPT ![b] = Len(AllocationsOf[b])]
      /\ UNCHANGED <<trying, held, crashes>> /\ UNCHANGED <<clock, tables>>
  BY DEF Close, Goto
<1>4. Len(AllocationsOf[b]) \in Nat
  BY Branching
<1>5. UsersTyped' /\ OnlyBranch(b)
  BY <1>1, <1>2, <1>3, <1>4 DEF Inv, UsersTyped, OnlyBranch, PCs, Hearts
<1>6. pc'[b] = "releasing" /\ at'[b] = Len(AllocationsOf[b]) /\ held'[b] = held[b]
  BY <1>3 DEF Inv, UsersTyped
<1>7. \A a \in AllocatedBy(b) : Kept(b, a)'
  BY <1>3 DEF Inv, BranchOK, Composed, Kept, tables
<1>8. BranchOK(b)'
  BY <1>4, <1>6, <1>7 DEF Inv, BranchOK
<1> QED
  BY <1>3, <1>5, <1>8, TablesKept, BranchStep

LEMMA ReleaseStep ==
    ASSUME Inv, NEW b \in Branches, Release(b)
    PROVE  /\ QuietStep /\ UNCHANGED owner
           /\ AllocationAt(b) \in AllocatedBy(b) /\ AllocationAt(b) \in Allocations
           /\ \/ UNCHANGED held
              \/ /\ held' = [held EXCEPT ![b] = @ \ {AllocationAt(b)}]
                 /\ allocation[AllocationAt(b)].state # "none"
                       => allocation'[AllocationAt(b)].state = "released"
<1> DEFINE a == AllocationAt(b)
<1>1. /\ at[b] > 0 /\ at[b] \in 0..Len(AllocationsOf[b]) /\ Len(AllocationsOf[b]) \in Nat
      /\ UNCHANGED <<clock, owner, lastToken>>
  BY Branching DEF Release, Inv, BranchOK
<1>2. a \in AllocatedBy(b) /\ a \in Allocations
  BY <1>1, AllocationAtType
<1>3. ASSUME NEW now \in Nows, ReleaseAllocation(a, now)
      PROVE  QuietStep /\ (allocation[a].state # "none" => allocation'[a].state = "released")
  <2> HIDE DEF a
  <2> QED
    BY <1>1, <1>2, <1>3, ReleaseAllocationStep DEF Inv
<1>4. CASE UNCHANGED <<lease, allocation, held>>
  <2>1. UNCHANGED <<clock, tables>>
    BY <1>1, <1>4 DEF tables
  <2> QED
    BY <1>1, <1>2, <1>4, <2>1, TablesKept
<1> QED
  BY <1>1, <1>2, <1>3, <1>4 DEF Release

LEMMA ReleaseInv ==
    ASSUME Inv, NEW b \in Branches, Release(b)
    PROVE  Inv'
<1> DEFINE a == AllocationAt(b)
<1>1. /\ pc[b] = "releasing" /\ at[b] > 0 /\ at' = [at EXCEPT ![b] = @ - 1]
      /\ UNCHANGED <<pc, trying, unwinding, heart, crashes>>
  BY DEF Release
<1>2. /\ QuietStep /\ UNCHANGED owner /\ a \in AllocatedBy(b) /\ a \in Allocations
      /\ \/ UNCHANGED held
         \/ /\ held' = [held EXCEPT ![b] = @ \ {a}]
            /\ allocation[a].state # "none" => allocation'[a].state = "released"
  BY ReleaseStep
<1> HIDE DEF a
<1>3. Tables' /\ \A x \in Allocations : Settled(x)
  BY <1>2, QuietSettles DEF Inv, Tables, QuietStep
<1>4. at[b] \in 1..Len(AllocationsOf[b]) /\ Len(AllocationsOf[b]) \in Nat
  BY <1>1, Branching DEF Inv, BranchOK
<1>5. /\ at'[b] = at[b] - 1 /\ at' \in [Branches -> Nat]
      /\ \A c \in Branches \ {b} : at'[c] = at[c]
  BY <1>1, <1>4 DEF Inv, UsersTyped
<1>6. /\ held' \in [Branches -> SUBSET Allocations]
      /\ \A c \in Branches \ {b} : held'[c] = held[c]
      /\ held'[b] \subseteq held[b]
      /\ \A x \in held[b] : x \in held'[b] \/ (x = a /\ (allocation[a].state # "none" => allocation'[a].state = "released"))
  BY <1>2 DEF Inv, UsersTyped
<1>7. UsersTyped' /\ OnlyBranch(b)
  BY <1>1, <1>5, <1>6 DEF Inv, UsersTyped, OnlyBranch
<1>8. ASSUME NEW x \in AllocatedBy(b), Kept(b, x)
      PROVE  Kept(b, x)'
  <2>1. Settled(x)
    BY <1>3, Branching
  <2> QED
    BY <1>6, <1>8, <2>1 DEF Kept, Settled
<1>9. Composed(b)' => \A x \in AllocatedBy(b) : Kept(b, x)'
  BY <1>1, <1>8 DEF Composed, Inv, BranchOK
<1>10. at'[b] \in 0..Len(AllocationsOf[b]) /\ held'[b] \subseteq AllocatedBy(b)
  BY <1>4, <1>5, <1>6 DEF Inv, BranchOK
<1>11. BranchOK(b)'
  BY <1>1, <1>9, <1>10 DEF BranchOK
<1> QED
  BY <1>2, <1>3, <1>7, <1>11, BranchStep DEF Inv

LEMMA ReleasedInv ==
    ASSUME Inv, NEW b \in Branches, Released(b)
    PROVE  Inv'
<1> DEFINE where == CASE unwinding[b] = "open" -> "failed"
                      [] CleanlyClosed(b) -> "closed"
                      [] OTHER -> "unclosed"
<1>1. /\ pc[b] = "releasing" /\ at[b] = 0 /\ pc' = [pc EXCEPT ![b] = where]
      /\ held' = [held EXCEPT ![b] = IF unwinding[b] = "open" THEN {} ELSE @]
      /\ unwinding' = [unwinding EXCEPT ![b] = "open"]
      /\ UNCHANGED <<at, trying, heart, crashes>> /\ UNCHANGED <<clock, tables>>
  BY DEF Released, Goto
<1>2. \/ unwinding[b] = "open" /\ where = "failed"
      \/ unwinding[b] = "close" /\ held[b] = {} /\ where = "closed"
      \/ unwinding[b] # "open" /\ where = "unclosed"
  BY DEF CleanlyClosed
<1> HIDE DEF where
<1>3. UsersTyped' /\ OnlyBranch(b)
  BY <1>1, <1>2 DEF Inv, UsersTyped, OnlyBranch, PCs
<1>4. pc'[b] = where /\ unwinding'[b] = "open" /\ at'[b] = at[b] /\ held'[b] \subseteq held[b]
  BY <1>1 DEF Inv, UsersTyped
<1>5. unwinding[b] # "open" => held'[b] = held[b]
  BY <1>1 DEF Inv, UsersTyped
<1>6. unwinding[b] # "open" => \A a \in AllocatedBy(b) : Kept(b, a)
  BY <1>1 DEF Inv, BranchOK, Composed
<1>7. unwinding[b] # "open" => \A a \in AllocatedBy(b) : Kept(b, a)'
  BY <1>1, <1>5, <1>6 DEF Kept, tables
<1>8. where = "closed" => \A a \in AllocatedBy(b) : allocation'[a].state = "released"
  BY <1>1, <1>2, <1>6 DEF Kept, tables
<1>9. BranchOK(b)'
  BY <1>2, <1>4, <1>7, <1>8 DEF Inv, BranchOK, Composed
<1> QED
  BY <1>1, <1>3, <1>9, TablesKept, BranchStep

LEMMA CrashInv ==
    ASSUME Inv, NEW b \in Branches, Crash(b)
    PROVE  Inv'
<1>1. /\ crashes' = [crashes EXCEPT ![b] = @ + 1] /\ pc' = [pc EXCEPT ![b] = "idle"]
      /\ at' = [at EXCEPT ![b] = 1] /\ trying' = [trying EXCEPT ![b] = 1]
      /\ held' = [held EXCEPT ![b] = {}] /\ unwinding' = [unwinding EXCEPT ![b] = "open"]
      /\ heart' = [heart EXCEPT ![b] = "off"] /\ UNCHANGED <<clock, tables>>
  BY DEF Crash, Goto
<1>2. UsersTyped' /\ OnlyBranch(b)
  BY <1>1 DEF Inv, UsersTyped, OnlyBranch, PCs, Hearts
<1>3. pc'[b] = "idle" /\ at'[b] = 1 /\ trying'[b] = 1 /\ held'[b] = {} /\ unwinding'[b] = "open"
  BY <1>1 DEF Inv, UsersTyped
<1>4. BranchOK(b)'
  BY <1>3, Branching DEF BranchOK, Composed
<1> QED
  BY <1>1, <1>2, <1>4, TablesKept, BranchStep

-----------------------------------------------------------------------------
(***************************************************************************)
(* The steps of the whole system.                                          *)
(***************************************************************************)

TickStep == clock' = clock + 1 /\ UNCHANGED <<lastToken, lease, allocation>>

LEMMA ReadLeasesStep ==
    ASSUME Tables, NEW S, ReadLeases(S)
    PROVE  QuietStep
BY ExpireStep DEF ReadLeases

LEMMA RenewAllocationStep ==
    ASSUME Tables, NEW a \in Allocations, RenewAllocation(a)
    PROVE  QuietStep
<1>1. UNCHANGED <<clock, lastToken>>
  BY DEF RenewAllocation
<1>2. PICK now \in Nows : /\ Renewable(a, Reconciled({a}, now))
                          /\ Extended({a}, Reconciled({a}, now), now + Ttl)
  BY DEF RenewAllocation
<1>3. now + Ttl \in 0..Forever /\ {a} \in SUBSET Allocations
  BY NowsType DEF Tables
<1>4. \A x \in {a} : Renewable(x, Reconciled({a}, now))
  BY <1>2
<1> QED
  BY <1>1, <1>2, <1>3, <1>4, ExtendedStep

\* The transactions that are no steps of a branch, and leave all users where they are.
ByOthers ==
    \/ \E a \in Allocations : \/ \E p \in Proofs : ConfirmBound(a, p)
                              \/ RenewAllocation(a)
                              \/ IsLive(allocation[a]) /\ ReadAllocation(a) /\ UNCHANGED users
    \/ \E c \in Clients : RegisterOwner(c) \/ Acquire(c) \/ Renew(c)
    \/ \E e \in Endpoints : RemoveOwner(e) \/ ReadLeases(OnEndpoint[e])
    \/ \E l \in LeaseIds : ReleaseLease(l) \/ ReadLeases({l})
    \/ ReadLeases(LeaseIds)
    \/ ReconcileOrphans

LEMMA RegisterOwnerStep ==
    ASSUME Inv, NEW c \in Clients, RegisterOwner(c)
    PROVE  QuietStep /\ owner' \in [Endpoints -> Scopes \cup {Nobody}]
<1>1. OwnerScope[c] \in Scopes /\ EndpointOf[c] \in Endpoints
  BY ResourceLeaseAssumption DEF Holders
<1>2. owner' \in [Endpoints -> Scopes \cup {Nobody}]
  BY <1>1 DEF RegisterOwner, Inv
<1>3. QuietStep
  BY DEF RegisterOwner, Inv, Tables, TablesOK, QuietStep, Weakens, Forward
<1> QED
  BY <1>2, <1>3

LEMMA RemoveOwnerStep ==
    ASSUME Inv, NEW e \in Endpoints, RemoveOwner(e)
    PROVE  QuietStep /\ owner' \in [Endpoints -> Scopes \cup {Nobody}]
<1>1. owner' \in [Endpoints -> Scopes \cup {Nobody}]
  BY DEF RemoveOwner, Inv
<1>2. QuietStep
  BY DEF RemoveOwner, Inv, Tables, TablesOK, QuietStep, Weakens, Forward
<1> QED
  BY <1>1, <1>2

\* A grant by the lease port is to a client, and so to no allocation.
LEMMA AcquireSettles ==
    ASSUME Tables, NEW c \in Clients, Acquire(c)
    PROVE  Tables' /\ \A a \in Allocations : Settled(a)
<1>1. UNCHANGED <<clock, allocation>>
  BY DEF Acquire
<1>2. \A a \in Allocations : Settled(a)
  BY <1>1 DEF Settled
<1>3. CASE QuietStep
  BY <1>2, <1>3 DEF Tables, QuietStep
<1>4. CASE GrantStep
  BY <1>2, <1>4, Ids DEF Tables, GrantStep
<1> QED
  BY <1>3, <1>4, AcquireStep

LEMMA AcquireInv ==
    ASSUME Inv, NEW c \in Clients, Acquire(c)
    PROVE  Inv'
<1>1. Tables' /\ \A a \in Allocations : Settled(a)
  BY AcquireSettles DEF Inv
<1>2. UNCHANGED <<owner, pc, at, trying, held, unwinding, heart, crashes>>
  BY DEF Acquire, users, progress
<1>3. UsersTyped'
  BY <1>2 DEF Inv, UsersTyped
<1>4. \A b \in Branches : BranchOK(b)'
  <2> SUFFICES ASSUME NEW b \in Branches PROVE BranchOK(b)'
    OBVIOUS
  <2>1. \A a \in AllocatedBy(b) : Settled(a)
    BY <1>1, Branching
  <2> QED
    BY <1>2, <2>1, BranchKept DEF Inv
<1> QED
  BY <1>1, <1>2, <1>3, <1>4 DEF Inv

LEMMA OthersStep ==
    ASSUME Inv, ByOthers
    PROVE  \/ QuietStep /\ owner' \in [Endpoints -> Scopes \cup {Nobody}] /\ UNCHANGED users
           \/ \E c \in Clients : Acquire(c)
<1>1. Tables /\ owner \in [Endpoints -> Scopes \cup {Nobody}]
  BY DEF Inv
<1>2. ASSUME NEW a \in Allocations, NEW p \in Proofs, ConfirmBound(a, p)
      PROVE  QuietStep /\ UNCHANGED owner /\ UNCHANGED users
  BY <1>1, <1>2, ConfirmBoundStep DEF ConfirmBound
<1>3. ASSUME NEW a \in Allocations, RenewAllocation(a)
      PROVE  QuietStep /\ UNCHANGED owner /\ UNCHANGED users
  BY <1>1, <1>3, RenewAllocationStep DEF RenewAllocation
<1>4. ASSUME NEW a \in Allocations, ReadAllocation(a), UNCHANGED users
      PROVE  QuietStep /\ UNCHANGED owner /\ UNCHANGED users
  BY <1>1, <1>4, ReadAllocationStep DEF ReadAllocation
<1>5. ASSUME NEW c \in Clients, RegisterOwner(c)
      PROVE  QuietStep /\ owner' \in [Endpoints -> Scopes \cup {Nobody}] /\ UNCHANGED users
  BY <1>5, RegisterOwnerStep DEF RegisterOwner
<1>6. ASSUME NEW c \in Clients, Renew(c)
      PROVE  QuietStep /\ UNCHANGED owner /\ UNCHANGED users
  BY <1>1, <1>6, RenewStep DEF Renew
<1>7. ASSUME NEW e \in Endpoints, RemoveOwner(e)
      PROVE  QuietStep /\ owner' \in [Endpoints -> Scopes \cup {Nobody}] /\ UNCHANGED users
  BY <1>7, RemoveOwnerStep DEF RemoveOwner
<1>8. ASSUME NEW S, ReadLeases(S)
      PROVE  QuietStep /\ UNCHANGED owner /\ UNCHANGED users
  BY <1>1, <1>8, ReadLeasesStep DEF ReadLeases
<1>9. ASSUME NEW l \in LeaseIds, ReleaseLease(l)
      PROVE  QuietStep /\ UNCHANGED owner /\ UNCHANGED users
  BY <1>1, <1>9, ReleaseLeaseStep DEF ReleaseLease
<1>10. ASSUME ReconcileOrphans
       PROVE  QuietStep /\ UNCHANGED owner /\ UNCHANGED users
  BY <1>1, <1>10, ReconcileOrphansStep DEF ReconcileOrphans
<1> QED
  BY <1>1, <1>2, <1>3, <1>4, <1>5, <1>6, <1>7, <1>8, <1>9, <1>10 DEF ByOthers

LEMMA NextCases ==
    ASSUME Next
    PROVE  (\E b \in Branches : BranchNext(b)) \/ ByOthers \/ Tick
BY DEF Next, ByOthers

\* Every step grants one lease, weakens leases, or lets time pass.
LEMMA StepKinds ==
    ASSUME Inv, Next
    PROVE  QuietStep \/ GrantStep \/ TickStep
<1>1. Tables
  BY DEF Inv
<1>2. ASSUME NEW b \in Branches, BranchNext(b)
      PROVE  QuietStep \/ GrantStep
  <2>1. CASE Open(b)
    BY <2>1, TablesKept DEF Open
  <2>2. CASE Get(b)
    BY <1>1, <2>2, ReadAllocationStep DEF Get
  <2>3. CASE ProbeUnavailable(b)
    BY <2>3, TablesKept DEF ProbeUnavailable
  <2>4. CASE Reserve(b)
    BY <2>4, ReserveStep
  <2>5. CASE AllocateRaises(b)
    BY <2>5, TablesKept DEF AllocateRaises
  <2>6. CASE Close(b)
    BY <2>6, TablesKept DEF Close
  <2>7. CASE Release(b)
    BY <2>7, ReleaseStep
  <2>8. CASE Released(b)
    BY <2>8, TablesKept DEF Released
  <2>9. CASE Beat(b)
    BY <1>1, <2>9, BeatStep
  <2>10. CASE Crash(b)
    BY <2>10, TablesKept DEF Crash
  <2> QED
    BY <1>2, <2>1, <2>2, <2>3, <2>4, <2>5, <2>6, <2>7, <2>8, <2>9, <2>10 DEF BranchNext
<1>3. CASE ByOthers
  <2>1. CASE QuietStep
    BY <2>1
  <2>2. CASE \E c \in Clients : Acquire(c)
    BY <1>1, <2>2, AcquireStep
  <2> QED
    BY <1>3, <2>1, <2>2, OthersStep
<1>4. CASE Tick
  BY <1>4 DEF Tick, TickStep, tables
<1> QED
  BY <1>2, <1>3, <1>4, NextCases

LEMMA TickInv ==
    ASSUME Inv, Tick
    PROVE  Inv'
<1>1. clock < MaxTime /\ clock' = clock + 1 /\ UNCHANGED <<tables, users>>
  BY DEF Tick
<1>2. clock' \in 0..MaxTime
  BY <1>1, Constants DEF Inv, Tables
<1>3. Tables' /\ owner' \in [Endpoints -> Scopes \cup {Nobody}]
  BY <1>1, <1>2 DEF Inv, Tables, tables
<1>4. UsersTyped'
  BY <1>1 DEF Inv, UsersTyped, users, progress
<1>5. \A a \in Allocations : Settled(a)
  BY <1>1 DEF Settled, tables
<1>6. \A b \in Branches : BranchOK(b)'
  <2> SUFFICES ASSUME NEW b \in Branches PROVE BranchOK(b)'
    OBVIOUS
  <2>1. \A a \in AllocatedBy(b) : Settled(a)
    BY <1>5, Branching
  <2> QED
    BY <1>1, <2>1, BranchKept DEF Inv, users, progress
<1> QED
  BY <1>3, <1>4, <1>6 DEF Inv

LEMMA NextInv ==
    ASSUME Inv, Next
    PROVE  Inv'
<1>1. ASSUME NEW b \in Branches, BranchNext(b)
      PROVE  Inv'
  BY <1>1, OpenInv, GetInv, ProbeUnavailableInv, ReserveInv, AllocateRaisesInv, CloseInv,
     ReleaseInv, ReleasedInv, BeatInv, CrashInv DEF BranchNext
<1>2. CASE ByOthers
  BY <1>2, OthersStep, UsersKept, AcquireInv
<1> QED
  BY <1>1, <1>2, NextCases, TickInv

LEMMA StutterInv ==
    ASSUME Inv, UNCHANGED vars
    PROVE  Inv'
<1>1. UNCHANGED <<clock, tables>> /\ UNCHANGED users
  BY DEF vars
<1>2. QuietStep /\ owner' \in [Endpoints -> Scopes \cup {Nobody}]
  BY <1>1, TablesKept
<1> QED
  BY <1>1, <1>2, UsersKept

LEMMA InitInv ==
    ASSUME Init
    PROVE  Inv
<1>1. NoLease \in LeaseRows /\ NoAllocation \in AllocationRows
  BY Constants DEF NoLease, NoAllocation, LeaseRows, AllocationRows
<1>2. lease \in [LeaseIds -> LeaseRows] /\ \A l \in LeaseIds : lease[l].state = "none"
  BY <1>1 DEF Init, NoLease
<1>3. /\ allocation \in [Allocations -> AllocationRows]
      /\ \A a \in Allocations : allocation[a] = NoAllocation /\ allocation[a].state = "none"
  BY <1>1 DEF Init, NoAllocation
<1>4. TablesOK(lease, allocation)
  BY <1>2, <1>3 DEF TablesOK, OneHolder, Agree, RowOK, Active
<1>5. Tables /\ owner \in [Endpoints -> Scopes \cup {Nobody}]
  BY <1>4, Constants DEF Init, Tables
<1>6. UsersTyped
  BY DEF Init, UsersTyped, PCs, Hearts
<1>7. ASSUME NEW b \in Branches PROVE BranchOK(b)
  <2>1. pc[b] = "idle" /\ at[b] = 1 /\ trying[b] = 1 /\ held[b] = {} /\ unwinding[b] = "open"
    BY DEF Init
  <2>2. 1 \in 0..Len(AllocationsOf[b])
    BY Branching
  <2> QED
    BY <2>1, <2>2 DEF BranchOK, Composed
<1> QED
  BY <1>5, <1>6, <1>7 DEF Inv

\* Inv is an invariant.
THEOREM Invariance == Spec => []Inv
<1>1. Init => Inv
  BY InitInv
<1>2. Inv /\ [Next]_vars => Inv'
  BY NextInv, StutterInv
<1> QED
  BY <1>1, <1>2, PTL DEF Spec

-----------------------------------------------------------------------------
(***************************************************************************)
(* What the system promises.                                               *)
(***************************************************************************)

\* Every variable keeps its type.
THEOREM TypeCorrect == Spec => []TypeOK
<1>1. Inv => TypeOK
  BY DEF Inv, Tables, TablesOK, RowOK, UsersTyped, BranchOK, Hearts, TypeOK
<1> QED
  BY <1>1, Invariance, PTL

\* An active lease of an allocation is always the one its live row names, whoever
\* of the branches, heartbeats, clients and reconcilers wrote last.
THEOREM LeasesAgree == Spec => []LeasesHaveAllocations
<1>1. Inv => LeasesHaveAllocations
  BY DEF Inv, Tables, TablesOK, Agree, LeasesHaveAllocations
<1> QED
  BY <1>1, Invariance, PTL

\* When close has returned normally, nothing of the branch is allocated or leased,
\* and no late tick of its heartbeat brings it back.
THEOREM CleanClose == Spec => []CleanCloseReleases
<1>1. ASSUME Inv PROVE CleanCloseReleases
  <2> SUFFICES ASSUME NEW b \in Branches, pc[b] = "closed"
               PROVE  /\ \A a \in AllocatedBy(b) : allocation[a].state = "released"
                      /\ \A l \in LeaseIds : l[1] \in AllocatedBy(b) => ~Active(lease, l)
    BY DEF CleanCloseReleases
  <2>1. \A a \in AllocatedBy(b) : allocation[a].state = "released"
    BY <1>1 DEF Inv, BranchOK
  <2>2. \A a \in AllocatedBy(b) : a \in Allocations
    BY Branching
  <2>3. \A l \in LeaseIds : Active(lease, l) /\ l[1] \in Allocations => IsLive(allocation[l[1]])
    BY <1>1 DEF Inv, Tables, TablesOK, Agree
  <2> QED
    BY <2>1, <2>2, <2>3 DEF IsLive
<1> QED
  BY <1>1, Invariance, PTL

\* No step takes an allocation back: a released one stays as it is, and proof,
\* endpoint and token never change once they are there.
THEOREM GoForward == Spec => AllocationsGoForward
<1> DEFINE Forwards ==
       \A a \in Allocations :
          LET old == allocation[a]  new == allocation'[a]
          IN  /\ old.state = "released" => new = old
              /\ old.state = "bound" => new.state \in {"bound", "released"}
              /\ old.proof # Nobody => new.proof = old.proof
              /\ old.state # "none" => new.endpoint = old.endpoint /\ new.token = old.token
<1>1. ASSUME Inv, Next PROVE Forwards
  <2>1. CASE QuietStep
    BY <2>1 DEF QuietStep, Forward
  <2>2. CASE GrantStep
    <3>1. PICK l \in LeaseIds :
             /\ \A a \in Allocations : a # l[1] => allocation'[a] = allocation[a]
             /\ l[1] \in Allocations => allocation[l[1]].state = "none"
      BY <2>2 DEF GrantStep
    <3>2. \A a \in Allocations : allocation[a].state = "none" => allocation[a].proof = Nobody
      <4>1. NoAllocation.proof = Nobody
        BY DEF NoAllocation
      <4> QED
        BY <1>1, <4>1 DEF Inv, Tables, TablesOK, RowOK
    <3>3. \A a \in Allocations : allocation'[a] = allocation[a] \/ allocation[a].state = "none"
      BY <3>1
    <3> QED
      BY <3>2, <3>3
  <2>3. CASE TickStep
    BY <2>3 DEF TickStep
  <2> QED
    BY <1>1, <2>1, <2>2, <2>3, StepKinds
<1>2. Inv /\ [Next]_vars => [Forwards]_vars
  BY <1>1
<1> QED
  BY <1>2, Invariance, PTL DEF Spec, AllocationsGoForward

-----------------------------------------------------------------------------
(***************************************************************************)
(* The tables implement the fenced lock.                                   *)
(***************************************************************************)

\* What holds endpoint e, as the refinement mapping has it.
HolderOf(L, e) == {[grant |-> l, until |-> L[l].expires] : l \in {x \in OnEndpoint[e] : Active(L, x)}}

LEMMA HolderOfOne ==
    ASSUME NEW L, OneHolder(L), NEW e \in Endpoints, NEW l \in LeaseIds, l[2] = e, Active(L, l)
    PROVE  HolderOf(L, e) = {[grant |-> l, until |-> L[l].expires]}
<1>1. {x \in OnEndpoint[e] : Active(L, x)} = {l}
  BY DEF OnEndpoint, OneHolder
<1> QED
  BY <1>1 DEF HolderOf

LEMMA HolderOfNone ==
    ASSUME NEW L, NEW e \in Endpoints, \A l \in LeaseIds : l[2] = e => ~Active(L, l)
    PROVE  HolderOf(L, e) = {}
BY DEF HolderOf, OnEndpoint

\* Weaker leases: each endpoint is held by nobody, or by its holder of before
\* for another time.
LEMMA QuietHolders ==
    ASSUME Tables, QuietStep, NEW e \in Endpoints
    PROVE  \/ HolderOf(lease', e) = {}
           \/ \E h \in HolderOf(lease, e), t \in 0..Forever :
                 HolderOf(lease', e) = {Lock!Holding(h.grant, t)}
<1>1. OneHolder(lease) /\ OneHolder(lease') /\ lease' \in [LeaseIds -> LeaseRows]
  BY DEF Tables, QuietStep, TablesOK
<1>2. CASE \A l \in LeaseIds : l[2] = e => ~Active(lease', l)
  BY <1>2, HolderOfNone
<1>3. ASSUME NEW l \in LeaseIds, l[2] = e, Active(lease', l)
      PROVE  \E h \in HolderOf(lease, e), t \in 0..Forever :
                 HolderOf(lease', e) = {Lock!Holding(h.grant, t)}
  <2>1. Active(lease, l)
    BY <1>3 DEF QuietStep, Weakens
  <2>2. /\ HolderOf(lease, e) = {[grant |-> l, until |-> lease[l].expires]}
        /\ HolderOf(lease', e) = {[grant |-> l, until |-> lease'[l].expires]}
    BY <1>1, <1>3, <2>1, HolderOfOne
  <2>3. lease'[l].expires \in 0..Forever
    BY <1>1 DEF LeaseRows
  <2>4. HolderOf(lease', e) = {Lock!Holding([grant |-> l, until |-> lease[l].expires].grant,
                                            lease'[l].expires)}
    BY <2>2 DEF Lock!Holding
  <2> QED
    BY <2>2, <2>3, <2>4
<1> QED
  BY <1>2, <1>3

LEMMA QuietImplements ==
    ASSUME Tables, QuietStep
    PROVE  Lock!EndOrExtend
<1> DEFINE holding(L) == [e \in Endpoints |->
                             {[grant |-> l, until |-> L[l].expires] :
                              l \in {x \in OnEndpoint[e] : Active(L, x)}}]
           used(L) == {l \in LeaseIds : L[l].state # "none"}
<1>1. \A L : \A e \in Endpoints : holding(L)[e] = HolderOf(L, e)
  BY DEF HolderOf
<1>2. used(lease') = used(lease)
  BY DEF QuietStep, Weakens
<1>3. UNCHANGED <<clock, lastToken>>
  BY DEF QuietStep
<1>4. \A e \in Endpoints :
         \/ holding(lease')[e] \in {{}, holding(lease)[e]}
         \/ \E h \in holding(lease)[e], t \in 0..Forever :
               holding(lease')[e] = {Lock!Holding(h.grant, t)}
  <2> HIDE DEF holding
  <2> QED
    BY <1>1, QuietHolders
<1> QED
  BY <1>2, <1>3, <1>4 DEF Lock!EndOrExtend

LEMMA GrantImplements ==
    ASSUME Tables, NEW l \in LeaseIds,
           lease[l].state = "none", Active(lease', l),
           lastToken' = [lastToken EXCEPT ![l[2]] = @ + 1],
           \A m \in LeaseIds : m[2] = l[2] /\ Active(lease, m) => lease[m].expires <= clock,
           \A m \in LeaseIds : m # l => lease'[m].state = "none" <=> lease[m].state = "none",
           \A m \in LeaseIds : m[2] # l[2] => lease'[m] = lease[m],
           TablesOK(lease, allocation)', UNCHANGED clock
    PROVE  Lock!Grant(l[2], l)
<1> DEFINE holding(L) == [e \in Endpoints |->
                             {[grant |-> x, until |-> L[x].expires] :
                              x \in {y \in OnEndpoint[e] : Active(L, y)}}]
           used(L) == {x \in LeaseIds : L[x].state # "none"}
<1>1. \A L : \A e \in Endpoints : holding(L)[e] = HolderOf(L, e)
  BY DEF HolderOf
<1>2. \A L : holding(L) = [e \in Endpoints |-> HolderOf(L, e)]
  BY DEF HolderOf
<1>3. l[2] \in Endpoints /\ lease' \in [LeaseIds -> LeaseRows] /\ OneHolder(lease')
  BY Ids DEF TablesOK
<1>4. l \notin used(lease) /\ used(lease') = used(lease) \cup {l}
  BY DEF Active
<1>5. \A h \in holding(lease)[l[2]] : h.until <= clock
  <2> SUFFICES ASSUME NEW h \in HolderOf(lease, l[2]) PROVE h.until <= clock
    BY <1>1, <1>3
  <2>1. PICK m \in LeaseIds : m[2] = l[2] /\ Active(lease, m) /\ h = [grant |-> m, until |-> lease[m].expires]
    BY <1>3 DEF HolderOf, OnEndpoint
  <2> QED
    BY <2>1
<1>6. HolderOf(lease', l[2]) = {Lock!Holding(l, lease'[l].expires)}
  BY <1>3, HolderOfOne DEF Lock!Holding
<1>7. \A e \in Endpoints : e # l[2] => HolderOf(lease', e) = HolderOf(lease, e)
  BY DEF HolderOf, OnEndpoint, Active
<1>8. holding(lease') = [holding(lease) EXCEPT ![l[2]] = {Lock!Holding(l, lease'[l].expires)}]
  <2> HIDE DEF holding
  <2> QED
    BY <1>2, <1>6, <1>7
<1>9. lease'[l].expires \in 0..Forever
  BY <1>3 DEF LeaseRows
<1>10. \E t \in 0..Forever : holding(lease') = [holding(lease) EXCEPT ![l[2]] = {Lock!Holding(l, t)}]
  BY <1>8, <1>9
<1> QED
  BY <1>4, <1>5, <1>10 DEF Lock!Grant

LEMMA StepImplements ==
    ASSUME Inv, Next
    PROVE  Lock!Next
<1>1. Tables
  BY DEF Inv
<1>2. CASE QuietStep
  BY <1>1, <1>2, QuietImplements DEF Lock!Next
<1>3. CASE GrantStep
  <2>1. PICK l \in LeaseIds :
           /\ lease[l].state = "none" /\ Active(lease', l)
           /\ lastToken' = [lastToken EXCEPT ![l[2]] = @ + 1]
           /\ \A m \in LeaseIds : m[2] = l[2] /\ Active(lease, m) => lease[m].expires <= clock
           /\ \A m \in LeaseIds : m # l => lease'[m].state = "none" <=> lease[m].state = "none"
           /\ \A m \in LeaseIds : m[2] # l[2] => lease'[m] = lease[m]
           /\ TablesOK(lease, allocation)' /\ UNCHANGED clock
    BY <1>3 DEF GrantStep
  <2>2. Lock!Grant(l[2], l)
    BY <1>1, <2>1, GrantImplements
  <2>3. l[2] \in Endpoints
    BY Ids
  <2> QED
    BY <2>2, <2>3 DEF Lock!Next
<1>4. CASE TickStep
  BY <1>4 DEF TickStep, Lock!Next, Lock!Tick
<1> QED
  BY <1>2, <1>3, <1>4, StepKinds

LEMMA InitImplements ==
    ASSUME Init
    PROVE  Lock!Init
<1>1. \A l \in LeaseIds : ~Active(lease, l) /\ lease[l].state = "none"
  BY DEF Init, NoLease, Active
<1>2. \A e \in Endpoints : {x \in OnEndpoint[e] : Active(lease, x)} = {}
  BY <1>1 DEF OnEndpoint
<1>3. {l \in LeaseIds : lease[l].state # "none"} = {}
  BY <1>1
<1>4. clock = 0 /\ lastToken = [e \in Endpoints |-> 0]
  BY DEF Init
<1> QED
  BY <1>2, <1>3, <1>4 DEF Lock!Init

\* The lease tables, with all who write them, implement the fenced lock.
THEOREM Refinement == Spec => ImplementsFencedLock
<1>1. Init => Lock!Init
  BY InitImplements
<1>2. Inv /\ [Next]_vars => [Lock!Next]_(Lock!vars)
  <2>1. CASE Next
    BY <2>1, StepImplements
  <2>2. CASE UNCHANGED vars
    BY <2>2 DEF vars, tables, Lock!vars
  <2> QED
    BY <2>1, <2>2
<1> QED
  BY <1>1, <1>2, Invariance, PTL DEF Spec, ImplementsFencedLock, Lock!Spec
=============================================================================
