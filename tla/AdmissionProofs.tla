-------------------------- MODULE AdmissionProofs --------------------------
(***************************************************************************)
(* The accounting of the admission authority is exact and its selection is *)
(* current, for every number of requests, groups, lanes, tenants and       *)
(* resources and every budget.                                             *)
(***************************************************************************)
EXTENDS Admission, FiniteSetTheorems, WellFoundedInduction, TLAPS

-----------------------------------------------------------------------------
(***************************************************************************)
(* Lemmas about numbers, sets and the selection.                           *)
(***************************************************************************)

\* A set of natural numbers that is not empty has a least element.
LEMMA LeastNatural ==
    ASSUME NEW S, S \subseteq Nat, S # {}
    PROVE  \E m \in S : \A n \in S : m <= n
<1>1. IsWellFoundedOn(OpToRel(<, Nat), Nat)
  BY NatLessThanWellFounded
<1>2. \E m \in S : \A n \in S : <<n, m>> \notin OpToRel(<, Nat)
  BY <1>1, WFMin
<1>3. PICK m \in S : \A n \in S : <<n, m>> \notin OpToRel(<, Nat)
  BY <1>2
<1>4. ASSUME NEW n \in S PROVE m <= n
  <2>1. <<n, m>> \in Nat \X Nat
    OBVIOUS
  <2>2. ~(n < m)
    BY <1>3, <2>1 DEF OpToRel
  <2> QED
    BY <2>2
<1> QED
  BY <1>4

\* The count of the elements of S that F maps to v is a number, ...
LEMMA CountType ==
    ASSUME NEW S, IsFiniteSet(S), NEW F, NEW v
    PROVE  Count(S, F, v) \in Nat
<1>1. IsFiniteSet({x \in S : F[x] = v})
  BY FS_Subset
<1> QED
  BY <1>1, FS_CardinalityType DEF Count

\* ... which is one more when S gains an element F maps to v, ...
LEMMA CountGain ==
    ASSUME NEW S, IsFiniteSet(S), NEW F, NEW v, NEW r, r \notin S
    PROVE  Count(S \cup {r}, F, v) = Count(S, F, v) + (IF F[r] = v THEN 1 ELSE 0)
<1> DEFINE A == {x \in S : F[x] = v}
<1>1. IsFiniteSet(A) /\ r \notin A
  BY FS_Subset
<1>2. Count(S, F, v) \in Nat
  BY CountType
<1>3. CASE F[r] = v
  <2>1. {x \in S \cup {r} : F[x] = v} = A \cup {r}
    BY <1>3
  <2>2. Cardinality(A \cup {r}) = Cardinality(A) + 1
    BY <1>1, FS_AddElement
  <2> QED
    BY <2>1, <2>2, <1>3 DEF Count
<1>4. CASE F[r] # v
  <2>1. {x \in S \cup {r} : F[x] = v} = A
    BY <1>4
  <2>2. Count(S \cup {r}, F, v) = Count(S, F, v)
    BY <2>1 DEF Count
  <2> QED
    BY <2>2, <1>2, <1>4
<1> QED
  BY <1>3, <1>4

\* ... and one less when S loses one.
LEMMA CountLoss ==
    ASSUME NEW S, IsFiniteSet(S), NEW F, NEW v, NEW r \in S
    PROVE  Count(S \ {r}, F, v) = Count(S, F, v) - (IF F[r] = v THEN 1 ELSE 0)
<1> DEFINE T == S \ {r}
<1>1. IsFiniteSet(T) /\ r \notin T /\ S = T \cup {r}
  BY FS_RemoveElement
<1>2. Count(T, F, v) \in Nat
  BY <1>1, CountType
<1> HIDE DEF T
<1>3. Count(T \cup {r}, F, v) = Count(T, F, v) + (IF F[r] = v THEN 1 ELSE 0)
  <2>1. IsFiniteSet(T) /\ r \notin T
    BY <1>1
  <2> QED
    BY ONLY <2>1, CountGain
<1>4. Count(S, F, v) = Count(T, F, v) + (IF F[r] = v THEN 1 ELSE 0)
  BY <1>1, <1>3
<1> QED
  BY <1>2, <1>4 DEF T

\* A counter over the keys K is exact when it counts the elements of S by their
\* key F, and keeps its limits.
Exact(counter, K, S, F, limit) ==
    /\ IsFiniteSet(S)
    /\ counter \in [K -> Nat] /\ limit \in [K -> Nat]
    /\ \A k \in K : counter[k] = Count(S, F, k) /\ counter[k] <= limit[k]

\* It stays exact when r enters S, if the limit of r's key is not reached.
LEMMA CounterGain ==
    ASSUME NEW counter, NEW K, NEW S, NEW F, NEW limit, NEW r,
           Exact(counter, K, S, F, limit), r \notin S,
           F[r] \in K => counter[F[r]] < limit[F[r]]
    PROVE  Exact(Counted(counter, F[r]), K, S \cup {r}, F, limit)
<1>1. IsFiniteSet(S) /\ r \notin S
  BY DEF Exact
<1>2. ASSUME NEW k \in K
      PROVE  /\ Counted(counter, F[r])[k] = Count(S \cup {r}, F, k)
             /\ Counted(counter, F[r])[k] \in Nat
             /\ Counted(counter, F[r])[k] <= limit[k]
  <2>1. Count(S \cup {r}, F, k) = Count(S, F, k) + (IF F[r] = k THEN 1 ELSE 0)
    BY ONLY <1>1, CountGain
  <2>2. /\ counter[k] \in Nat /\ limit[k] \in Nat /\ counter[k] = Count(S, F, k)
        /\ counter[k] <= limit[k] /\ k \in DOMAIN counter
    BY DEF Exact
  <2>3. CASE k = F[r]
    <3>1. Counted(counter, F[r])[k] = counter[k] + 1
      BY <2>2, <2>3 DEF Counted
    <3>2. counter[k] < limit[k]
      BY <2>3
    <3>3. Count(S \cup {r}, F, k) = Count(S, F, k) + 1
      BY <2>1, <2>3
    <3> QED
      BY <2>2, <3>1, <3>2, <3>3
  <2>4. CASE k # F[r]
    <3>1. Counted(counter, F[r])[k] = counter[k]
      BY <2>2, <2>4 DEF Counted
    <3>2. Count(S \cup {r}, F, k) = Count(S, F, k) + 0
      BY <2>1, <2>4
    <3> QED
      BY <2>2, <3>1, <3>2
  <2> QED
    BY <2>3, <2>4
<1>3. Counted(counter, F[r]) \in [K -> Nat]
  <2>1. Counted(counter, F[r]) = [k \in K |-> Counted(counter, F[r])[k]]
    BY DEF Counted, Exact
  <2> QED
    BY <1>2, <2>1
<1>4. IsFiniteSet(S \cup {r})
  BY <1>1, FS_AddElement
<1> QED
  BY <1>2, <1>3, <1>4 DEF Exact

\* It stays exact when r leaves S; no counter goes below zero.
LEMMA CounterLoss ==
    ASSUME NEW counter, NEW K, NEW S, NEW F, NEW limit, NEW r \in S,
           Exact(counter, K, S, F, limit)
    PROVE  Exact(Uncounted(counter, F[r]), K, S \ {r}, F, limit)
<1>1. IsFiniteSet(S) /\ IsFiniteSet(S \ {r})
  BY FS_RemoveElement DEF Exact
<1>2. ASSUME NEW k \in K
      PROVE  /\ Uncounted(counter, F[r])[k] = Count(S \ {r}, F, k)
             /\ Uncounted(counter, F[r])[k] \in Nat
             /\ Uncounted(counter, F[r])[k] <= limit[k]
  <2>1. Count(S \ {r}, F, k) = Count(S, F, k) - (IF F[r] = k THEN 1 ELSE 0)
    BY <1>1, CountLoss
  <2>2. Count(S \ {r}, F, k) \in Nat
    BY <1>1, CountType
  <2>3. /\ counter[k] \in Nat /\ limit[k] \in Nat /\ counter[k] = Count(S, F, k)
        /\ counter[k] <= limit[k] /\ k \in DOMAIN counter
    BY DEF Exact
  <2>4. CASE k = F[r]
    <3>1. Uncounted(counter, F[r])[k] = counter[k] - 1
      BY <2>3, <2>4 DEF Uncounted
    <3>2. Count(S \ {r}, F, k) = Count(S, F, k) - 1
      BY <2>1, <2>4
    <3> QED
      BY <2>2, <2>3, <3>1, <3>2
  <2>5. CASE k # F[r]
    <3>1. Uncounted(counter, F[r])[k] = counter[k]
      BY <2>3, <2>5 DEF Uncounted
    <3>2. Count(S \ {r}, F, k) = Count(S, F, k) - 0
      BY <2>1, <2>5
    <3> QED
      BY <2>3, <3>1, <3>2
  <2> QED
    BY <2>4, <2>5
<1>3. Uncounted(counter, F[r]) \in [K -> Nat]
  <2>1. Uncounted(counter, F[r]) = [k \in K |-> Uncounted(counter, F[r])[k]]
    BY DEF Uncounted, Exact
  <2> QED
    BY <1>2, <2>1
<1> QED
  BY <1>1, <1>2, <1>3 DEF Exact

\* Removing an element from a sequence gives a sequence over the same set.
LEMMA WithoutType ==
    ASSUME NEW S, NEW s \in Seq(S), NEW x
    PROVE  Without(s, x) \in Seq(S)
<1>1. CASE \E n \in DOMAIN s : s[n] = x
  <2> DEFINE at == CHOOSE n \in DOMAIN s : s[n] = x
             f == [n \in 1..Len(s) - 1 |-> IF n < at THEN s[n] ELSE s[n + 1]]
  <2>1. at \in DOMAIN s
    BY <1>1
  <2>2. Len(s) - 1 \in Nat
    BY <2>1
  <2>3. f \in [1..Len(s) - 1 -> S]
    BY <2>1
  <2>4. f \in Seq(S)
    BY <2>2, <2>3
  <2> QED
    BY <1>1, <2>4 DEF Without
<1>2. CASE ~\E n \in DOMAIN s : s[n] = x
  BY <1>2 DEF Without
<1> QED
  BY <1>1, <1>2

\* A sequence has no duplicates.
Distinct(s) == \A m, n \in DOMAIN s : s[m] = s[n] => m = n

\* Without a duplicate, removing x leaves exactly the other elements.
LEMMA WithoutElements ==
    ASSUME NEW S, NEW s \in Seq(S), NEW x, Distinct(s)
    PROVE  /\ Distinct(Without(s, x))
           /\ Elements(Without(s, x)) = Elements(s) \ {x}
<1>1. CASE \E n \in DOMAIN s : s[n] = x
  <2> DEFINE at == CHOOSE n \in DOMAIN s : s[n] = x
             f == [n \in 1..Len(s) - 1 |-> IF n < at THEN s[n] ELSE s[n + 1]]
  <2>1. at \in 1..Len(s) /\ s[at] = x
    BY <1>1
  <2>2. Without(s, x) = f /\ DOMAIN f = 1..Len(s) - 1
    BY <1>1 DEF Without
  <2>3. \A n \in 1..Len(s) : s[n] = x => n = at
    BY <2>1 DEF Distinct
  <2> HIDE DEF at
  <2>4. ASSUME NEW n \in 1..Len(s) - 1
        PROVE  /\ n < at => f[n] = s[n] /\ n \in 1..Len(s) /\ n # at
               /\ ~(n < at) => f[n] = s[n + 1] /\ n + 1 \in 1..Len(s) /\ n + 1 # at
    BY <2>1
  <2>5. Distinct(f)
    BY <2>1, <2>4 DEF Distinct
  <2>6. ASSUME NEW n \in 1..Len(s) - 1
        PROVE  f[n] \in {s[k] : k \in 1..Len(s)} \ {x}
    BY <2>3, <2>4
  <2>7. ASSUME NEW k \in 1..Len(s), s[k] # x
        PROVE  \E n \in 1..Len(s) - 1 : f[n] = s[k]
    <3>1. k # at
      BY <2>1, <2>7
    <3>2. CASE k < at
      <4>1. k \in 1..Len(s) - 1 /\ f[k] = s[k]
        BY <2>1, <3>2
      <4> QED
        BY <4>1
    <3>3. CASE k > at
      <4>1. k - 1 \in 1..Len(s) - 1 /\ ~(k - 1 < at) /\ (k - 1) + 1 = k
        BY <2>1, <3>3
      <4>2. f[k - 1] = s[k]
        BY <4>1
      <4> QED
        BY <4>1, <4>2
    <3> QED
      BY <2>1, <3>1, <3>2, <3>3
  <2> HIDE DEF f
  <2>8. Elements(f) = Elements(s) \ {x}
    <3>1. DOMAIN s = 1..Len(s)
      OBVIOUS
    <3>2. Elements(f) \subseteq Elements(s) \ {x}
      BY <3>1, <2>2, <2>6 DEF Elements
    <3>3. Elements(s) \ {x} \subseteq Elements(f)
      BY <3>1, <2>2, <2>7 DEF Elements
    <3> QED
      BY <3>2, <3>3
  <2> QED
    BY <2>2, <2>5, <2>8
<1>2. CASE ~\E n \in DOMAIN s : s[n] = x
  BY <1>2 DEF Without, Elements
<1> QED
  BY <1>1, <1>2

\* The scheduling order has a first element in every set of waiters: the policy
\* always finds somebody, and only admissible waiters.
LEMMA SelectPicksAdmissible ==
    ASSUME TypeOK, NEW q \in Seq(Requests)
    PROVE  IF \E n \in DOMAIN q : CanAdmit(q[n])
           THEN \E n \in DOMAIN q : Select(q) = q[n] /\ CanAdmit(q[n])
           ELSE Select(q) = Nobody
<1> DEFINE able == {n \in DOMAIN q : CanAdmit(q[n])}
           rank(n) == EffectiveRank(q[n])
           turn(n) == LastGrant(GroupOf[q[n]])
<1>1. ASSUME NEW n \in DOMAIN q
      PROVE  n \in Nat /\ q[n] \in Requests /\ rank(n) \in Nat
  <2>1. n \in Nat /\ q[n] \in Requests /\ GroupOf[q[n]] \in Groups
    BY AdmissionAssumption
  <2>2. age[q[n]] \in Nat /\ Rank[GroupOf[q[n]]] \in Nat
    BY <2>1, AdmissionAssumption DEF TypeOK
  <2> QED
    BY <2>1, <2>2 DEF EffectiveRank
<1>2. ASSUME NEW g PROVE LastGrant(g) \in Nat
  BY DEF TypeOK, LastGrant
<1>3. CASE able = {}
  BY <1>3 DEF Select
<1>4. CASE able # {}
  <2> HIDE DEF able, rank, turn
  <2>1. able \subseteq DOMAIN q /\ \A n \in able : n \in Nat /\ rank(n) \in Nat /\ turn(n) \in Nat
    BY <1>1, <1>2 DEF able, turn
  <2>2. PICK a \in able : \A n \in able : rank(a) <= rank(n)
    <3> DEFINE ranks == {rank(n) : n \in able}
    <3>1. ranks \subseteq Nat /\ ranks # {}
      BY <1>4, <2>1
    <3>2. \E r \in ranks : \A s \in ranks : r <= s
      <4> HIDE DEF ranks
      <4> QED
        BY <3>1, LeastNatural
    <3> QED
      BY <3>2
  <2> DEFINE first == {n \in able : rank(n) = rank(a)}
  <2>3. PICK b \in first : \A n \in first : turn(b) <= turn(n)
    <3> DEFINE turns == {turn(n) : n \in first}
    <3>1. turns \subseteq Nat /\ turns # {}
      BY <2>1, <2>2
    <3>2. \E r \in turns : \A s \in turns : r <= s
      <4> HIDE DEF turns
      <4> QED
        BY <3>1, LeastNatural
    <3> QED
      BY <3>2
  <2> DEFINE due == {n \in first : turn(n) = turn(b)}
  <2>4. PICK m \in due : \A n \in due : m <= n
    <3>1. due \subseteq Nat /\ due # {}
      BY <2>1, <2>3
    <3> QED
      BY <3>1, LeastNatural
  <2>5. m \in able /\ \A n \in able : Precedes(q, m, n)
    <3>1. m \in able /\ rank(m) = rank(a) /\ turn(m) = turn(b)
      BY <2>4
    <3>2. ASSUME NEW n \in able
          PROVE  \/ rank(m) < rank(n)
                 \/ rank(m) = rank(n) /\ (turn(m) < turn(n) \/ (turn(m) = turn(n) /\ m <= n))
      BY <3>1, <2>1, <2>2, <2>3, <2>4
    <3> QED
      BY <3>1, <3>2 DEF Precedes, rank, turn
  <2> DEFINE chosen == CHOOSE k \in able : \A n \in able : Precedes(q, k, n)
  <2>6. chosen \in able
    BY <2>5
  <2>7. Select(q) = q[chosen]
    BY <1>4 DEF Select, able
  <2> QED
    BY <2>6, <2>7 DEF able
<1> QED
  BY <1>3, <1>4

-----------------------------------------------------------------------------
(***************************************************************************)
(* The inductive invariant.  The accounting and the budget need that a     *)
(* waiter holds no lease; that a request which leaves the queue is gone    *)
(* from it needs a queue without duplicates.                               *)
(***************************************************************************)
QueueIsSound == Distinct(queue) /\ Waiting \cap held = {}

Inv ==
    /\ TypeOK
    /\ QueueIsSound
    /\ AccountingMatchesLeases
    /\ BudgetRespected
    /\ SelectionIsCurrent

\* The accounting and the budget, as exact counters at each level.
ExactAccounts ==
    /\ inFlight = Cardinality(held) /\ inFlight \in Nat /\ inFlight <= MaxTotal
    /\ IsFiniteSet(held)
    /\ Exact(byGroup, Groups, held, GroupOf, [g \in Groups |-> MaxGroup])
    /\ Exact(byLane, Lanes, held, LaneOf, LaneLimit)
    /\ Exact(byTenant, Tenants, held, TenantOfRequest, [t \in Tenants |-> MaxTenant])
    /\ Exact(byResource, Resources, held, ResourceOfRequest, [x \in Resources |-> MaxResource])

LEMMA AccountsAreExact ==
    ASSUME TypeOK, AccountingMatchesLeases, BudgetRespected
    PROVE  ExactAccounts
<1>1. IsFiniteSet(held)
  BY FS_Subset, AdmissionAssumption DEF TypeOK
<1>2. /\ inFlight \in Nat /\ inFlight = Cardinality(held) /\ inFlight <= MaxTotal
  BY DEF TypeOK, AccountingMatchesLeases, BudgetRespected
<1>3. Exact(byGroup, Groups, held, GroupOf, [g \in Groups |-> MaxGroup])
  <2> DEFINE limit == [g \in Groups |-> MaxGroup]
  <2>1. limit \in [Groups -> Nat] /\ \A g \in Groups : limit[g] = MaxGroup
    BY AdmissionAssumption
  <2> QED
    BY <1>1, <2>1 DEF TypeOK, AccountingMatchesLeases, BudgetRespected, Exact
<1>4. Exact(byLane, Lanes, held, LaneOf, LaneLimit)
  <2>1. LaneLimit \in [Lanes -> Nat]
    BY AdmissionAssumption
  <2> QED
    BY <1>1, <2>1 DEF TypeOK, AccountingMatchesLeases, BudgetRespected, Exact
<1>5. Exact(byTenant, Tenants, held, TenantOfRequest, [t \in Tenants |-> MaxTenant])
  <2> DEFINE limit == [t \in Tenants |-> MaxTenant]
  <2>1. limit \in [Tenants -> Nat] /\ \A t \in Tenants : limit[t] = MaxTenant
    BY AdmissionAssumption
  <2> QED
    BY <1>1, <2>1 DEF TypeOK, AccountingMatchesLeases, BudgetRespected, Exact
<1>6. Exact(byResource, Resources, held, ResourceOfRequest, [x \in Resources |-> MaxResource])
  <2> DEFINE limit == [x \in Resources |-> MaxResource]
  <2>1. limit \in [Resources -> Nat] /\ \A x \in Resources : limit[x] = MaxResource
    BY AdmissionAssumption
  <2> QED
    BY <1>1, <2>1 DEF TypeOK, AccountingMatchesLeases, BudgetRespected, Exact
<1> QED
  BY <1>1, <1>2, <1>3, <1>4, <1>5, <1>6 DEF ExactAccounts

\* Exact counters have the types of the counters.
LEMMA ExactAccountsType ==
    ASSUME ExactAccounts
    PROVE  /\ inFlight \in Nat
           /\ byGroup \in [Groups -> Nat] /\ byTenant \in [Tenants -> Nat]
           /\ byResource \in [Resources -> Nat] /\ byLane \in [Lanes -> Nat]
           /\ AccountingMatchesLeases /\ BudgetRespected
BY DEF ExactAccounts, Exact, AccountingMatchesLeases, BudgetRespected

\* The keys a request is counted under.
LEMMA KeysOfRequest ==
    ASSUME NEW r \in Requests
    PROVE  /\ GroupOf[r] \in Groups /\ LaneOf[r] \in Lanes
           /\ TenantOfRequest[r] = TenantOf[GroupOf[r]]
           /\ ResourceOfRequest[r] = ResourceOf[GroupOf[r]]
           /\ Nobody \notin Tenants \cup Resources
BY AdmissionAssumption DEF TenantOfRequest, ResourceOfRequest

\* A grant moves every counter with the set of leases and stays in the budget.
LEMMA GrantKeepsAccounts ==
    ASSUME ExactAccounts, NEW r \in Requests, r \notin held, Grant(r)
    PROVE  ExactAccounts'
<1>1. held' = held \cup {r} /\ CanAdmit(r) /\ IsFiniteSet(held)
  BY DEF Grant, ExactAccounts
<1>2. inFlight' = Cardinality(held') /\ inFlight' \in Nat /\ inFlight' <= MaxTotal
      /\ IsFiniteSet(held')
  <2>1. Cardinality(held \cup {r}) = Cardinality(held) + 1 /\ IsFiniteSet(held \cup {r})
    BY <1>1, FS_AddElement
  <2>2. inFlight < MaxTotal /\ inFlight' = inFlight + 1
    BY DEF Grant, CanAdmit
  <2> QED
    BY <2>1, <2>2, <1>1, AdmissionAssumption DEF ExactAccounts
<1>3. Exact(byGroup, Groups, held, GroupOf, [g \in Groups |-> MaxGroup])'
  <2>1. byGroup[GroupOf[r]] < [g \in Groups |-> MaxGroup][GroupOf[r]]
    BY <1>1, KeysOfRequest DEF CanAdmit, WithinGroup
  <2>2. Exact(Counted(byGroup, GroupOf[r]), Groups, held \cup {r}, GroupOf, [g \in Groups |-> MaxGroup])
    BY <2>1, CounterGain DEF ExactAccounts
  <2> QED
    BY <1>1, <2>2 DEF Grant
<1>4. Exact(byLane, Lanes, held, LaneOf, LaneLimit)'
  <2>1. byLane[LaneOf[r]] < LaneLimit[LaneOf[r]]
    BY <1>1 DEF CanAdmit
  <2>2. Exact(Counted(byLane, LaneOf[r]), Lanes, held \cup {r}, LaneOf, LaneLimit)
    BY <2>1, CounterGain DEF ExactAccounts
  <2> QED
    BY <1>1, <2>2 DEF Grant
<1>5. Exact(byTenant, Tenants, held, TenantOfRequest, [t \in Tenants |-> MaxTenant])'
  <2> DEFINE key == TenantOfRequest[r]
             limit == [t \in Tenants |-> MaxTenant]
  <2>1. key \in Tenants => byTenant[key] < limit[key]
    BY <1>1, KeysOfRequest DEF CanAdmit
  <2>2. Exact(Counted(byTenant, key), Tenants, held \cup {r}, TenantOfRequest, limit)
    BY <2>1, CounterGain DEF ExactAccounts
  <2>3. byTenant' = Counted(byTenant, key)
    BY KeysOfRequest DEF Grant
  <2> QED
    BY <1>1, <2>2, <2>3 DEF TenantOfRequest
<1>6. Exact(byResource, Resources, held, ResourceOfRequest, [x \in Resources |-> MaxResource])'
  <2> DEFINE key == ResourceOfRequest[r]
             limit == [x \in Resources |-> MaxResource]
  <2>1. key \in Resources => byResource[key] < limit[key]
    BY <1>1, KeysOfRequest DEF CanAdmit
  <2>2. Exact(Counted(byResource, key), Resources, held \cup {r}, ResourceOfRequest, limit)
    BY <2>1, CounterGain DEF ExactAccounts
  <2>3. byResource' = Counted(byResource, key)
    BY KeysOfRequest DEF Grant
  <2> QED
    BY <1>1, <2>2, <2>3 DEF ResourceOfRequest
<1> QED
  BY <1>2, <1>3, <1>4, <1>5, <1>6 DEF ExactAccounts

\* A release moves every counter back with the set of leases.
LEMMA ReleaseKeepsAccounts ==
    ASSUME ExactAccounts, NEW r \in Requests, Release(r)
    PROVE  ExactAccounts'
<1>1. held' = held \ {r} /\ r \in held /\ IsFiniteSet(held)
  BY DEF Release, Releasable, ExactAccounts
<1>2. inFlight' = Cardinality(held') /\ inFlight' \in Nat /\ inFlight' <= MaxTotal
      /\ IsFiniteSet(held')
  <2>1. Cardinality(held \ {r}) = Cardinality(held) - 1 /\ IsFiniteSet(held \ {r})
    BY <1>1, FS_RemoveElement
  <2>2. Cardinality(held \ {r}) \in Nat
    BY <2>1, FS_CardinalityType
  <2>3. inFlight' = inFlight - 1
    BY DEF Release
  <2> QED
    BY <2>1, <2>2, <2>3, <1>1, AdmissionAssumption DEF ExactAccounts
<1>3. Exact(byGroup, Groups, held, GroupOf, [g \in Groups |-> MaxGroup])'
  <2>1. Exact(Uncounted(byGroup, GroupOf[r]), Groups, held \ {r}, GroupOf, [g \in Groups |-> MaxGroup])
    BY <1>1, CounterLoss DEF ExactAccounts
  <2> QED
    BY <1>1, <2>1 DEF Release
<1>4. Exact(byLane, Lanes, held, LaneOf, LaneLimit)'
  <2>1. Exact(Uncounted(byLane, LaneOf[r]), Lanes, held \ {r}, LaneOf, LaneLimit)
    BY <1>1, CounterLoss DEF ExactAccounts
  <2> QED
    BY <1>1, <2>1 DEF Release
<1>5. Exact(byTenant, Tenants, held, TenantOfRequest, [t \in Tenants |-> MaxTenant])'
  <2>1. Exact(Uncounted(byTenant, TenantOfRequest[r]), Tenants, held \ {r}, TenantOfRequest,
              [t \in Tenants |-> MaxTenant])
    BY <1>1, CounterLoss DEF ExactAccounts
  <2>2. byTenant' = Uncounted(byTenant, TenantOfRequest[r])
    BY KeysOfRequest DEF Release
  <2> QED
    BY <1>1, <2>1, <2>2 DEF TenantOfRequest
<1>6. Exact(byResource, Resources, held, ResourceOfRequest, [x \in Resources |-> MaxResource])'
  <2>1. Exact(Uncounted(byResource, ResourceOfRequest[r]), Resources, held \ {r}, ResourceOfRequest,
              [x \in Resources |-> MaxResource])
    BY <1>1, CounterLoss DEF ExactAccounts
  <2>2. byResource' = Uncounted(byResource, ResourceOfRequest[r])
    BY KeysOfRequest DEF Release
  <2> QED
    BY <1>1, <2>1, <2>2 DEF ResourceOfRequest
<1> QED
  BY <1>2, <1>3, <1>4, <1>5, <1>6 DEF ExactAccounts

\* A request that is neither waiting nor holding joins the queue at its back.
LEMMA AppendKeepsQueueSound ==
    ASSUME TypeOK, QueueIsSound, NEW r \in Requests, r \notin Waiting, r \notin held
    PROVE  /\ Append(queue, r) \in Seq(Requests)
           /\ Distinct(Append(queue, r))
           /\ Elements(Append(queue, r)) = Waiting \cup {r}
<1>1. queue \in Seq(Requests) /\ Distinct(queue)
  BY DEF TypeOK, QueueIsSound
<1>2. Append(queue, r) \in Seq(Requests) /\ Len(Append(queue, r)) = Len(queue) + 1
  BY <1>1
<1>3. /\ \A n \in 1..Len(queue) : Append(queue, r)[n] = queue[n] /\ queue[n] # r
      /\ Append(queue, r)[Len(queue) + 1] = r
  BY <1>1 DEF Waiting, Elements
<1>4. DOMAIN Append(queue, r) = 1..Len(queue) + 1 /\ DOMAIN queue = 1..Len(queue)
  BY <1>1, <1>2
<1>5. \A n \in 1..Len(queue) + 1 : n \in 1..Len(queue) \/ n = Len(queue) + 1
  BY <1>1
<1>6. Distinct(Append(queue, r))
  BY <1>1, <1>3, <1>4, <1>5 DEF Distinct
<1>7. Elements(Append(queue, r)) = Waiting \cup {r}
  <2>1. Len(queue) + 1 \in 1..Len(queue) + 1 /\ 1..Len(queue) \subseteq 1..Len(queue) + 1
    BY <1>1
  <2>2. Elements(Append(queue, r)) \subseteq Waiting \cup {r}
    BY <1>3, <1>4, <1>5 DEF Waiting, Elements
  <2>3. Waiting \cup {r} \subseteq Elements(Append(queue, r))
    BY <1>3, <1>4, <2>1 DEF Waiting, Elements
  <2> QED
    BY <2>2, <2>3
<1> QED
  BY <1>2, <1>6, <1>7

\* What _selected_waiter returns, from the cache or from the policy.
LEMMA SelectedIsCurrent ==
    ASSUME TypeOK, SelectionIsCurrent
    PROVE  IF Selected(queue, fresh) = Nobody THEN \A w \in Waiting : ~CanAdmit(w)
           ELSE Selected(queue, fresh) \in Waiting /\ CanAdmit(Selected(queue, fresh))
<1>1. CASE fresh
  BY <1>1 DEF Selected, SelectionIsCurrent
<1>2. CASE ~fresh
  <2>1. queue \in Seq(Requests) /\ Selected(queue, fresh) = Select(queue)
    BY <1>2 DEF TypeOK, Selected
  <2>2. IF \E n \in DOMAIN queue : CanAdmit(queue[n])
        THEN \E n \in DOMAIN queue : Select(queue) = queue[n] /\ CanAdmit(queue[n])
        ELSE Select(queue) = Nobody
    BY <2>1, SelectPicksAdmissible
  <2>3. \A w \in Waiting : w # Nobody /\ \E n \in DOMAIN queue : w = queue[n]
    BY <2>1, AdmissionAssumption DEF Waiting, Elements
  <2>4. \A n \in DOMAIN queue : queue[n] \in Waiting
    BY DEF Waiting, Elements
  <2> QED
    BY <2>1, <2>2, <2>3, <2>4
<1> QED
  BY <1>1, <1>2 DEF TypeOK

\* The cache keeps its meaning while the queue's members and the counters stay.
LEMMA CanAdmitUnchanged ==
    ASSUME UNCHANGED counters
    PROVE  \A w : CanAdmit(w)' <=> CanAdmit(w)
BY DEF counters, CanAdmit, WithinGroup

-----------------------------------------------------------------------------
(***************************************************************************)
(* The invariant holds initially and every action preserves it.            *)
(***************************************************************************)
LEMMA InitInv == Init => Inv
<1> SUFFICES ASSUME Init PROVE Inv
  OBVIOUS
<1>1. TypeOK
  <2>1. 0 \in 0..MaxRank
    BY AdmissionAssumption
  <2>2. age \in [Requests -> 0..MaxRank]
    BY <2>1 DEF Init
  <2>3. queue \in Seq(Requests) /\ recency \in Seq(Groups)
    BY DEF Init
  <2> QED
    BY <2>2, <2>3 DEF Init, TypeOK
<1>2. QueueIsSound /\ SelectionIsCurrent
  BY DEF Init, QueueIsSound, Distinct, Waiting, Elements, SelectionIsCurrent
<1>3. \A F, v : Count({}, F, v) = 0
  <2>1. \A F, v : {x \in {} : F[x] = v} = {}
    OBVIOUS
  <2> QED
    BY <2>1, FS_EmptySet DEF Count
<1>4. AccountingMatchesLeases /\ BudgetRespected
  BY <1>3, FS_EmptySet, AdmissionAssumption DEF Init, AccountingMatchesLeases, BudgetRespected
<1> QED
  BY <1>1, <1>2, <1>4 DEF Inv

\* A grant to a request that holds nothing, whatever it does to the queue.
LEMMA GrantStep ==
    ASSUME Inv, NEW r \in Requests, r \notin held, Grant(r),
           queue' \in Seq(Requests), Distinct(queue'), Waiting' \subseteq Waiting \ {r},
           age' \in [Requests -> 0..MaxRank], closed' \in BOOLEAN
    PROVE  Inv'
<1>1. ExactAccounts'
  BY AccountsAreExact, GrantKeepsAccounts DEF Inv
<1>2. /\ inFlight' \in Nat
      /\ byGroup' \in [Groups -> Nat] /\ byTenant' \in [Tenants -> Nat]
      /\ byResource' \in [Resources -> Nat] /\ byLane' \in [Lanes -> Nat]
      /\ AccountingMatchesLeases' /\ BudgetRespected'
  BY <1>1, ExactAccountsType
     DEF ExactAccounts, Exact, AccountingMatchesLeases, BudgetRespected
<1>3. held' = held \cup {r} /\ fresh' = FALSE /\ selected' = Nobody
  BY DEF Grant, Invalidate, FreshAfterDeparture
<1>4. recency' \in Seq(Groups)
  <2>1. GroupOf[r] \in Groups /\ recency \in Seq(Groups)
    BY KeysOfRequest DEF Inv, TypeOK
  <2>2. Without(recency, GroupOf[r]) \in Seq(Groups)
    BY <2>1, WithoutType
  <2> QED
    BY <2>1, <2>2 DEF Grant
<1>5. TypeOK'
  BY <1>2, <1>3, <1>4 DEF Inv, TypeOK
<1>6. QueueIsSound' /\ SelectionIsCurrent'
  BY <1>3 DEF Inv, QueueIsSound, SelectionIsCurrent
<1> QED
  BY <1>2, <1>5, <1>6 DEF Inv

\* A step that leaves counters and leases alone keeps the accounting.
LEMMA AccountsUnchanged ==
    ASSUME AccountingMatchesLeases, BudgetRespected, UNCHANGED <<counters, held>>
    PROVE  AccountingMatchesLeases' /\ BudgetRespected'
BY DEF counters, AccountingMatchesLeases, BudgetRespected, TenantOfRequest, ResourceOfRequest

\* A request in REJECT mode looks at the selection and is granted or rejected.
LEMMA AcquireOrRejectStep ==
    ASSUME Inv, NEW r \in Requests, AcquireOrReject(r)
    PROVE  Inv'
<1> DEFINE sel == Selected(queue, fresh)
<1>1. r \notin held /\ UNCHANGED <<queue, age, closed>>
  BY DEF AcquireOrReject, Idle
<1>2. CASE Grant(r)
  <2>1. queue \in Seq(Requests) /\ Distinct(queue) /\ Waiting' = Waiting /\ r \notin Waiting
    BY <1>1 DEF Inv, TypeOK, QueueIsSound, Waiting, AcquireOrReject, Idle
  <2>2. age' \in [Requests -> 0..MaxRank] /\ closed' \in BOOLEAN
    BY <1>1 DEF Inv, TypeOK
  <2> QED
    BY <1>1, <1>2, <2>1, <2>2, GrantStep
<1>3. CASE UNCHANGED <<counters, held, recency, selection>>
  BY <1>1, <1>3, AccountsUnchanged, CanAdmitUnchanged
     DEF Inv, TypeOK, counters, selection, QueueIsSound, SelectionIsCurrent, Waiting
<1>4. CASE fresh' = TRUE /\ selected' = sel /\ UNCHANGED <<counters, held, recency>>
  <2>1. IF sel = Nobody THEN \A w \in Waiting : ~CanAdmit(w)
        ELSE sel \in Waiting /\ CanAdmit(sel)
    BY SelectedIsCurrent DEF Inv
  <2>2. SelectionIsCurrent' /\ Waiting' = Waiting
    BY <1>1, <1>4, <2>1, CanAdmitUnchanged DEF SelectionIsCurrent, Waiting
  <2>3. Waiting \subseteq Requests
    BY DEF Inv, TypeOK, Waiting, Elements
  <2>4. TypeOK'
    BY <1>1, <1>4, <2>1, <2>3 DEF Inv, TypeOK, counters
  <2> QED
    BY <1>1, <1>4, <2>2, <2>4, AccountsUnchanged DEF Inv, QueueIsSound
<1> QED
  BY <1>2, <1>3, <1>4 DEF AcquireOrReject

\* A request in WAIT mode is granted at once or joins the queue.
LEMMA AcquireOrWaitStep ==
    ASSUME Inv, NEW r \in Requests, AcquireOrWait(r)
    PROVE  Inv'
<1> DEFINE q == Append(queue, r)
           sel == Select(q)
<1>1. r \notin held /\ r \notin Waiting /\ UNCHANGED <<age, closed>>
  BY DEF AcquireOrWait, Idle
<1>2. q \in Seq(Requests) /\ Distinct(q) /\ Elements(q) = Waiting \cup {r}
  BY <1>1, AppendKeepsQueueSound DEF Inv
<1>3. CASE Grant(r) /\ UNCHANGED queue
  <2>1. queue \in Seq(Requests) /\ Distinct(queue) /\ Waiting' = Waiting
    BY <1>3 DEF Inv, TypeOK, QueueIsSound, Waiting
  <2>2. age' \in [Requests -> 0..MaxRank] /\ closed' \in BOOLEAN
    BY <1>1 DEF Inv, TypeOK
  <2> QED
    BY <1>1, <1>3, <2>1, <2>2, GrantStep
<1>4. CASE queue' = q /\ fresh' = TRUE /\ selected' = sel /\ UNCHANGED <<counters, held, recency>>
  <2>1. IF \E n \in DOMAIN q : CanAdmit(q[n])
        THEN \E n \in DOMAIN q : sel = q[n] /\ CanAdmit(q[n])
        ELSE sel = Nobody
    BY <1>2, SelectPicksAdmissible DEF Inv
  <2>2. Waiting' = Elements(q)
    BY <1>4 DEF Waiting
  <2>3. /\ \A w \in Elements(q) : w # Nobody /\ w \in Requests /\ \E n \in DOMAIN q : w = q[n]
        /\ \A n \in DOMAIN q : q[n] \in Elements(q)
    BY <1>2, AdmissionAssumption DEF Elements
  <2> HIDE DEF q, sel
  <2>4. SelectionIsCurrent'
    BY <1>4, <2>1, <2>2, <2>3, CanAdmitUnchanged DEF SelectionIsCurrent
  <2>5. TypeOK'
    BY <1>1, <1>2, <1>4, <2>1, <2>3 DEF Inv, TypeOK, counters
  <2>6. QueueIsSound'
    BY <1>1, <1>2, <1>4, <2>2 DEF Inv, QueueIsSound
  <2> QED
    BY <1>4, <2>4, <2>5, <2>6, AccountsUnchanged DEF Inv
<1> QED
  BY <1>3, <1>4 DEF AcquireOrWait

\* A waiter takes its turn, or refreshes the cache.
LEMMA PollStep ==
    ASSUME Inv, NEW r \in Requests, Poll(r)
    PROVE  Inv'
<1> DEFINE sel == Selected(queue, fresh)
<1>1. r \in Waiting /\ r \notin held /\ UNCHANGED closed
  BY DEF Poll, Inv, QueueIsSound
<1>2. CASE Grant(r) /\ queue' = Without(queue, r) /\ age' = [age EXCEPT ![r] = 0]
  <2>1. queue \in Seq(Requests) /\ Distinct(queue)
    BY DEF Inv, TypeOK, QueueIsSound
  <2>2. queue' \in Seq(Requests)
    BY <1>2, <2>1, WithoutType
  <2>3. Distinct(queue') /\ Waiting' = Waiting \ {r}
    BY <1>2, <2>1, WithoutElements DEF Waiting
  <2>4. age' \in [Requests -> 0..MaxRank] /\ closed' \in BOOLEAN
    BY <1>1, <1>2, AdmissionAssumption DEF Inv, TypeOK
  <2> QED
    BY <1>1, <1>2, <2>2, <2>3, <2>4, GrantStep
<1>3. CASE fresh' = TRUE /\ selected' = sel /\ UNCHANGED <<counters, held, recency, queue, age>>
  <2>1. IF sel = Nobody THEN \A w \in Waiting : ~CanAdmit(w)
        ELSE sel \in Waiting /\ CanAdmit(sel)
    BY SelectedIsCurrent DEF Inv
  <2>2. SelectionIsCurrent' /\ Waiting' = Waiting
    BY <1>3, <2>1, CanAdmitUnchanged DEF SelectionIsCurrent, Waiting
  <2>3. Waiting \subseteq Requests
    BY DEF Inv, TypeOK, Waiting, Elements
  <2>4. TypeOK'
    BY <1>1, <1>3, <2>1, <2>3 DEF Inv, TypeOK, counters
  <2> QED
    BY <1>3, <2>2, <2>4, AccountsUnchanged DEF Inv, QueueIsSound
<1> QED
  BY <1>2, <1>3 DEF Poll

\* A waiter leaves the queue without a permit.
LEMMA GiveUpStep ==
    ASSUME Inv, NEW r \in Requests, GiveUp(r)
    PROVE  Inv'
<1>1. queue \in Seq(Requests) /\ Distinct(queue) /\ queue' = Without(queue, r)
  BY DEF GiveUp, Inv, TypeOK, QueueIsSound
<1>2. queue' \in Seq(Requests)
  BY <1>1, WithoutType
<1>3. Distinct(queue') /\ Waiting' = Waiting \ {r}
  BY <1>1, WithoutElements DEF Waiting
<1>4. UNCHANGED <<counters, held, recency, closed>> /\ fresh' = FALSE /\ selected' = Nobody
      /\ age' = [age EXCEPT ![r] = 0]
  BY DEF GiveUp, Invalidate, FreshAfterDeparture
<1>5. TypeOK'
  <2>1. 0 \in 0..MaxRank
    BY AdmissionAssumption
  <2>2. age' \in [Requests -> 0..MaxRank]
    BY <1>4, <2>1 DEF Inv, TypeOK
  <2> QED
    BY <1>2, <1>4, <2>2 DEF Inv, TypeOK, counters
<1>6. QueueIsSound' /\ SelectionIsCurrent'
  BY <1>3, <1>4 DEF Inv, QueueIsSound, SelectionIsCurrent
<1> QED
  BY <1>4, <1>5, <1>6, AccountsUnchanged DEF Inv

\* A lease is returned.
LEMMA ReleaseStep ==
    ASSUME Inv, NEW r \in Requests, Release(r)
    PROVE  Inv'
<1>1. ExactAccounts'
  BY AccountsAreExact, ReleaseKeepsAccounts DEF Inv
<1>2. /\ inFlight' \in Nat
      /\ byGroup' \in [Groups -> Nat] /\ byTenant' \in [Tenants -> Nat]
      /\ byResource' \in [Resources -> Nat] /\ byLane' \in [Lanes -> Nat]
      /\ AccountingMatchesLeases' /\ BudgetRespected'
  BY <1>1 DEF ExactAccounts, Exact, AccountingMatchesLeases, BudgetRespected
<1>3. /\ held' = held \ {r} /\ fresh' = FALSE /\ selected' = Nobody
      /\ UNCHANGED <<queue, age, recency, closed>>
  BY DEF Release, Invalidate, FreshAfterRelease
<1>4. TypeOK'
  BY <1>2, <1>3 DEF Inv, TypeOK
<1>5. QueueIsSound' /\ SelectionIsCurrent'
  BY <1>3 DEF Inv, QueueIsSound, SelectionIsCurrent, Waiting
<1> QED
  BY <1>2, <1>4, <1>5 DEF Inv

\* Time passes, or the authority is closed.
LEMMA EnvironmentStep ==
    ASSUME Inv, TimePasses \/ Close
    PROVE  Inv'
<1>1. CASE TimePasses
  <2>1. UNCHANGED <<counters, held, queue, recency, closed>> /\ fresh' = FALSE /\ selected' = Nobody
    BY <1>1 DEF TimePasses, Invalidate
  <2>2. age' \in [Requests -> 0..MaxRank]
    <3>1. PICK old \in SUBSET Waiting :
            age' = [r \in Requests |-> IF r \in old /\ age[r] < MaxRank THEN age[r] + 1 ELSE age[r]]
      BY <1>1 DEF TimePasses
    <3>2. \A r \in Requests : age[r] \in 0..MaxRank /\ (age[r] < MaxRank => age[r] + 1 \in 0..MaxRank)
      BY AdmissionAssumption DEF Inv, TypeOK
    <3> QED
      BY <3>1, <3>2
  <2>3. TypeOK'
    BY <2>1, <2>2 DEF Inv, TypeOK, counters
  <2>4. QueueIsSound' /\ SelectionIsCurrent'
    BY <2>1 DEF Inv, QueueIsSound, SelectionIsCurrent, Waiting
  <2> QED
    BY <2>1, <2>3, <2>4, AccountsUnchanged DEF Inv
<1>2. CASE Close
  <2>1. UNCHANGED <<counters, held, queue, age, recency, selection>> /\ closed' = TRUE
    BY <1>2 DEF Close
  <2>2. TypeOK' /\ QueueIsSound'
    BY <2>1 DEF Inv, TypeOK, QueueIsSound, Waiting, counters, selection
  <2>3. SelectionIsCurrent'
    BY <2>1, CanAdmitUnchanged DEF Inv, SelectionIsCurrent, Waiting, selection
  <2> QED
    BY <2>1, <2>2, <2>3, AccountsUnchanged DEF Inv
<1> QED
  BY <1>1, <1>2

LEMMA NextInv == Inv /\ [Next]_vars => Inv'
<1> SUFFICES ASSUME Inv, [Next]_vars PROVE Inv'
  OBVIOUS
<1>1. ASSUME NEW r \in Requests, AcquireOrReject(r) PROVE Inv'
  BY <1>1, AcquireOrRejectStep
<1>2. ASSUME NEW r \in Requests, AcquireOrWait(r) PROVE Inv'
  BY <1>2, AcquireOrWaitStep
<1>3. ASSUME NEW r \in Requests, Poll(r) PROVE Inv'
  BY <1>3, PollStep
<1>4. ASSUME NEW r \in Requests, GiveUp(r) PROVE Inv'
  BY <1>4, GiveUpStep
<1>5. ASSUME NEW r \in Requests, Release(r) PROVE Inv'
  BY <1>5, ReleaseStep
<1>6. CASE TimePasses \/ Close
  BY <1>6, EnvironmentStep
<1>7. CASE UNCHANGED vars
  <2>1. UNCHANGED <<counters, held, queue, age, recency, selection, closed>>
    BY <1>7 DEF vars
  <2>2. TypeOK' /\ QueueIsSound'
    BY <2>1 DEF Inv, TypeOK, QueueIsSound, Waiting, counters, selection
  <2>3. SelectionIsCurrent'
    BY <2>1, CanAdmitUnchanged DEF Inv, SelectionIsCurrent, Waiting, selection
  <2> QED
    BY <2>1, <2>2, <2>3, AccountsUnchanged DEF Inv
<1> QED
  BY <1>1, <1>2, <1>3, <1>4, <1>5, <1>6, <1>7 DEF Next

\* The inductive invariant holds in every reachable state.
THEOREM Invariance == Spec => []Inv
BY InitInv, NextInv, PTL DEF Spec

\* Counters never go below zero: _release cannot meet an accounting underflow.
THEOREM TypeCorrect == Spec => []TypeOK
<1>1. Inv => TypeOK
  BY DEF Inv
<1> QED
  BY <1>1, Invariance, PTL

\* Every level's counter equals the number of unreleased leases under its key.
THEOREM AccountingCorrect == Spec => []AccountingMatchesLeases
<1>1. Inv => AccountingMatchesLeases
  BY DEF Inv
<1> QED
  BY <1>1, Invariance, PTL

\* No interleaving of acquires, releases and cancellations exceeds the budget.
THEOREM BudgetCorrect == Spec => []BudgetRespected
<1>1. Inv => BudgetRespected
  BY DEF Inv
<1> QED
  BY <1>1, Invariance, PTL

\* The cached selection never names a waiter that is gone or does not fit.
THEOREM SelectionCorrect == Spec => []SelectionIsCurrent
<1>1. Inv => SelectionIsCurrent
  BY DEF Inv
<1> QED
  BY <1>1, Invariance, PTL

\* A request in REJECT mode is granted only when no waiter could be.
THEOREM RejectIsFair == Spec => RejectNeverOvertakes
<1> DEFINE Fair == \A r \in Requests :
                      r \in held' \ held /\ r \notin Waiting /\ GroupOf[r] \in Rejecting =>
                          \A w \in Waiting : ~CanAdmit(w)
<1>1. Inv /\ [Next]_vars => [Fair]_vars
  <2> SUFFICES ASSUME Inv, Next,
                      NEW r \in Requests, r \in held', r \notin held, r \notin Waiting,
                      GroupOf[r] \in Rejecting
               PROVE  \A w \in Waiting : ~CanAdmit(w)
    OBVIOUS
  <2>1. ASSUME NEW s \in Requests, AcquireOrReject(s)
        PROVE  \A w \in Waiting : ~CanAdmit(w)
    BY <2>1, SelectedIsCurrent DEF Inv, AcquireOrReject
  <2>2. ASSUME NEW s \in Requests, AcquireOrWait(s)
        PROVE  FALSE
    BY <2>2 DEF AcquireOrWait, Grant
  <2>3. ASSUME NEW s \in Requests, Poll(s)
        PROVE  FALSE
    BY <2>3 DEF Poll, Grant
  <2>4. ASSUME NEW s \in Requests, GiveUp(s) \/ Release(s)
        PROVE  FALSE
    BY <2>4 DEF GiveUp, Release
  <2>5. ~TimePasses /\ ~Close
    BY DEF TimePasses, Close
  <2> QED
    BY <2>1, <2>2, <2>3, <2>4, <2>5 DEF Next
<1> QED
  BY <1>1, Invariance, PTL DEF Spec, RejectNeverOvertakes
=============================================================================
