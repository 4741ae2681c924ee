-------------------------- MODULE SerialLaneProofs --------------------------
(***************************************************************************)
(* For any lanes, workers and jobs, and however submissions, workers and   *)
(* closes interleave: a lane has one token while it is scheduled, no item  *)
(* waits without one, a closed lane is quiet, and what the lanes do is what *)
(* bounded mailboxes do.                                                   *)
(***************************************************************************)
EXTENDS SerialLane, FiniteSetTheorems, TLAPS

-----------------------------------------------------------------------------
(***************************************************************************)
(* The inductive invariant.                                                *)
(***************************************************************************)

\* Membership in a queue, at all and no more than once.
Occurs(s, x) == \E n \in DOMAIN s : s[n] = x
Once(s, x) == \A m, n \in DOMAIN s : s[m] = x /\ s[n] = x => m = n

WithItem == {"claiming", "executing", "finishing"}
Holding == WithItem \cup {"popped", "rescheduling"}

\* Where the token of a lane is.
Published(j, l) == submitter[j] = "publishing" /\ LaneOf[j] = l
Publishing(l) == \E j \in Jobs : Published(j, l)
Waiting(l) == Occurs(ready[Pin[l]], l)
Held(l) == worker[Pin[l]] \in Holding /\ onLane[Pin[l]] = l

\* Tokens go to the worker their lane is pinned to.
ReadyOK == \A w \in Workers, l \in Lanes : Occurs(ready[w], l) => Pin[l] = w

\* A worker that took an item runs its lane, and no one else does.
WorkerOK(w) ==
    /\ worker[w] \in Holding => onLane[w] \in Lanes /\ Pin[onLane[w]] = w
    /\ worker[w] \in WithItem => /\ running[onLane[w]]
                                 /\ onItem[w] \in Jobs /\ submitter[onItem[w]] # "idle"
                                 /\ LaneOf[onItem[w]] = onLane[w]

RunningOK(l) == running[l] => worker[Pin[l]] \in WithItem /\ onLane[Pin[l]] = l

\* A scheduled lane has one token, until the factory is closed, and no other lane
\* has one or any items.
TokenOK(l) ==
    /\ \A i, j \in Jobs : Published(i, l) /\ Published(j, l) => i = j
    /\ Once(ready[Pin[l]], l)
    /\ ~(Publishing(l) /\ Waiting(l)) /\ ~(Publishing(l) /\ Held(l)) /\ ~(Waiting(l) /\ Held(l))
    /\ Publishing(l) \/ Waiting(l) \/ Held(l) => scheduled[l]
    /\ scheduled[l] /\ ~factoryClosed => Publishing(l) \/ Waiting(l) \/ Held(l)
    /\ items[l] # <<>> => scheduled[l]

ItemsOK(l) ==
    /\ \A i \in Jobs : Occurs(items[l], i) => LaneOf[i] = l /\ submitter[i] # "idle"
    /\ \A k \in Keys : coalesced[l][k] # NoJob => Occurs(items[l], coalesced[l][k])

\* Futures watch items of their own lane.
WatchersOK(i) == \A j \in Jobs : j \in watchers[i] => LaneOf[j] = LaneOf[i]

\* An open future watches an item that is queued, or in the hands of a worker.
FutureOK(j) ==
    /\ future[j] = "pending" =>
          \E i \in Jobs : /\ j \in watchers[i]
                          /\ \/ Occurs(items[LaneOf[j]], i)
                             \/ \E w \in Workers : /\ worker[w] = "claiming" /\ onItem[w] = i
                                                   /\ onLane[w] = LaneOf[j]
    /\ future[j] = "running" =>
          \E w \in Workers : /\ worker[w] = "executing" /\ onLane[w] = LaneOf[j]
                             /\ j \in watchers[onItem[w]]

\* A closed lane without a token stays without one; the lanes a shutdown has behind
\* it are such lanes unless one of its waits timed out.
Quiet(l) == closed[l] /\ ~scheduled[l]

CloserOK(c) ==
    /\ closer[c] = "draining" => target[c] \in Lanes /\ closed[target[c]]
    /\ c \in LaneClosers => /\ closer[c] \notin {"visiting", "joining"}
                            /\ closer[c] # "idle" => target[c] = TargetOf[c]
                            /\ closer[c] = "converged" => Quiet(TargetOf[c])
    /\ c \in Shutdowns =>
          /\ closer[c] # "idle" /\ ~erred[c] =>
                \A l \in Lanes \ todo[c] : Quiet(l) \/ (closer[c] = "draining" /\ target[c] = l)
          /\ closer[c] \in {"joining", "converged"} => todo[c] = {}
          /\ closer[c] = "converged" => ~erred[c]

Inv ==
    /\ TypeOK /\ ReadyOK
    /\ \A w \in Workers : WorkerOK(w)
    /\ \A l \in Lanes : RunningOK(l) /\ TokenOK(l) /\ ItemsOK(l)
    /\ \A j \in Jobs : WatchersOK(j) /\ FutureOK(j)
    /\ \A c \in Closers : CloserOK(c)

-----------------------------------------------------------------------------
(***************************************************************************)
(* Queues.                                                                 *)
(***************************************************************************)

LEMMA EmptyFacts == \A x : ~Occurs(<<>>, x) /\ Once(<<>>, x)
BY DEF Occurs, Once

LEMMA AppendFacts ==
    ASSUME NEW S, NEW s \in Seq(S), NEW e \in S
    PROVE  /\ Append(s, e) \in Seq(S) /\ Append(s, e) # <<>> /\ Len(Append(s, e)) = Len(s) + 1
           /\ \A x : Occurs(Append(s, e), x) <=> Occurs(s, x) \/ x = e
           /\ \A x : Once(s, x) /\ (x = e => ~Occurs(s, x)) => Once(Append(s, e), x)
<1>1. /\ Append(s, e) \in Seq(S) /\ Append(s, e) # <<>>
      /\ Len(s) \in Nat /\ Len(Append(s, e)) = Len(s) + 1
      /\ DOMAIN s = 1..Len(s) /\ DOMAIN Append(s, e) = 1..(Len(s) + 1)
      /\ \A n \in 1..Len(s) : Append(s, e)[n] = s[n]
      /\ Append(s, e)[Len(s) + 1] = e
  OBVIOUS
<1>2. \A n \in DOMAIN Append(s, e) : n \in DOMAIN s \/ n = Len(s) + 1
  BY <1>1
<1>3. \A n \in DOMAIN s : n \in DOMAIN Append(s, e)
  BY <1>1
<1>4. ASSUME NEW x PROVE Occurs(Append(s, e), x) <=> Occurs(s, x) \/ x = e
  BY <1>1, <1>2, <1>3 DEF Occurs
<1>5. ASSUME NEW x, Once(s, x), x = e => ~Occurs(s, x) PROVE Once(Append(s, e), x)
  BY <1>1, <1>2, <1>5 DEF Occurs, Once
<1> QED
  BY <1>1, <1>4, <1>5

LEMMA TailFacts ==
    ASSUME NEW S, NEW s \in Seq(S), s # <<>>
    PROVE  /\ Head(s) \in S /\ Tail(s) \in Seq(S) /\ Len(Tail(s)) = Len(s) - 1 /\ Len(s) \in Nat
           /\ Occurs(s, Head(s))
           /\ \A x : Occurs(Tail(s), x) => Occurs(s, x)
           /\ \A x : Occurs(s, x) /\ x # Head(s) => Occurs(Tail(s), x)
           /\ \A x : Once(s, x) => Once(Tail(s), x) /\ (x = Head(s) => ~Occurs(Tail(s), x))
<1>1. /\ Head(s) \in S /\ Tail(s) \in Seq(S) /\ Len(Tail(s)) = Len(s) - 1
      /\ Len(s) \in Nat /\ 1 \in DOMAIN s /\ Head(s) = s[1]
      /\ DOMAIN s = 1..Len(s) /\ DOMAIN Tail(s) = 1..(Len(s) - 1)
      /\ \A n \in 1..(Len(s) - 1) : Tail(s)[n] = s[n + 1]
  OBVIOUS
<1>2. \A n \in DOMAIN Tail(s) : n \in Nat /\ n + 1 \in DOMAIN s /\ n + 1 # 1 /\ Tail(s)[n] = s[n + 1]
  BY <1>1
<1>3. \A n \in DOMAIN s : n = 1 \/ (n \in Int /\ n - 1 \in DOMAIN Tail(s) /\ Tail(s)[n - 1] = s[n])
  BY <1>1
<1>4. ASSUME NEW x, Occurs(Tail(s), x) PROVE Occurs(s, x)
  BY <1>2, <1>4 DEF Occurs
<1>5. ASSUME NEW x, Occurs(s, x), x # Head(s) PROVE Occurs(Tail(s), x)
  BY <1>1, <1>3, <1>5 DEF Occurs
<1>6. ASSUME NEW x, Once(s, x) PROVE Once(Tail(s), x)
  <2> SUFFICES ASSUME NEW m \in DOMAIN Tail(s), NEW n \in DOMAIN Tail(s), Tail(s)[m] = x, Tail(s)[n] = x
               PROVE  m = n
    BY DEF Once
  <2>1. m + 1 = n + 1
    BY <1>2, <1>6 DEF Once
  <2> QED
    BY <1>2, <2>1
<1>7. ASSUME NEW x, Once(s, x), x = Head(s) PROVE ~Occurs(Tail(s), x)
  BY <1>1, <1>2, <1>7 DEF Occurs, Once
<1> QED
  BY <1>1, <1>4, <1>5, <1>6, <1>7 DEF Occurs

-----------------------------------------------------------------------------
(***************************************************************************)
(* Submission.                                                             *)
(***************************************************************************)

\* A future is still watched if no more of it becomes open, and the items and the
\* workers it depends on stay.
LEMMA FutureKept ==
    ASSUME NEW j \in Jobs, FutureOK(j), \A w \in Workers : WorkerOK(w),
           future'[j] \in {"pending", "running"} => future'[j] = future[j],
           \A i \in Jobs : j \in watchers[i] => j \in watchers'[i],
           future'[j] = "pending" => \A i \in Jobs : Occurs(items[LaneOf[j]], i) => Occurs(items'[LaneOf[j]], i),
           \A w \in Workers : worker[w] \in {"claiming", "executing"} =>
               worker'[w] = worker[w] /\ onItem'[w] = onItem[w] /\ onLane'[w] = onLane[w]
    PROVE  FutureOK(j)'
<1>1. ASSUME future'[j] = "pending"
      PROVE  \E i \in Jobs : /\ j \in watchers'[i]
                             /\ \/ Occurs(items'[LaneOf[j]], i)
                                \/ \E w \in Workers : /\ worker'[w] = "claiming" /\ onItem'[w] = i
                                                      /\ onLane'[w] = LaneOf[j]
  <2>1. PICK i \in Jobs : /\ j \in watchers[i]
                          /\ \/ Occurs(items[LaneOf[j]], i)
                             \/ \E w \in Workers : /\ worker[w] = "claiming" /\ onItem[w] = i
                                                   /\ onLane[w] = LaneOf[j]
    BY <1>1 DEF FutureOK
  <2> QED
    BY <1>1, <2>1
<1>2. ASSUME future'[j] = "running"
      PROVE  \E w \in Workers : /\ worker'[w] = "executing" /\ onLane'[w] = LaneOf[j]
                                /\ j \in watchers'[onItem'[w]]
  <2>1. PICK w \in Workers : /\ worker[w] = "executing" /\ onLane[w] = LaneOf[j]
                             /\ j \in watchers[onItem[w]]
    BY <1>2 DEF FutureOK
  <2>2. onItem[w] \in Jobs
    BY <2>1 DEF WorkerOK, WithItem
  <2> QED
    BY <2>1, <2>2
<1> QED
  BY <1>1, <1>2 DEF FutureOK

LEMMA RefuseStep ==
    ASSUME Inv, NEW j \in Jobs, NEW key \in KeysOf[j], Refuse(j, key)
    PROVE  Inv'
<1> USE DEF Refuse, mailboxes, futures, threads, closing
<1>1. TypeOK'
  BY DEF Inv, TypeOK, Resolved, WorkerPcs
<1>2. ReadyOK'
  BY DEF Inv, ReadyOK
<1>3. \A v \in Workers : WorkerOK(v)'
  BY DEF Inv, TypeOK, WorkerOK, Holding, WithItem
<1>4. \A m \in Lanes : RunningOK(m)'
  BY DEF Inv, TypeOK, RunningOK, WithItem
<1>5. \A m \in Lanes : TokenOK(m)'
  BY DEF Inv, TypeOK, TokenOK, Publishing, Published, Waiting, Held, Holding, WithItem
<1>6. \A m \in Lanes : ItemsOK(m)'
  BY DEF Inv, TypeOK, ItemsOK
<1>7. \A k \in Jobs : FutureOK(k)'
  BY FutureKept DEF Inv, TypeOK
<1>8. \A k \in Jobs : WatchersOK(k)'
  BY DEF Inv, TypeOK, WatchersOK
<1>9. \A d \in Closers : CloserOK(d)'
  BY DEF Inv, TypeOK, CloserOK, Quiet
<1> QED
  BY <1>1, <1>2, <1>3, <1>4, <1>5, <1>6, <1>7, <1>8, <1>9 DEF Inv

LEMMA CancelJobStep ==
    ASSUME Inv, NEW j \in Jobs, CancelJob(j)
    PROVE  Inv'
<1> USE DEF CancelJob, mailboxes, threads, closing
<1>1. TypeOK'
  BY DEF Inv, TypeOK, Resolved, WorkerPcs
<1>2. ReadyOK'
  BY DEF Inv, ReadyOK
<1>3. \A v \in Workers : WorkerOK(v)'
  BY DEF Inv, TypeOK, WorkerOK, Holding, WithItem
<1>4. \A m \in Lanes : RunningOK(m)'
  BY DEF Inv, TypeOK, RunningOK, WithItem
<1>5. \A m \in Lanes : TokenOK(m)'
  BY DEF Inv, TypeOK, TokenOK, Publishing, Published, Waiting, Held, Holding, WithItem
<1>6. \A m \in Lanes : ItemsOK(m)'
  BY DEF Inv, TypeOK, ItemsOK
<1>7. \A k \in Jobs : FutureOK(k)'
  BY FutureKept DEF Inv, TypeOK
<1>8. \A k \in Jobs : WatchersOK(k)'
  BY DEF Inv, TypeOK, WatchersOK
<1>9. \A d \in Closers : CloserOK(d)'
  BY DEF Inv, TypeOK, CloserOK, Quiet
<1> QED
  BY <1>1, <1>2, <1>3, <1>4, <1>5, <1>6, <1>7, <1>8, <1>9 DEF Inv

LEMMA CoalesceStep ==
    ASSUME Inv, NEW j \in Jobs, NEW key \in KeysOf[j], Coalesce(j, key)
    PROVE  Inv'
<1> USE DEF Coalesce, mailboxes, threads, closing
<1>a. OpenItem(j, key) \in Jobs /\ Occurs(items[LaneOf[j]], OpenItem(j, key))
  <2>1. OpenItem(j, key) # NoJob
    OBVIOUS
  <2>2. key \in Keys /\ OpenItem(j, key) = coalesced[LaneOf[j]][key] /\ LaneOf[j] \in Lanes
    BY <2>1, SerialLaneAssumption DEF OpenItem
  <2> QED
    BY <2>1, <2>2 DEF Inv, TypeOK, ItemsOK
<1>b. LaneOf[OpenItem(j, key)] = LaneOf[j]
  BY <1>a, SerialLaneAssumption DEF Inv, ItemsOK
<1>1. TypeOK'
  BY DEF Inv, TypeOK, Resolved, WorkerPcs
<1>2. ReadyOK'
  BY DEF Inv, ReadyOK
<1>3. \A v \in Workers : WorkerOK(v)'
  BY DEF Inv, TypeOK, WorkerOK, Holding, WithItem
<1>4. \A m \in Lanes : RunningOK(m)'
  BY DEF Inv, TypeOK, RunningOK, WithItem
<1>5. \A m \in Lanes : TokenOK(m)'
  BY DEF Inv, TypeOK, TokenOK, Publishing, Published, Waiting, Held, Holding, WithItem
<1>6. \A m \in Lanes : ItemsOK(m)'
  BY DEF Inv, TypeOK, ItemsOK
<1>7. \A k \in Jobs : FutureOK(k)'
  <2>1. ASSUME NEW k \in Jobs \ {j} PROVE FutureOK(k)'
    BY FutureKept DEF Inv, TypeOK
  <2>2. FutureOK(j)'
    <3>1. future'[j] = "pending" /\ j \in watchers'[OpenItem(j, key)] /\ items' = items
      BY <1>a DEF Inv, TypeOK
    <3> QED
      BY <1>a, <3>1 DEF FutureOK
  <2> QED
    BY <2>1, <2>2
<1>8. \A k \in Jobs : WatchersOK(k)'
  BY <1>a, <1>b DEF Inv, TypeOK, WatchersOK
<1>9. \A d \in Closers : CloserOK(d)'
  BY DEF Inv, TypeOK, CloserOK, Quiet
<1> QED
  BY <1>1, <1>2, <1>3, <1>4, <1>5, <1>6, <1>7, <1>8, <1>9 DEF Inv

LEMMA EnqueueStep ==
    ASSUME Inv, NEW j \in Jobs, NEW key \in KeysOf[j], Enqueue(j, key)
    PROVE  Inv'
<1> USE DEF Enqueue, Enqueued, threads, closing
<1>a. /\ LaneOf[j] \in Lanes /\ key \in Keys \cup {NoKey} /\ submitter[j] = "idle"
      /\ ~closed[LaneOf[j]] /\ Len(items[LaneOf[j]]) < Capacity
  <2>1. LaneOf[j] \in Lanes /\ key \in Keys \cup {NoKey} /\ submitter[j] = "idle" /\ ~closed[LaneOf[j]]
    BY SerialLaneAssumption DEF Sealed
  <2>2. Len(items[LaneOf[j]]) \in Nat /\ Capacity \in Nat
    BY <2>1, SerialLaneAssumption DEF Inv, TypeOK
  <2>3. ~(Len(items[LaneOf[j]]) >= Capacity)
    BY DEF MailboxFull
  <2> QED
    BY <2>1, <2>2, <2>3
<1>b. /\ Append(items[LaneOf[j]], j) \in Seq(Jobs) /\ Append(items[LaneOf[j]], j) # <<>>
      /\ Len(Append(items[LaneOf[j]], j)) = Len(items[LaneOf[j]]) + 1
      /\ \A x : Occurs(Append(items[LaneOf[j]], j), x) <=> Occurs(items[LaneOf[j]], x) \/ x = j
  BY <1>a, AppendFacts DEF Inv, TypeOK
<1>c. /\ items'[LaneOf[j]] = Append(items[LaneOf[j]], j)
      /\ \A m \in Lanes \ {LaneOf[j]} : items'[m] = items[m]
      /\ \A m \in Lanes : scheduled'[m] <=> scheduled[m] \/ m = LaneOf[j]
      /\ submitter'[j] = IF scheduled[LaneOf[j]] THEN "accepted" ELSE "publishing"
      /\ \A k \in Jobs \ {j} : submitter'[k] = submitter[k]
  BY <1>a DEF Inv, TypeOK, MustPublish
<1>1. TypeOK'
  <2>1. items' \in [Lanes -> Seq(Jobs)]
    BY <1>a, <1>b DEF Inv, TypeOK
  <2>2. \A m \in Lanes : Len(items'[m]) <= Capacity
    BY <1>a, <1>b, <1>c, SerialLaneAssumption DEF Inv, TypeOK
  <2>3. coalesced' \in [Lanes -> [Keys -> Jobs \cup {NoJob}]]
    BY <1>a DEF Inv, TypeOK
  <2> QED
    BY <2>1, <2>2, <2>3, <1>a DEF Inv, TypeOK, Resolved, WorkerPcs, MustPublish
<1>2. ReadyOK'
  BY DEF Inv, ReadyOK
<1>3. \A v \in Workers : WorkerOK(v)'
  BY <1>a, <1>c DEF Inv, TypeOK, WorkerOK, Holding, WithItem
<1>4. \A m \in Lanes : RunningOK(m)'
  BY DEF Inv, TypeOK, RunningOK, WithItem
<1>5. \A m \in Lanes : TokenOK(m)'
  <2> SUFFICES ASSUME NEW m \in Lanes PROVE TokenOK(m)'
    OBVIOUS
  <2>1. (Waiting(m)' <=> Waiting(m)) /\ (Held(m)' <=> Held(m)) /\ ready' = ready
    BY DEF Waiting, Held
  <2>2. \A k \in Jobs : Published(k, m)' <=> Published(k, m) \/ (k = j /\ m = LaneOf[j] /\ ~scheduled[m])
    BY <1>a, <1>c DEF Published
  <2>3. Publishing(m)' <=> Publishing(m) \/ (m = LaneOf[j] /\ ~scheduled[m])
    BY <2>2 DEF Publishing
  <2>4. TokenOK(m)
    BY DEF Inv
  <2>5. ~scheduled[m] => \A k \in Jobs : ~Published(k, m)
    BY <2>4 DEF TokenOK, Publishing
  <2> QED
    BY <1>c, <2>1, <2>2, <2>3, <2>4, <2>5 DEF TokenOK
<1>6. \A m \in Lanes : ItemsOK(m)'
  <2> SUFFICES ASSUME NEW m \in Lanes PROVE ItemsOK(m)'
    OBVIOUS
  <2>1. \A i \in Jobs : Occurs(items'[m], i) => LaneOf[i] = m /\ submitter'[i] # "idle"
    BY <1>a, <1>b, <1>c DEF Inv, ItemsOK
  <2>2. ASSUME NEW k \in Keys, coalesced'[m][k] # NoJob PROVE Occurs(items'[m], coalesced'[m][k])
    <3>1. coalesced'[m][k] = coalesced[m][k] \/ (m = LaneOf[j] /\ coalesced'[m][k] = j)
      BY <1>a DEF Inv, TypeOK
    <3>2. coalesced[m][k] # NoJob => Occurs(items[m], coalesced[m][k])
      BY DEF Inv, ItemsOK
    <3> QED
      BY <1>b, <1>c, <2>2, <3>1, <3>2
  <2> QED
    BY <2>1, <2>2 DEF ItemsOK
<1>7. \A k \in Jobs : FutureOK(k)'
  <2>1. ASSUME NEW k \in Jobs \ {j} PROVE FutureOK(k)'
    <3>1. \A i \in Jobs : Occurs(items[LaneOf[k]], i) => Occurs(items'[LaneOf[k]], i)
      BY <1>b, <1>c, SerialLaneAssumption
    <3>2. ASSUME NEW i \in Jobs, i # j PROVE watchers'[i] = watchers[i]
      BY <3>2 DEF Inv, TypeOK
    <3>3. ~Occurs(items[LaneOf[k]], j) /\ \A v \in Workers : worker[v] \in WithItem => onItem[v] # j
      BY <1>a, SerialLaneAssumption DEF Inv, ItemsOK, WorkerOK
    <3>4. future'[k] = "pending" => 
             \E i \in Jobs : /\ k \in watchers'[i]
                             /\ \/ Occurs(items'[LaneOf[k]], i)
                                \/ \E v \in Workers : worker[v] = "claiming" /\ onItem[v] = i /\ onLane[v] = LaneOf[k]
      <4> SUFFICES ASSUME future'[k] = "pending"
                   PROVE  \E i \in Jobs : /\ k \in watchers'[i]
                             /\ \/ Occurs(items'[LaneOf[k]], i)
                                \/ \E v \in Workers : worker[v] = "claiming" /\ onItem[v] = i /\ onLane[v] = LaneOf[k]
        OBVIOUS
      <4>1. FutureOK(k) /\ future[k] = "pending"
        BY DEF Inv, TypeOK
      <4>2. PICK i \in Jobs : /\ k \in watchers[i]
                              /\ \/ Occurs(items[LaneOf[k]], i)
                                 \/ \E v \in Workers : worker[v] = "claiming" /\ onItem[v] = i /\ onLane[v] = LaneOf[k]
        BY <4>1 DEF FutureOK
      <4>3. i # j
        BY <3>3, <4>2 DEF WithItem
      <4> QED
        BY <3>1, <3>2, <4>2, <4>3
    <3>5. future'[k] = "running" =>
             \E v \in Workers : worker[v] = "executing" /\ onLane[v] = LaneOf[k] /\ k \in watchers'[onItem[v]]
      <4>1. future'[k] = future[k] /\ FutureOK(k)
        BY DEF Inv, TypeOK
      <4>2. \A v \in Workers : worker[v] = "executing" => watchers'[onItem[v]] = watchers[onItem[v]]
        BY <3>2, <3>3 DEF Inv, WorkerOK, WithItem
      <4> QED
        BY <4>1, <4>2 DEF FutureOK
    <3> QED
      BY <3>4, <3>5 DEF FutureOK
  <2>2. FutureOK(j)'
    <3>1. future'[j] = "pending" /\ j \in watchers'[j] /\ Occurs(items'[LaneOf[j]], j)
      BY <1>b, <1>c DEF Inv, TypeOK
    <3> QED
      BY <3>1 DEF FutureOK
  <2> QED
    BY <2>1, <2>2
<1>8. \A k \in Jobs : WatchersOK(k)'
  BY DEF Inv, TypeOK, WatchersOK
<1>9. \A d \in Closers : CloserOK(d)'
  <2>1. \A m \in Lanes : Quiet(m) => Quiet(m)'
    BY <1>a, <1>c DEF Quiet
  <2> QED
    BY <2>1, SerialLaneAssumption DEF Inv, TypeOK, CloserOK
<1> QED
  BY <1>1, <1>2, <1>3, <1>4, <1>5, <1>6, <1>7, <1>8, <1>9 DEF Inv

LEMMA PublishStep ==
    ASSUME Inv, NEW j \in Jobs, Publish(j)
    PROVE  Inv'
<1> USE DEF Publish, mailboxes, futures, closing
<1>a. /\ LaneOf[j] \in Lanes /\ Pin[LaneOf[j]] \in Workers /\ Published(j, LaneOf[j])
      /\ submitter'[j] \in {"refused", "accepted"} /\ \A k \in Jobs \ {j} : submitter'[k] = submitter[k]
      /\ TokenOK(LaneOf[j])
  BY SerialLaneAssumption DEF Inv, TypeOK, Published
<1>b. /\ Append(ready[Pin[LaneOf[j]]], LaneOf[j]) \in Seq(Lanes)
      /\ \A x : Occurs(Append(ready[Pin[LaneOf[j]]], LaneOf[j]), x) <=>
                   Occurs(ready[Pin[LaneOf[j]]], x) \/ x = LaneOf[j]
      /\ \A x : Once(ready[Pin[LaneOf[j]]], x) /\ (x = LaneOf[j] => ~Occurs(ready[Pin[LaneOf[j]]], x)) =>
                   Once(Append(ready[Pin[LaneOf[j]]], LaneOf[j]), x)
  BY <1>a, AppendFacts DEF Inv, TypeOK
<1>c. /\ ~factoryClosed => /\ ready'[Pin[LaneOf[j]]] = Append(ready[Pin[LaneOf[j]]], LaneOf[j])
                           /\ \A v \in Workers \ {Pin[LaneOf[j]]} : ready'[v] = ready[v]
      /\ factoryClosed => ready' = ready
  BY <1>a DEF Inv, TypeOK
<1>1. TypeOK'
  <2>1. CASE factoryClosed
    <3>1. ready' = ready /\ submitter' = [submitter EXCEPT ![j] = "refused"]
      BY <2>1
    <3> QED
      BY <3>1 DEF Inv, TypeOK
  <2>2. CASE ~factoryClosed
    <3>1. /\ ready' = [ready EXCEPT ![Pin[LaneOf[j]]] = Append(ready[Pin[LaneOf[j]]], LaneOf[j])]
          /\ submitter' = [submitter EXCEPT ![j] = "accepted"]
      BY <2>2
    <3> QED
      BY <1>a, <1>b, <3>1 DEF Inv, TypeOK
  <2> QED
    BY <2>1, <2>2
<1>2. ReadyOK'
  <2> SUFFICES ASSUME NEW v \in Workers, NEW m \in Lanes, Occurs(ready'[v], m) PROVE Pin[m] = v
    BY DEF ReadyOK
  <2>1. Occurs(ready[v], m) \/ (v = Pin[LaneOf[j]] /\ m = LaneOf[j])
    BY <1>a, <1>b, <1>c
  <2> QED
    BY <2>1 DEF Inv, ReadyOK
<1>3. \A v \in Workers : WorkerOK(v)'
  BY <1>a DEF Inv, TypeOK, WorkerOK, Holding, WithItem
<1>4. \A m \in Lanes : RunningOK(m)'
  BY DEF Inv, TypeOK, RunningOK, WithItem
<1>5. \A m \in Lanes : TokenOK(m)'
  <2> SUFFICES ASSUME NEW m \in Lanes PROVE TokenOK(m)'
    OBVIOUS
  <2>1. TokenOK(m) /\ ~Waiting(LaneOf[j]) /\ (Held(m)' <=> Held(m)) /\ Pin[m] \in Workers
    BY <1>a, SerialLaneAssumption DEF Inv, TokenOK, Publishing, Held
  <2>2. \A k \in Jobs : Published(k, m)' <=> Published(k, m) /\ k # j
    BY <1>a DEF Published
  <2>3. Publishing(m)' <=> Publishing(m) /\ m # LaneOf[j]
    BY <1>a, <2>2 DEF Publishing, Published, TokenOK
  <2>4. Waiting(m)' <=> Waiting(m) \/ (m = LaneOf[j] /\ ~factoryClosed)
    BY <1>a, <1>b, <1>c, <2>1 DEF Waiting
  <2>5. Once(ready'[Pin[m]], m)
    BY <1>a, <1>b, <1>c, <2>1 DEF Waiting, TokenOK
  <2>6. Publishing(LaneOf[j]) /\ ~Held(LaneOf[j])
    BY <1>a DEF Publishing, TokenOK
  <2> QED
    BY <2>1, <2>2, <2>3, <2>4, <2>5, <2>6 DEF TokenOK
<1>6. \A m \in Lanes : ItemsOK(m)'
  BY <1>a DEF Inv, TypeOK, ItemsOK
<1>7. \A k \in Jobs : FutureOK(k)'
  BY FutureKept DEF Inv, TypeOK
<1>8. \A k \in Jobs : WatchersOK(k)'
  BY DEF Inv, TypeOK, WatchersOK
<1>9. \A d \in Closers : CloserOK(d)'
  BY DEF Inv, TypeOK, CloserOK, Quiet
<1> QED
  BY <1>1, <1>2, <1>3, <1>4, <1>5, <1>6, <1>7, <1>8, <1>9 DEF Inv

-----------------------------------------------------------------------------
(***************************************************************************)
(* The workers.                                                            *)
(***************************************************************************)

LEMMA PopTokenStep ==
    ASSUME Inv, NEW w \in Workers, PopToken(w)
    PROVE  Inv'
<1> USE DEF PopToken, WorkerGoes, mailboxes, futures, closing
<1>a. /\ Head(ready[w]) \in Lanes /\ Tail(ready[w]) \in Seq(Lanes)
      /\ Occurs(ready[w], Head(ready[w]))
      /\ \A x : Occurs(Tail(ready[w]), x) => Occurs(ready[w], x)
      /\ \A x : Occurs(ready[w], x) /\ x # Head(ready[w]) => Occurs(Tail(ready[w]), x)
      /\ \A x : Once(ready[w], x) => Once(Tail(ready[w]), x)
                                     /\ (x = Head(ready[w]) => ~Occurs(Tail(ready[w]), x))
  <2>1. ready[w] \in Seq(Lanes) /\ ready[w] # <<>>
    BY DEF Inv, TypeOK
  <2> QED
    BY <2>1, TailFacts
<1>b. Pin[Head(ready[w])] = w
  BY <1>a DEF Inv, ReadyOK
<1>c. /\ worker[w] = "waiting" /\ worker'[w] = "popped" /\ onLane'[w] = Head(ready[w]) /\ ready'[w] = Tail(ready[w])
      /\ \A v \in Workers \ {w} : worker'[v] = worker[v] /\ onLane'[v] = onLane[v] /\ ready'[v] = ready[v]
  BY DEF Inv, TypeOK
<1>1. TypeOK'
  BY <1>a DEF Inv, TypeOK, WorkerPcs
<1>2. ReadyOK'
  BY <1>a, <1>c DEF Inv, ReadyOK
<1>3. \A v \in Workers : WorkerOK(v)'
  BY <1>a, <1>b, <1>c DEF Inv, WorkerOK, Holding, WithItem
<1>4. \A m \in Lanes : RunningOK(m)'
  BY <1>c, SerialLaneAssumption DEF Inv, RunningOK, WithItem
<1>5. \A m \in Lanes : TokenOK(m)'
  <2> SUFFICES ASSUME NEW m \in Lanes PROVE TokenOK(m)'
    OBVIOUS
  <2>1. TokenOK(m) /\ Pin[m] \in Workers
    BY SerialLaneAssumption DEF Inv
  <2>2. (Publishing(m)' <=> Publishing(m)) /\ \A k \in Jobs : Published(k, m)' <=> Published(k, m)
    BY DEF Publishing, Published
  <2>3. CASE Pin[m] = w
    <3>1. ~Held(m) /\ (Held(m)' <=> m = Head(ready[w]))
      BY <1>c, <2>3 DEF Held, Holding, WithItem
    <3>2. /\ Waiting(m)' <=> Waiting(m) /\ m # Head(ready[w])
          /\ Once(ready'[Pin[m]], m)
          /\ m = Head(ready[w]) => Waiting(m)
      BY <1>a, <1>c, <2>1, <2>3 DEF Waiting, TokenOK
    <3> QED
      BY <2>1, <2>2, <3>1, <3>2 DEF TokenOK
  <2>4. CASE Pin[m] # w
    <3>1. (Held(m)' <=> Held(m)) /\ (Waiting(m)' <=> Waiting(m)) /\ ready'[Pin[m]] = ready[Pin[m]]
      BY <1>c, <2>1, <2>4 DEF Held, Waiting
    <3> QED
      BY <2>1, <2>2, <3>1 DEF TokenOK
  <2> QED
    BY <2>3, <2>4
<1>6. \A m \in Lanes : ItemsOK(m)'
  BY DEF Inv, TypeOK, ItemsOK
<1>7. \A k \in Jobs : FutureOK(k)'
  BY <1>c, FutureKept DEF Inv
<1>8. \A k \in Jobs : WatchersOK(k)'
  BY DEF Inv, TypeOK, WatchersOK
<1>9. \A d \in Closers : CloserOK(d)'
  BY DEF Inv, TypeOK, CloserOK, Quiet
<1> QED
  BY <1>1, <1>2, <1>3, <1>4, <1>5, <1>6, <1>7, <1>8, <1>9 DEF Inv

LEMMA ExitStep ==
    ASSUME Inv, NEW w \in Workers, Exit(w)
    PROVE  Inv'
<1> USE DEF Exit, WorkerGoes, mailboxes, futures, closing
<1>c. /\ worker[w] = "waiting" /\ worker'[w] = "exited"
      /\ \A v \in Workers \ {w} : worker'[v] = worker[v]
  BY DEF Inv, TypeOK
<1>1. TypeOK'
  BY DEF Inv, TypeOK, Resolved, WorkerPcs
<1>2. ReadyOK'
  BY DEF Inv, ReadyOK
<1>3. \A v \in Workers : WorkerOK(v)'
  BY <1>c DEF Inv, WorkerOK, Holding, WithItem
<1>4. \A m \in Lanes : RunningOK(m)'
  BY <1>c, SerialLaneAssumption DEF Inv, RunningOK, WithItem
<1>5. \A m \in Lanes : TokenOK(m)'
  <2> SUFFICES ASSUME NEW m \in Lanes PROVE TokenOK(m)'
    OBVIOUS
  <2>1. Held(m)' <=> Held(m)
    BY <1>c, SerialLaneAssumption DEF Held, Holding, WithItem
  <2>2. (Publishing(m)' <=> Publishing(m)) /\ (Waiting(m)' <=> Waiting(m))
    BY DEF Publishing, Published, Waiting
  <2> QED
    BY <2>1, <2>2 DEF Inv, TokenOK, Published
<1>6. \A m \in Lanes : ItemsOK(m)'
  BY DEF Inv, TypeOK, ItemsOK
<1>7. \A k \in Jobs : FutureOK(k)'
  BY <1>c, FutureKept DEF Inv
<1>8. \A k \in Jobs : WatchersOK(k)'
  BY DEF Inv, TypeOK, WatchersOK
<1>9. \A d \in Closers : CloserOK(d)'
  BY DEF Inv, TypeOK, CloserOK, Quiet
<1> QED
  BY <1>1, <1>2, <1>3, <1>4, <1>5, <1>6, <1>7, <1>8, <1>9 DEF Inv

LEMMA TakeNothingStep ==
    ASSUME Inv, NEW w \in Workers, TakeNothing(w)
    PROVE  Inv'
<1> USE DEF TakeNothing, WorkerGoes, futures, closing
<1>a. worker[w] = "popped" /\ onLane[w] \in Lanes /\ Pin[onLane[w]] = w /\ Held(onLane[w]) /\ TokenOK(onLane[w])
  BY DEF Inv, WorkerOK, Held, Holding
<1>b. scheduled[onLane[w]] /\ items[onLane[w]] = <<>>
  BY <1>a DEF TokenOK
<1>c. /\ worker'[w] = "waiting" /\ \A v \in Workers \ {w} : worker'[v] = worker[v]
      /\ ~scheduled'[onLane[w]] /\ \A m \in Lanes \ {onLane[w]} : scheduled'[m] = scheduled[m]
  BY <1>a, <1>b DEF Inv, TypeOK
<1>1. TypeOK'
  BY DEF Inv, TypeOK, Resolved, WorkerPcs
<1>2. ReadyOK'
  BY DEF Inv, ReadyOK
<1>3. \A v \in Workers : WorkerOK(v)'
  BY <1>c DEF Inv, WorkerOK, Holding, WithItem
<1>4. \A m \in Lanes : RunningOK(m)'
  BY <1>a, <1>c, SerialLaneAssumption DEF Inv, RunningOK, WithItem
<1>5. \A m \in Lanes : TokenOK(m)'
  <2> SUFFICES ASSUME NEW m \in Lanes PROVE TokenOK(m)'
    OBVIOUS
  <2>1. TokenOK(m) /\ Pin[m] \in Workers
    BY SerialLaneAssumption DEF Inv
  <2>2. (Publishing(m)' <=> Publishing(m)) /\ (Waiting(m)' <=> Waiting(m))
    BY DEF Publishing, Published, Waiting
  <2>3. Held(m)' <=> Held(m) /\ m # onLane[w]
    BY <1>a, <1>c, <2>1 DEF Held, Holding, WithItem
  <2>4. \A k \in Jobs : Published(k, m)' <=> Published(k, m)
    BY DEF Published
  <2> QED
    BY <1>a, <1>b, <1>c, <2>1, <2>2, <2>3, <2>4 DEF TokenOK
<1>6. \A m \in Lanes : ItemsOK(m)'
  BY DEF Inv, TypeOK, ItemsOK
<1>7. \A k \in Jobs : FutureOK(k)'
  BY <1>a, <1>c, FutureKept DEF Inv
<1>8. \A k \in Jobs : WatchersOK(k)'
  BY DEF Inv, TypeOK, WatchersOK
<1>9. \A d \in Closers : CloserOK(d)'
  <2>1. \A m \in Lanes : Quiet(m) => Quiet(m)'
    BY <1>c DEF Quiet
  <2> QED
    BY <2>1, SerialLaneAssumption DEF Inv, TypeOK, CloserOK
<1> QED
  BY <1>1, <1>2, <1>3, <1>4, <1>5, <1>6, <1>7, <1>8, <1>9 DEF Inv

LEMMA TakeItemStep ==
    ASSUME Inv, NEW w \in Workers, TakeItem(w)
    PROVE  Inv'
<1> USE DEF TakeItem, WorkerGoes, futures, closing
<1> DEFINE l == onLane[w]
           i == Head(items[onLane[w]])
<1>a. /\ worker[w] = "popped" /\ l \in Lanes /\ Pin[l] = w /\ Held(l) /\ TokenOK(l)
      /\ items[l] \in Seq(Jobs) /\ items[l] # <<>>
  BY DEF Inv, TypeOK, WorkerOK, Held, Holding
<1>b. /\ i \in Jobs /\ Tail(items[l]) \in Seq(Jobs) /\ Occurs(items[l], i)
      /\ Len(Tail(items[l])) = Len(items[l]) - 1 /\ Len(items[l]) \in Nat
      /\ \A x : Occurs(Tail(items[l]), x) => Occurs(items[l], x)
      /\ \A x : Occurs(items[l], x) /\ x # i => Occurs(Tail(items[l]), x)
  BY <1>a, TailFacts
<1>c. /\ worker'[w] = "claiming" /\ onItem'[w] = i
      /\ \A v \in Workers \ {w} : worker'[v] = worker[v] /\ onItem'[v] = onItem[v]
      /\ items'[l] = Tail(items[l]) /\ \A m \in Lanes \ {l} : items'[m] = items[m] /\ running'[m] = running[m]
      /\ running'[l]
      /\ \A k \in Keys : coalesced'[l][k] = IF coalesced[l][k] = i THEN NoJob ELSE coalesced[l][k]
      /\ \A m \in Lanes \ {l} : coalesced'[m] = coalesced[m]
  BY <1>a DEF Inv, TypeOK, OpenItemsOnTake
<1>1. TypeOK'
  <2>1. items' \in [Lanes -> Seq(Jobs)] /\ onItem' \in [Workers -> Jobs \cup {NoJob}]
    BY <1>a, <1>b DEF Inv, TypeOK
  <2>2. \A m \in Lanes : Len(items'[m]) <= Capacity
    BY <1>a, <1>b, <1>c, SerialLaneAssumption DEF Inv, TypeOK
  <2>3. OpenItemsOnTake(l, i) \in [Keys -> Jobs \cup {NoJob}]
    BY <1>a DEF OpenItemsOnTake, Inv, TypeOK
  <2>4. coalesced' \in [Lanes -> [Keys -> Jobs \cup {NoJob}]]
    BY <1>a, <2>3 DEF Inv, TypeOK
  <2> QED
    BY <2>1, <2>2, <2>4 DEF Inv, TypeOK, WorkerPcs
<1>2. ReadyOK'
  BY DEF Inv, ReadyOK
<1>3. \A v \in Workers : WorkerOK(v)'
  <2>1. submitter[i] # "idle" /\ LaneOf[i] = l
    BY <1>a, <1>b DEF Inv, ItemsOK
  <2> QED
    BY <1>a, <1>b, <1>c, <2>1 DEF Inv, WorkerOK, Holding, WithItem
<1>4. \A m \in Lanes : RunningOK(m)'
  BY <1>a, <1>c, SerialLaneAssumption DEF Inv, RunningOK, WithItem
<1>5. \A m \in Lanes : TokenOK(m)'
  <2> SUFFICES ASSUME NEW m \in Lanes PROVE TokenOK(m)'
    OBVIOUS
  <2>1. TokenOK(m) /\ Pin[m] \in Workers
    BY SerialLaneAssumption DEF Inv
  <2>2. (Publishing(m)' <=> Publishing(m)) /\ (Waiting(m)' <=> Waiting(m)) /\ \A k \in Jobs : Published(k, m)' <=> Published(k, m)
    BY DEF Publishing, Published, Waiting
  <2>3. Held(m)' <=> Held(m)
    BY <1>a, <1>c, <2>1 DEF Held, Holding, WithItem
  <2>4. items'[m] # <<>> => items[m] # <<>>
    BY <1>a, <1>c
  <2> QED
    BY <2>1, <2>2, <2>3, <2>4 DEF TokenOK
<1>6. \A m \in Lanes : ItemsOK(m)'
  <2> SUFFICES ASSUME NEW m \in Lanes PROVE ItemsOK(m)'
    OBVIOUS
  <2>1. \A h \in Jobs : Occurs(items'[m], h) => LaneOf[h] = m /\ submitter[h] # "idle"
    BY <1>b, <1>c DEF Inv, ItemsOK
  <2>2. ASSUME NEW k \in Keys, coalesced'[m][k] # NoJob PROVE Occurs(items'[m], coalesced'[m][k])
    BY <1>b, <1>c, <2>2 DEF Inv, ItemsOK
  <2> QED
    BY <2>1, <2>2 DEF ItemsOK
<1>7. \A k \in Jobs : FutureOK(k)'
  <2> SUFFICES ASSUME NEW k \in Jobs PROVE FutureOK(k)'
    OBVIOUS
  <2>0. FutureOK(k) /\ LaneOf[k] \in Lanes
    BY SerialLaneAssumption DEF Inv
  <2>1. ASSUME future[k] = "pending"
        PROVE  \E h \in Jobs : /\ k \in watchers[h]
                               /\ \/ Occurs(items'[LaneOf[k]], h)
                                  \/ \E v \in Workers : worker'[v] = "claiming" /\ onItem'[v] = h /\ onLane[v] = LaneOf[k]
    <3>1. PICK h \in Jobs : /\ k \in watchers[h]
                            /\ \/ Occurs(items[LaneOf[k]], h)
                               \/ \E v \in Workers : worker[v] = "claiming" /\ onItem[v] = h /\ onLane[v] = LaneOf[k]
      BY <2>0, <2>1 DEF FutureOK
    <3>2. CASE LaneOf[k] = l /\ h = i
      BY <1>c, <3>1, <3>2
    <3>3. CASE Occurs(items[LaneOf[k]], h) /\ ~(LaneOf[k] = l /\ h = i)
      <4>1. Occurs(items'[LaneOf[k]], h)
        BY <1>b, <1>c, <2>0, <3>3
      <4> QED
        BY <3>1, <4>1
    <3>4. CASE \E v \in Workers : worker[v] = "claiming" /\ onItem[v] = h /\ onLane[v] = LaneOf[k]
      BY <1>a, <1>c, <3>1, <3>4
    <3> QED
      BY <3>1, <3>2, <3>3, <3>4
  <2>2. ASSUME future[k] = "running"
        PROVE  \E v \in Workers : worker'[v] = "executing" /\ onLane[v] = LaneOf[k] /\ k \in watchers[onItem'[v]]
    BY <1>a, <1>c, <2>0, <2>2 DEF FutureOK
  <2> QED
    BY <2>1, <2>2 DEF FutureOK
<1>8. \A k \in Jobs : WatchersOK(k)'
  BY DEF Inv, TypeOK, WatchersOK
<1>9. \A d \in Closers : CloserOK(d)'
  BY DEF Inv, TypeOK, CloserOK, Quiet
<1> QED
  BY <1>1, <1>2, <1>3, <1>4, <1>5, <1>6, <1>7, <1>8, <1>9 DEF Inv

LEMMA ClaimStep ==
    ASSUME Inv, NEW w \in Workers, Claim(w)
    PROVE  Inv'
<1> USE DEF Claim, WorkerGoes, mailboxes, closing
<1>a. worker[w] = "claiming" /\ onItem[w] \in Jobs /\ onLane[w] \in Lanes
  BY DEF Inv, WorkerOK, Holding, WithItem
<1>d. LaneOf[onItem[w]] = onLane[w]
  BY <1>a DEF Inv, WorkerOK, WithItem
<1>b. \A k \in Jobs : future'[k] = IF k \in watchers[onItem[w]] /\ future[k] = "pending" THEN "running" ELSE future[k]
  BY <1>a DEF Inv, TypeOK
<1>c. /\ worker[w] \in WithItem /\ worker'[w] \in {"finishing", "executing"}
      /\ \A v \in Workers \ {w} : worker'[v] = worker[v]
      /\ (\E k \in watchers[onItem[w]] : future[k] = "pending") => worker'[w] = "executing"
  BY <1>a DEF Inv, TypeOK, WithItem
<1>1. TypeOK'
  <2>1. worker' \in [Workers -> WorkerPcs]
    BY DEF Inv, TypeOK, WorkerPcs
  <2>2. future' \in [Jobs -> Resolved \cup {"none", "pending", "running"}]
    BY DEF Inv, TypeOK
  <2> QED
    BY <2>1, <2>2 DEF Inv, TypeOK
<1>2. ReadyOK'
  BY DEF Inv, ReadyOK
<1>3. \A v \in Workers : WorkerOK(v)'
  BY <1>c DEF Inv, WorkerOK, Holding, WithItem
<1>4. \A m \in Lanes : RunningOK(m)'
  BY <1>c, SerialLaneAssumption DEF Inv, RunningOK, WithItem
<1>5. \A m \in Lanes : TokenOK(m)'
  <2> SUFFICES ASSUME NEW m \in Lanes PROVE TokenOK(m)'
    OBVIOUS
  <2>1. TokenOK(m) /\ Pin[m] \in Workers
    BY SerialLaneAssumption DEF Inv
  <2>2. (Publishing(m)' <=> Publishing(m)) /\ (Waiting(m)' <=> Waiting(m)) /\ \A k \in Jobs : Published(k, m)' <=> Published(k, m)
    BY DEF Publishing, Published, Waiting
  <2>3. Held(m)' <=> Held(m)
    BY <1>c, <2>1 DEF Held, Holding, WithItem
  <2> QED
    BY <2>1, <2>2, <2>3 DEF TokenOK
<1>6. \A m \in Lanes : ItemsOK(m)'
  BY DEF Inv, TypeOK, ItemsOK
<1>7. \A k \in Jobs : FutureOK(k)'
  <2> SUFFICES ASSUME NEW k \in Jobs PROVE FutureOK(k)'
    OBVIOUS
  <2>0. FutureOK(k)
    BY DEF Inv
  <2>1. ASSUME future'[k] = "pending"
        PROVE  \E h \in Jobs : /\ k \in watchers[h]
                               /\ \/ Occurs(items[LaneOf[k]], h)
                                  \/ \E v \in Workers : worker'[v] = "claiming" /\ onItem[v] = h /\ onLane[v] = LaneOf[k]
    <3>1. future[k] = "pending" /\ k \notin watchers[onItem[w]]
      BY <1>b, <2>1
    <3>2. PICK h \in Jobs : /\ k \in watchers[h]
                            /\ \/ Occurs(items[LaneOf[k]], h)
                               \/ \E v \in Workers : worker[v] = "claiming" /\ onItem[v] = h /\ onLane[v] = LaneOf[k]
      BY <2>0, <3>1 DEF FutureOK
    <3> QED
      BY <1>c, <3>1, <3>2
  <2>2. ASSUME future'[k] = "running"
        PROVE  \E v \in Workers : worker'[v] = "executing" /\ onLane[v] = LaneOf[k] /\ k \in watchers[onItem[v]]
    <3>1. CASE future[k] = "running"
      BY <1>a, <1>c, <2>0, <3>1 DEF FutureOK
    <3>2. CASE future[k] # "running"
      <4>1. k \in watchers[onItem[w]] /\ future[k] = "pending" /\ worker'[w] = "executing"
        BY <1>b, <1>c, <2>2, <3>2
      <4>2. onLane[w] = LaneOf[k]
        BY <1>a, <1>d, <4>1 DEF Inv, WatchersOK
      <4> QED
        BY <4>1, <4>2
    <3> QED
      BY <3>1, <3>2
  <2> QED
    BY <2>1, <2>2 DEF FutureOK
<1>8. \A k \in Jobs : WatchersOK(k)'
  BY DEF Inv, TypeOK, WatchersOK
<1>9. \A d \in Closers : CloserOK(d)'
  BY DEF Inv, TypeOK, CloserOK, Quiet
<1> QED
  BY <1>1, <1>2, <1>3, <1>4, <1>5, <1>6, <1>7, <1>8, <1>9 DEF Inv

LEMMA ExecuteStep ==
    ASSUME Inv, NEW w \in Workers, Execute(w)
    PROVE  Inv'
<1> USE DEF Execute, WorkerGoes, mailboxes, closing
<1>a. worker[w] = "executing" /\ onItem[w] \in Jobs /\ onLane[w] \in Lanes
  BY DEF Inv, WorkerOK, Holding, WithItem
<1>b. PICK r \in {"value", "error", "cancelled"} :
         future' = [k \in Jobs |-> IF k \in watchers[onItem[w]] /\ future[k] = "running" THEN r ELSE future[k]]
  BY DEF Inv
<1>c. /\ worker[w] \in WithItem /\ worker'[w] = "finishing"
      /\ \A v \in Workers \ {w} : worker'[v] = worker[v]
  BY <1>a DEF Inv, TypeOK, WithItem
<1>1. TypeOK'
  <2>1. worker' \in [Workers -> WorkerPcs]
    BY DEF Inv, TypeOK, WorkerPcs
  <2>2. future' \in [Jobs -> Resolved \cup {"none", "pending", "running"}]
    BY <1>b DEF Inv, TypeOK, Resolved
  <2> QED
    BY <2>1, <2>2 DEF Inv, TypeOK
<1>2. ReadyOK'
  BY DEF Inv, ReadyOK
<1>3. \A v \in Workers : WorkerOK(v)'
  BY <1>c DEF Inv, WorkerOK, Holding, WithItem
<1>4. \A m \in Lanes : RunningOK(m)'
  BY <1>c, SerialLaneAssumption DEF Inv, RunningOK, WithItem
<1>5. \A m \in Lanes : TokenOK(m)'
  <2> SUFFICES ASSUME NEW m \in Lanes PROVE TokenOK(m)'
    OBVIOUS
  <2>1. TokenOK(m) /\ Pin[m] \in Workers
    BY SerialLaneAssumption DEF Inv
  <2>2. (Publishing(m)' <=> Publishing(m)) /\ (Waiting(m)' <=> Waiting(m)) /\ \A k \in Jobs : Published(k, m)' <=> Published(k, m)
    BY DEF Publishing, Published, Waiting
  <2>3. Held(m)' <=> Held(m)
    BY <1>c, <2>1 DEF Held, Holding, WithItem
  <2> QED
    BY <2>1, <2>2, <2>3 DEF TokenOK
<1>6. \A m \in Lanes : ItemsOK(m)'
  BY DEF Inv, TypeOK, ItemsOK
<1>7. \A k \in Jobs : FutureOK(k)'
  <2> SUFFICES ASSUME NEW k \in Jobs PROVE FutureOK(k)'
    OBVIOUS
  <2>0. FutureOK(k)
    BY DEF Inv
  <2>1. ASSUME future'[k] = "pending"
        PROVE  \E h \in Jobs : /\ k \in watchers[h]
                               /\ \/ Occurs(items[LaneOf[k]], h)
                                  \/ \E v \in Workers : worker'[v] = "claiming" /\ onItem[v] = h /\ onLane[v] = LaneOf[k]
    <3>1. future[k] = "pending"
      BY <1>b, <2>1
    <3> QED
      BY <1>a, <1>c, <2>0, <3>1 DEF FutureOK
  <2>2. ASSUME future'[k] = "running"
        PROVE  \E v \in Workers : worker'[v] = "executing" /\ onLane[v] = LaneOf[k] /\ k \in watchers[onItem[v]]
    <3>1. future[k] = "running" /\ k \notin watchers[onItem[w]]
      BY <1>b, <2>2
    <3> QED
      BY <1>c, <2>0, <3>1 DEF FutureOK
  <2> QED
    BY <2>1, <2>2 DEF FutureOK
<1>8. \A k \in Jobs : WatchersOK(k)'
  BY DEF Inv, TypeOK, WatchersOK
<1>9. \A d \in Closers : CloserOK(d)'
  BY DEF Inv, TypeOK, CloserOK, Quiet
<1> QED
  BY <1>1, <1>2, <1>3, <1>4, <1>5, <1>6, <1>7, <1>8, <1>9 DEF Inv

LEMMA FinishItemStep ==
    ASSUME Inv, NEW w \in Workers, FinishItem(w)
    PROVE  Inv'
<1> USE DEF FinishItem, WorkerGoes, futures, closing
<1>a. /\ worker[w] = "finishing" /\ onItem[w] \in Jobs /\ onLane[w] \in Lanes /\ Pin[onLane[w]] = w
      /\ Held(onLane[w]) /\ TokenOK(onLane[w]) /\ scheduled[onLane[w]]
  BY DEF Inv, WorkerOK, Holding, WithItem, Held, TokenOK
<1>c. /\ worker'[w] = IF items[onLane[w]] # <<>> THEN "rescheduling" ELSE "waiting"
      /\ \A v \in Workers \ {w} : worker'[v] = worker[v] /\ onItem'[v] = onItem[v]
      /\ scheduled'[onLane[w]] <=> items[onLane[w]] # <<>>
      /\ \A m \in Lanes \ {onLane[w]} : scheduled'[m] = scheduled[m] /\ running'[m] = running[m]
      /\ ~running'[onLane[w]]
  BY <1>a DEF Inv, TypeOK, Reschedules
<1>1. TypeOK'
  <2>1. worker' \in [Workers -> WorkerPcs] /\ onItem' \in [Workers -> Jobs \cup {NoJob}]
    BY DEF Inv, TypeOK, WorkerPcs
  <2>2. running' \in [Lanes -> BOOLEAN] /\ scheduled' \in [Lanes -> BOOLEAN]
    BY DEF Inv, TypeOK
  <2> QED
    BY <2>1, <2>2 DEF Inv, TypeOK
<1>2. ReadyOK'
  BY DEF Inv, ReadyOK
<1>3. \A v \in Workers : WorkerOK(v)'
  <2> SUFFICES ASSUME NEW v \in Workers PROVE WorkerOK(v)'
    OBVIOUS
  <2>1. WorkerOK(v)
    BY DEF Inv
  <2>2. CASE v = w
    BY <1>a, <1>c, <2>2 DEF WorkerOK, WithItem
  <2>3. CASE v # w
    BY <1>a, <1>c, <2>1, <2>3 DEF WorkerOK, Holding, WithItem
  <2> QED
    BY <2>2, <2>3
<1>4. \A m \in Lanes : RunningOK(m)'
  BY <1>a, <1>c, SerialLaneAssumption DEF Inv, RunningOK, WithItem
<1>5. \A m \in Lanes : TokenOK(m)'
  <2> SUFFICES ASSUME NEW m \in Lanes PROVE TokenOK(m)'
    OBVIOUS
  <2>1. TokenOK(m) /\ Pin[m] \in Workers
    BY SerialLaneAssumption DEF Inv
  <2>2. (Publishing(m)' <=> Publishing(m)) /\ (Waiting(m)' <=> Waiting(m)) /\ \A k \in Jobs : Published(k, m)' <=> Published(k, m)
    BY DEF Publishing, Published, Waiting
  <2>3. Held(m)' <=> Held(m) /\ (m = onLane[w] => items[m] # <<>>)
    BY <1>a, <1>c, <2>1 DEF Held, Holding, WithItem
  <2> QED
    BY <1>a, <1>c, <2>1, <2>2, <2>3 DEF TokenOK
<1>6. \A m \in Lanes : ItemsOK(m)'
  BY DEF Inv, TypeOK, ItemsOK
<1>7. \A k \in Jobs : FutureOK(k)'
  BY <1>a, <1>c, FutureKept DEF Inv
<1>8. \A k \in Jobs : WatchersOK(k)'
  BY DEF Inv, TypeOK, WatchersOK
<1>9. \A d \in Closers : CloserOK(d)'
  <2>1. \A m \in Lanes : Quiet(m) => Quiet(m)'
    BY <1>a, <1>c DEF Quiet
  <2> QED
    BY <2>1, SerialLaneAssumption DEF Inv, TypeOK, CloserOK
<1> QED
  BY <1>1, <1>2, <1>3, <1>4, <1>5, <1>6, <1>7, <1>8, <1>9 DEF Inv

LEMMA RescheduleStep ==
    ASSUME Inv, NEW w \in Workers, Reschedule(w)
    PROVE  Inv'
<1> USE DEF Reschedule, WorkerGoes, mailboxes, futures, closing
<1>a. /\ worker[w] = "rescheduling" /\ onLane[w] \in Lanes /\ Pin[onLane[w]] = w
      /\ Held(onLane[w]) /\ TokenOK(onLane[w])
  BY DEF Inv, WorkerOK, Holding, Held
<1>b. /\ Append(ready[w], onLane[w]) \in Seq(Lanes)
      /\ \A x : Occurs(Append(ready[w], onLane[w]), x) <=> Occurs(ready[w], x) \/ x = onLane[w]
      /\ \A x : Once(ready[w], x) /\ (x = onLane[w] => ~Occurs(ready[w], x)) => Once(Append(ready[w], onLane[w]), x)
  BY <1>a, AppendFacts DEF Inv, TypeOK
<1>c. /\ worker'[w] \in {"dead", "waiting"} /\ \A v \in Workers \ {w} : worker'[v] = worker[v]
      /\ ~factoryClosed => /\ ready'[w] = Append(ready[w], onLane[w])
                           /\ \A v \in Workers \ {w} : ready'[v] = ready[v]
      /\ factoryClosed => ready' = ready
  BY <1>a DEF Inv, TypeOK
<1>1. TypeOK'
  <2>1. worker' \in [Workers -> WorkerPcs]
    <3>1. worker' = [worker EXCEPT ![w] = "dead"] \/ worker' = [worker EXCEPT ![w] = "waiting"]
      OBVIOUS
    <3>2. worker \in [Workers -> WorkerPcs] /\ "dead" \in WorkerPcs /\ "waiting" \in WorkerPcs
      BY DEF Inv, TypeOK, WorkerPcs
    <3> QED
      BY <3>1, <3>2
  <2>2. ready' \in [Workers -> Seq(Lanes)]
    <3>1. CASE factoryClosed
      BY <1>c, <3>1 DEF Inv, TypeOK
    <3>2. CASE ~factoryClosed
      <4>1. ready' = [ready EXCEPT ![w] = Append(ready[w], onLane[w])]
        BY <1>a, <3>2
      <4> QED
        BY <1>b, <4>1 DEF Inv, TypeOK
    <3> QED
      BY <3>1, <3>2
  <2> QED
    BY <2>1, <2>2 DEF Inv, TypeOK
<1>2. ReadyOK'
  <2> SUFFICES ASSUME NEW v \in Workers, NEW m \in Lanes, Occurs(ready'[v], m) PROVE Pin[m] = v
    BY DEF ReadyOK
  <2>1. Occurs(ready[v], m) \/ (v = w /\ m = onLane[w])
    BY <1>a, <1>b, <1>c
  <2> QED
    BY <1>a, <2>1 DEF Inv, ReadyOK
<1>3. \A v \in Workers : WorkerOK(v)'
  BY <1>c DEF Inv, WorkerOK, Holding, WithItem
<1>4. \A m \in Lanes : RunningOK(m)'
  BY <1>a, <1>c, SerialLaneAssumption DEF Inv, RunningOK, WithItem
<1>5. \A m \in Lanes : TokenOK(m)'
  <2> SUFFICES ASSUME NEW m \in Lanes PROVE TokenOK(m)'
    OBVIOUS
  <2>1. TokenOK(m) /\ Pin[m] \in Workers /\ ~Waiting(onLane[w])
    BY <1>a, SerialLaneAssumption DEF Inv, TokenOK
  <2>2. (Publishing(m)' <=> Publishing(m)) /\ \A k \in Jobs : Published(k, m)' <=> Published(k, m)
    BY DEF Publishing, Published
  <2>3. Held(m)' <=> Held(m) /\ m # onLane[w]
    BY <1>a, <1>c, <2>1 DEF Held, Holding, WithItem
  <2>4. Waiting(m)' <=> Waiting(m) \/ (m = onLane[w] /\ ~factoryClosed)
    BY <1>a, <1>b, <1>c, <2>1 DEF Waiting
  <2>5. Once(ready'[Pin[m]], m)
    BY <1>a, <1>b, <1>c, <2>1 DEF Waiting, TokenOK
  <2> QED
    BY <1>a, <2>1, <2>2, <2>3, <2>4, <2>5 DEF TokenOK
<1>6. \A m \in Lanes : ItemsOK(m)'
  BY DEF Inv, TypeOK, ItemsOK
<1>7. \A k \in Jobs : FutureOK(k)'
  BY <1>a, <1>c, FutureKept DEF Inv
<1>8. \A k \in Jobs : WatchersOK(k)'
  BY DEF Inv, TypeOK, WatchersOK
<1>9. \A d \in Closers : CloserOK(d)'
  BY DEF Inv, TypeOK, CloserOK, Quiet
<1> QED
  BY <1>1, <1>2, <1>3, <1>4, <1>5, <1>6, <1>7, <1>8, <1>9 DEF Inv

-----------------------------------------------------------------------------
(***************************************************************************)
(* Closes.                                                                 *)
(***************************************************************************)

LEMMA SealEffect ==
    ASSUME Inv, NEW c \in Closers, NEW l \in Lanes, NEW withdraw \in BOOLEAN, Seal(c, l, withdraw)
    PROVE  /\ items' \in [Lanes -> Seq(Jobs)] /\ \A m \in Lanes : items'[m] = items[m] \/ items'[m] = <<>>
           /\ coalesced' \in [Lanes -> [Keys -> Jobs \cup {NoJob}]]
           /\ future' \in [Jobs -> Resolved \cup {"none", "pending", "running"}]
           /\ \A k \in Jobs : future'[k] = future[k] \/ future'[k] = "withdrawn"
           /\ closed' \in [Lanes -> BOOLEAN] /\ closed'[l] /\ \A m \in Lanes : closed[m] => closed'[m]
           /\ scheduled' = scheduled
           /\ \A m \in Lanes : ItemsOK(m)'
           /\ \A k \in Jobs : FutureOK(k)'
<1> USE DEF Seal, threads
<1>0. /\ items \in [Lanes -> Seq(Jobs)] /\ coalesced \in [Lanes -> [Keys -> Jobs \cup {NoJob}]]
      /\ future \in [Jobs -> Resolved \cup {"none", "pending", "running"}]
      /\ closed \in [Lanes -> BOOLEAN] /\ scheduled \in [Lanes -> BOOLEAN]
  BY DEF Inv, TypeOK
<1>1. closed' \in [Lanes -> BOOLEAN] /\ closed'[l] /\ \A m \in Lanes : closed[m] => closed'[m]
  BY <1>0
<1>2. CASE ~withdraw
  <2>1. UNCHANGED <<items, coalesced, future, scheduled>>
    BY <1>2
  <2>2. \A m \in Lanes : ItemsOK(m)'
    BY <2>1 DEF Inv, ItemsOK
  <2>3. \A k \in Jobs : FutureOK(k)'
    BY <2>1, FutureKept DEF Inv
  <2> QED
    BY <1>0, <1>1, <2>1, <2>2, <2>3
<1>3. CASE withdraw
  <2> DEFINE gone == UNION {watchers[items[l][n]] : n \in DOMAIN items[l]}
  <2>1. /\ items' = [items EXCEPT ![l] = <<>>]
        /\ coalesced' = [coalesced EXCEPT ![l] = OpenItemsOnWithdrawal(l)]
        /\ future' = [j \in Jobs |-> IF j \in gone /\ future[j] = "pending" THEN "withdrawn" ELSE future[j]]
        /\ scheduled' = [scheduled EXCEPT ![l] = scheduled[l]]
    BY <1>3 DEF ScheduledAfterWithdrawal
  <2>2. \A i : Occurs(items[l], i) => watchers[i] \subseteq gone
    BY DEF Occurs
  <2> HIDE DEF gone
  <2>3. OpenItemsOnWithdrawal(l) \in [Keys -> Jobs \cup {NoJob}]
    BY <1>0 DEF OpenItemsOnWithdrawal
  <2>4. \A k \in Keys : coalesced'[l][k] = NoJob
    <3> SUFFICES ASSUME NEW k \in Keys PROVE OpenItemsOnWithdrawal(l)[k] = NoJob
      BY <1>0, <2>1
    <3>1. coalesced[l][k] # NoJob => coalesced[l][k] \in {items[l][n] : n \in DOMAIN items[l]}
      BY DEF Inv, ItemsOK, Occurs
    <3> QED
      BY <3>1 DEF OpenItemsOnWithdrawal
  <2>5. items'[l] = <<>> /\ \A m \in Lanes \ {l} : items'[m] = items[m] /\ coalesced'[m] = coalesced[m]
    BY <1>0, <2>1
  <2>6. scheduled' = scheduled
    BY <1>0, <2>1
  <2>7. \A k \in Jobs : future'[k] = IF k \in gone /\ future[k] = "pending" THEN "withdrawn" ELSE future[k]
    BY <2>1
  <2>8. ASSUME NEW m \in Lanes PROVE ItemsOK(m)'
    <3>1. CASE m = l
      BY <2>4, <2>5, <3>1, EmptyFacts DEF ItemsOK
    <3>2. CASE m # l
      BY <2>5, <3>2 DEF Inv, ItemsOK
    <3> QED
      BY <3>1, <3>2
  <2>9. ASSUME NEW k \in Jobs PROVE FutureOK(k)'
    <3>1. FutureOK(k) /\ (future'[k] \in {"pending", "running"} => future'[k] = future[k])
      BY <2>7 DEF Inv
    <3>2. LaneOf[k] \in Lanes
      BY SerialLaneAssumption
    <3>3. ASSUME future'[k] = "pending", NEW i \in Jobs, k \in watchers[i], Occurs(items[LaneOf[k]], i)
          PROVE  Occurs(items'[LaneOf[k]], i)
      <4>1. k \notin gone
        BY <2>7, <3>3
      <4>2. LaneOf[k] # l
        BY <2>2, <3>3, <4>1
      <4> QED
        BY <2>5, <3>2, <3>3, <4>2
    <3> QED
      BY <3>1, <3>3 DEF FutureOK
  <2>10. items' \in [Lanes -> Seq(Jobs)] /\ coalesced' \in [Lanes -> [Keys -> Jobs \cup {NoJob}]]
    BY <1>0, <2>1, <2>3
  <2>11. future' \in [Jobs -> Resolved \cup {"none", "pending", "running"}]
    BY <1>0, <2>1 DEF Resolved
  <2> QED
    BY <1>1, <2>5, <2>6, <2>7, <2>8, <2>9, <2>10, <2>11
<1> QED
  BY <1>2, <1>3

\* Sealing a lane concerns neither tokens nor workers.
LEMMA SealStep ==
    ASSUME Inv, NEW c \in Closers, NEW l \in Lanes, NEW withdraw \in BOOLEAN, Seal(c, l, withdraw),
           todo' \in [Closers -> SUBSET Lanes], erred' = erred,
           \A d \in Closers : CloserOK(d)'
    PROVE  Inv'
<1> USE DEF Seal, threads
<1>a. /\ items' \in [Lanes -> Seq(Jobs)] /\ \A m \in Lanes : items'[m] = items[m] \/ items'[m] = <<>>
      /\ coalesced' \in [Lanes -> [Keys -> Jobs \cup {NoJob}]]
      /\ future' \in [Jobs -> Resolved \cup {"none", "pending", "running"}]
      /\ closed' \in [Lanes -> BOOLEAN] /\ scheduled' = scheduled
      /\ \A m \in Lanes : ItemsOK(m)'
      /\ \A k \in Jobs : FutureOK(k)'
  BY SealEffect
<1>b. UNCHANGED <<running, watchers, fn, token, submitter, ready, worker, onLane, onItem, factoryClosed, erred>>
  OBVIOUS
<1>c. closer' = [closer EXCEPT ![c] = "draining"] /\ target' = [target EXCEPT ![c] = l]
  BY DEF CloserGoes
<1>1. TypeOK'
  <2>1. \A m \in Lanes : Len(items'[m]) <= Capacity
    BY <1>a, SerialLaneAssumption DEF Inv, TypeOK
  <2> QED
    BY <1>a, <1>b, <1>c, <2>1 DEF Inv, TypeOK
<1>2. ReadyOK'
  BY <1>b DEF Inv, ReadyOK
<1>3. \A v \in Workers : WorkerOK(v)'
  BY <1>b DEF Inv, WorkerOK
<1>4. \A m \in Lanes : RunningOK(m)'
  BY <1>b DEF Inv, RunningOK
<1>5. \A m \in Lanes : TokenOK(m)'
  BY <1>a, <1>b DEF Inv, TokenOK, Publishing, Published, Waiting, Held
<1>6. \A k \in Jobs : WatchersOK(k)'
  BY <1>b DEF Inv, WatchersOK
<1> QED
  BY <1>a, <1>1, <1>2, <1>3, <1>4, <1>5, <1>6 DEF Inv

LEMMA CloseLaneStep ==
    ASSUME Inv, NEW c \in Closers, CloseLane(c)
    PROVE  Inv'
<1> USE DEF CloseLane
<1>1. c \in LaneClosers /\ c \notin Shutdowns /\ TargetOf[c] \in Lanes /\ Seal(c, TargetOf[c], FALSE)
      /\ UNCHANGED <<todo, erred>>
  BY SerialLaneAssumption
<1>2. closed'[TargetOf[c]] /\ \A m \in Lanes : (Quiet(m) => Quiet(m)') /\ (closed[m] => closed'[m])
  BY <1>1, SealEffect DEF Quiet
<1>3. closer' = [closer EXCEPT ![c] = "draining"] /\ target' = [target EXCEPT ![c] = TargetOf[c]]
  BY <1>1 DEF Seal, CloserGoes
<1>4. ASSUME NEW d \in Closers PROVE CloserOK(d)'
  <2>1. CASE d = c
    <3>1. closer'[c] = "draining" /\ target'[c] = TargetOf[c]
      BY <1>3 DEF Inv, TypeOK
    <3> QED
      BY <1>1, <1>2, <2>1, <3>1 DEF CloserOK
  <2>2. CASE d # c
    <3>1. CloserOK(d) /\ closer'[d] = closer[d] /\ target'[d] = target[d] /\ todo' = todo /\ erred' = erred
      BY <1>1, <1>3, <2>2 DEF Inv, TypeOK
    <3> QED
      BY <1>2, <3>1, SerialLaneAssumption DEF CloserOK
  <2> QED
    BY <2>1, <2>2
<1>5. todo' \in [Closers -> SUBSET Lanes]
  BY <1>1 DEF Inv, TypeOK
<1> QED
  BY <1>1, <1>4, <1>5, SealStep

LEMMA ShutdownSealsStep ==
    ASSUME Inv, NEW c \in Closers, NEW l \in Lanes, ShutdownSeals(c, l)
    PROVE  Inv'
<1> USE DEF ShutdownSeals
<1>1. closer[c] = "visiting" /\ l \in todo[c] /\ Seal(c, l, TRUE) /\ erred' = erred
      /\ todo' = [todo EXCEPT ![c] = @ \ {l}]
  OBVIOUS
<1>2. closed'[l] /\ \A m \in Lanes : (Quiet(m) => Quiet(m)') /\ (closed[m] => closed'[m])
  BY <1>1, SealEffect DEF Quiet
<1>3. closer' = [closer EXCEPT ![c] = "draining"] /\ target' = [target EXCEPT ![c] = l]
  BY <1>1 DEF Seal, CloserGoes
<1>4. c \notin LaneClosers /\ CloserOK(c)
  BY <1>1 DEF Inv, CloserOK
<1>5. ASSUME NEW d \in Closers PROVE CloserOK(d)'
  <2>1. CASE d = c
    <3>1. closer'[c] = "draining" /\ target'[c] = l /\ todo'[c] = todo[c] \ {l}
      BY <1>1, <1>3 DEF Inv, TypeOK
    <3> QED
      BY <1>1, <1>2, <1>4, <2>1, <3>1 DEF CloserOK
  <2>2. CASE d # c
    <3>1. CloserOK(d) /\ closer'[d] = closer[d] /\ target'[d] = target[d] /\ todo'[d] = todo[d] /\ erred' = erred
      BY <1>1, <1>3, <2>2 DEF Inv, TypeOK
    <3> QED
      BY <1>2, <3>1, SerialLaneAssumption DEF CloserOK, Inv, TypeOK
  <2> QED
    BY <2>1, <2>2
<1>6. todo' \in [Closers -> SUBSET Lanes]
  BY <1>1 DEF Inv, TypeOK
<1> QED
  BY <1>1, <1>5, <1>6, SealStep

\* Steps of closers between which nothing but their own state changes.
LEMMA CloserStep ==
    ASSUME Inv, NEW c \in Closers,
           UNCHANGED <<mailboxes, futures, submitter, threads, target>>,
           factoryClosed' \in BOOLEAN, factoryClosed => factoryClosed',
           NEW pc \in {"visiting", "joining", "converged", "failed"},
           closer' = [closer EXCEPT ![c] = pc],
           todo' \in [Closers -> SUBSET Lanes], erred' \in [Closers -> BOOLEAN],
           \A d \in Closers \ {c} : todo'[d] = todo[d] /\ erred'[d] = erred[d],
           CloserOK(c)'
    PROVE  Inv'
<1> USE DEF mailboxes, futures, threads
<1>1. TypeOK'
  BY DEF Inv, TypeOK
<1>2. ReadyOK' /\ (\A v \in Workers : WorkerOK(v)') /\ \A m \in Lanes : RunningOK(m)'
  BY DEF Inv, ReadyOK, WorkerOK, RunningOK
<1>3. \A m \in Lanes : TokenOK(m)'
  BY DEF Inv, TypeOK, TokenOK, Publishing, Published, Waiting, Held
<1>4. (\A m \in Lanes : ItemsOK(m)') /\ \A k \in Jobs : WatchersOK(k)'
  BY DEF Inv, ItemsOK, WatchersOK
<1>5. \A k \in Jobs : FutureOK(k)'
  BY FutureKept DEF Inv
<1>6. ASSUME NEW d \in Closers PROVE CloserOK(d)'
  <2>1. CASE d # c
    <3>1. CloserOK(d) /\ closer'[d] = closer[d] /\ todo'[d] = todo[d] /\ erred'[d] = erred[d]
      BY <2>1 DEF Inv, TypeOK
    <3> QED
      BY <3>1 DEF CloserOK, Quiet
  <2> QED
    BY <2>1
<1> QED
  BY <1>1, <1>2, <1>3, <1>4, <1>5, <1>6 DEF Inv

LEMMA ShutdownBeginsStep ==
    ASSUME Inv, NEW c \in Closers, ShutdownBegins(c)
    PROVE  Inv'
<1> USE DEF ShutdownBegins, CloserGoes
<1>1. /\ closer' = [closer EXCEPT ![c] = "visiting"] /\ todo' \in [Closers -> SUBSET Lanes]
      /\ erred' \in [Closers -> BOOLEAN] /\ factoryClosed' \in BOOLEAN
      /\ \A d \in Closers \ {c} : todo'[d] = todo[d] /\ erred'[d] = erred[d]
  BY DEF Inv, TypeOK
<1>2. closer'[c] = "visiting" /\ todo'[c] = Lanes /\ c \notin LaneClosers
  BY SerialLaneAssumption DEF Inv, TypeOK
<1>3. CloserOK(c)'
  BY <1>2 DEF CloserOK
<1> QED
  BY <1>1, <1>3, CloserStep

LEMMA DrainedStep ==
    ASSUME Inv, NEW c \in Closers, Drained(c)
    PROVE  Inv'
<1> USE DEF Drained, CloserGoes
<1>1. /\ todo' \in [Closers -> SUBSET Lanes] /\ factoryClosed' \in BOOLEAN
      /\ erred' \in [Closers -> BOOLEAN]
      /\ \A d \in Closers \ {c} : todo'[d] = todo[d] /\ erred'[d] = erred[d]
  BY DEF Inv, TypeOK
<1>2. PICK pc \in {"visiting", "converged", "failed"} :
         /\ closer' = [closer EXCEPT ![c] = pc]
         /\ pc = IF c \in Shutdowns THEN "visiting" ELSE IF erred'[c] THEN "failed" ELSE "converged"
  OBVIOUS
<1>3. ~erred'[c] => LaneConverged(target[c]) /\ ~erred[c]
  BY DEF Inv, TypeOK
<1>4. CloserOK(c) /\ closer[c] = "draining" /\ closer'[c] = pc
  BY <1>2 DEF Inv, TypeOK
<1>5. ~erred'[c] => Quiet(target[c])'
  BY <1>3, <1>4 DEF CloserOK, LaneConverged, Quiet, mailboxes
<1>6. CloserOK(c)'
  <2>1. CASE c \in Shutdowns
    <3>1. pc = "visiting" /\ c \notin LaneClosers
      BY <1>2, <2>1, SerialLaneAssumption
    <3> QED
      BY <1>3, <1>4, <1>5, <2>1, <3>1 DEF CloserOK, Quiet, mailboxes
  <2>2. CASE c \notin Shutdowns
    <3>1. c \in LaneClosers /\ target[c] = TargetOf[c] /\ pc \in {"failed", "converged"}
      BY <1>2, <1>4, <2>2 DEF CloserOK, Closers
    <3> QED
      BY <1>2, <1>4, <1>5, <2>2, <3>1 DEF CloserOK
  <2> QED
    BY <2>1, <2>2
<1> QED
  BY <1>1, <1>2, <1>6, CloserStep

LEMMA ShutdownStopsWorkersStep ==
    ASSUME Inv, NEW c \in Closers, ShutdownStopsWorkers(c)
    PROVE  Inv'
<1> USE DEF ShutdownStopsWorkers, CloserGoes
<1>1. /\ closer' = [closer EXCEPT ![c] = "joining"] /\ todo' \in [Closers -> SUBSET Lanes]
      /\ erred' \in [Closers -> BOOLEAN] /\ factoryClosed' \in BOOLEAN /\ factoryClosed'
      /\ \A d \in Closers \ {c} : todo'[d] = todo[d] /\ erred'[d] = erred[d]
  BY DEF Inv, TypeOK
<1>2. closer'[c] = "joining" /\ closer[c] = "visiting" /\ todo[c] = {} /\ CloserOK(c)
  BY DEF Inv, TypeOK
<1>3. CloserOK(c)'
  BY <1>2 DEF CloserOK, Quiet, mailboxes
<1> QED
  BY <1>1, <1>3, CloserStep

LEMMA ShutdownJoinsStep ==
    ASSUME Inv, NEW c \in Closers, ShutdownJoins(c)
    PROVE  Inv'
<1> USE DEF ShutdownJoins, CloserGoes
<1>1. /\ todo' \in [Closers -> SUBSET Lanes] /\ factoryClosed' \in BOOLEAN
      /\ erred' \in [Closers -> BOOLEAN]
      /\ \A d \in Closers \ {c} : todo'[d] = todo[d] /\ erred'[d] = erred[d]
  BY DEF Inv, TypeOK, WorkersEnded
<1>2. PICK pc \in {"converged", "failed"} :
         closer' = [closer EXCEPT ![c] = pc] /\ pc = IF erred'[c] THEN "failed" ELSE "converged"
  OBVIOUS
<1>3. ~erred'[c] => ~erred[c]
  BY DEF Inv, TypeOK
<1>4. CloserOK(c) /\ closer[c] = "joining" /\ closer'[c] = pc
  BY <1>2 DEF Inv, TypeOK
<1>5. CloserOK(c)'
  BY <1>2, <1>3, <1>4 DEF CloserOK, Quiet, mailboxes
<1> QED
  BY <1>1, <1>2, <1>5, CloserStep

-----------------------------------------------------------------------------
(***************************************************************************)
(* The theorems.                                                           *)
(***************************************************************************)

LEMMA InitInv == Init => Inv
<1> SUFFICES ASSUME Init PROVE Inv
  OBVIOUS
<1> USE DEF Init
<1>1. TypeOK
  <2>1. items \in [Lanes -> Seq(Jobs)] /\ ready \in [Workers -> Seq(Lanes)]
    OBVIOUS
  <2>2. \A m \in Lanes : Len(items[m]) <= Capacity
    BY SerialLaneAssumption
  <2> QED
    BY <2>1, <2>2 DEF TypeOK, WorkerPcs, Resolved
<1>2. ReadyOK
  BY EmptyFacts DEF ReadyOK
<1>3. \A v \in Workers : WorkerOK(v)
  BY DEF WorkerOK, Holding, WithItem
<1>4. ASSUME NEW m \in Lanes PROVE RunningOK(m) /\ TokenOK(m) /\ ItemsOK(m)
  <2>1. Pin[m] \in Workers
    BY SerialLaneAssumption
  <2> QED
    BY <2>1, EmptyFacts DEF RunningOK, TokenOK, ItemsOK, Publishing, Published, Waiting, Held,
       Holding, WithItem
<1>5. \A k \in Jobs : WatchersOK(k) /\ FutureOK(k)
  BY DEF WatchersOK, FutureOK
<1>6. \A d \in Closers : CloserOK(d)
  BY DEF CloserOK
<1> QED
  BY <1>1, <1>2, <1>3, <1>4, <1>5, <1>6 DEF Inv

LEMMA StutterStep ==
    ASSUME Inv, UNCHANGED vars
    PROVE  Inv'
<1> USE DEF vars, mailboxes, futures, threads, closing
<1>1. TypeOK'
  BY DEF Inv, TypeOK, Resolved, WorkerPcs
<1>2. ReadyOK'
  BY DEF Inv, ReadyOK
<1>3. \A v \in Workers : WorkerOK(v)'
  BY DEF Inv, TypeOK, WorkerOK, Holding, WithItem
<1>4. \A m \in Lanes : RunningOK(m)'
  BY DEF Inv, TypeOK, RunningOK, WithItem
<1>5. \A m \in Lanes : TokenOK(m)'
  BY DEF Inv, TypeOK, TokenOK, Publishing, Published, Waiting, Held, Holding, WithItem
<1>6. \A m \in Lanes : ItemsOK(m)'
  BY DEF Inv, TypeOK, ItemsOK
<1>7. \A k \in Jobs : FutureOK(k)'
  BY FutureKept DEF Inv, TypeOK
<1>8. \A k \in Jobs : WatchersOK(k)'
  BY DEF Inv, TypeOK, WatchersOK
<1>9. \A d \in Closers : CloserOK(d)'
  BY DEF Inv, TypeOK, CloserOK, Quiet
<1> QED
  BY <1>1, <1>2, <1>3, <1>4, <1>5, <1>6, <1>7, <1>8, <1>9 DEF Inv

LEMMA NextInv == Inv /\ [Next]_vars => Inv'
<1> SUFFICES ASSUME Inv, [Next]_vars PROVE Inv'
  OBVIOUS
<1>1. ASSUME NEW j \in Jobs, Submit(j) PROVE Inv'
  BY <1>1, EnqueueStep, CoalesceStep, RefuseStep, PublishStep, CancelJobStep DEF Submit
<1>2. ASSUME NEW w \in Workers, Work(w) PROVE Inv'
  BY <1>2, PopTokenStep, ExitStep, TakeNothingStep, TakeItemStep, ClaimStep, ExecuteStep,
     FinishItemStep,
     RescheduleStep DEF Work
<1>3. ASSUME NEW c \in Closers, Close(c) PROVE Inv'
  BY <1>3, CloseLaneStep, ShutdownBeginsStep, ShutdownSealsStep, DrainedStep,
     ShutdownStopsWorkersStep,
     ShutdownJoinsStep DEF Close
<1> QED
  BY <1>1, <1>2, <1>3, StutterStep DEF Next

\* Every reachable state satisfies the invariant.
THEOREM Invariance == Spec => []Inv
  BY InitInv, NextInv, PTL DEF Spec

\* Each variable keeps its kind, and a mailbox holds at most its capacity.
THEOREM TypeCorrect == Spec => []TypeOK
<1>1. Inv => TypeOK
  BY DEF Inv
<1> QED
  BY <1>1, Invariance, PTL

\* Where a token of a lane is, as the invariant counts it.
LEMMA PlacesOfTokens ==
    ASSUME Inv, NEW l \in Lanes
    PROVE  /\ TokenPlaces(l) # {} <=> Publishing(l) \/ Waiting(l) \/ Held(l)
           /\ \A x, y \in TokenPlaces(l) : x = y
<1> DEFINE S == {<<"submitter", j>> : j \in {k \in Jobs : Published(k, l)}}
           R == {<<"ready", n>> : n \in {m \in DOMAIN ready[Pin[l]] : ready[Pin[l]][m] = l}}
           H == {<<"worker", w>> : w \in {v \in Workers :
                     onLane[v] = l /\ worker[v] \notin {"waiting", "exited", "dead"}}}
<1>1. TokenPlaces(l) = S \cup R \cup H
  BY DEF TokenPlaces, Published
<1>2. TokenOK(l) /\ Pin[l] \in Workers
  BY SerialLaneAssumption DEF Inv
<1>3. \A v \in Workers : worker[v] \notin {"waiting", "exited", "dead"} <=> worker[v] \in Holding
  BY DEF Inv, TypeOK, WorkerPcs, Holding, WithItem
<1>4. /\ S # {} <=> Publishing(l)
      /\ \A x, y \in S : x = y
  BY <1>2 DEF Publishing, TokenOK
<1>5. /\ R # {} <=> Waiting(l)
      /\ \A x, y \in R : x = y
  BY <1>2 DEF Waiting, Occurs, Once, TokenOK
<1>6. \A v \in Workers : onLane[v] = l /\ worker[v] \in Holding <=> v = Pin[l] /\ Held(l)
  BY <1>2 DEF Inv, WorkerOK, Held
<1>7. /\ H # {} <=> Held(l)
      /\ \A x, y \in H : x = y
  BY <1>2, <1>3, <1>6
<1> HIDE DEF S, R, H
<1> QED
  BY <1>1, <1>2, <1>4, <1>5, <1>7 DEF TokenOK

\* A lane never has two tokens, and one with a token is scheduled, whatever closes
\* and coalescing do in between (_enqueue, _finish_owned_item).
THEOREM TokensAreSingle == Spec => []OneTokenPerLane
<1>1. Inv => OneTokenPerLane
  <2> SUFFICES ASSUME Inv, NEW l \in Lanes
               PROVE  Cardinality(TokenPlaces(l)) <= 1 /\ (TokenPlaces(l) # {} => scheduled[l])
    BY DEF OneTokenPerLane
  <2>1. TokenPlaces(l) # {} => scheduled[l]
    BY PlacesOfTokens DEF Inv, TokenOK
  <2>2. CASE TokenPlaces(l) = {}
    BY <2>1, <2>2, FS_EmptySet
  <2>3. CASE TokenPlaces(l) # {}
    <3>1. PICK x : TokenPlaces(l) = {x}
      BY <2>3, PlacesOfTokens
    <3> QED
      <4>1. Cardinality({x}) = 1
        BY FS_Singleton
      <4>2. Cardinality(TokenPlaces(l)) = 1
        BY <3>1, <4>1
      <4> QED
        BY <2>1, <4>2
  <2> QED
    BY <2>2, <2>3
<1> QED
  BY <1>1, Invariance, PTL

\* No item waits in a mailbox without a token on its way, until the factory closes.
THEOREM WakeupsAreKept == Spec => []NoLostWakeup
<1>1. Inv => NoLostWakeup
  BY PlacesOfTokens DEF Inv, TokenOK, NoLostWakeup
<1> QED
  BY <1>1, Invariance, PTL

\* A key leads only to items that are still in the mailbox (_coalesced).
THEOREM KeysLeadToQueuedItems == Spec => []OpenItemsAreQueued
<1>1. Inv => OpenItemsAreQueued
  BY DEF Inv, ItemsOK, Occurs, OpenItemsAreQueued
<1> QED
  BY <1>1, Invariance, PTL

\* After a close that returned normally no future of its lane, or of any lane, is open,
\* nor will be (lane.close, factory.close).
THEOREM ClosesLeaveQuiet == Spec => []ClosedLaneIsQuiet
<1>1. ASSUME Inv, NEW j \in Jobs, Quiet(LaneOf[j])
      PROVE  future[j] \notin {"pending", "running"}
  <2>1. LaneOf[j] \in Lanes /\ TokenOK(LaneOf[j]) /\ FutureOK(j)
    BY <1>1, SerialLaneAssumption DEF Inv
  <2>2. items[LaneOf[j]] = <<>> /\ ~Held(LaneOf[j])
    BY <1>1, <2>1 DEF TokenOK, Quiet
  <2>3. ASSUME NEW w \in Workers, worker[w] \in WithItem, onLane[w] = LaneOf[j] PROVE FALSE
    BY <1>1, <2>2, <2>3 DEF Inv, WorkerOK, Held, Holding
  <2>4. \A i \in Jobs : ~Occurs(items[LaneOf[j]], i)
    BY <2>2, EmptyFacts
  <2> QED
    BY <2>1, <2>3, <2>4 DEF FutureOK, WithItem
<1>2. Inv => ClosedLaneIsQuiet
  <2> SUFFICES ASSUME Inv, NEW c \in Closers, closer[c] = "converged",
                      NEW j \in Jobs, c \in Shutdowns \/ LaneOf[j] = TargetOf[c]
               PROVE  future[j] \notin {"pending", "running"}
    BY DEF ClosedLaneIsQuiet
  <2>1. CloserOK(c) /\ LaneOf[j] \in Lanes
    BY SerialLaneAssumption DEF Inv
  <2>2. Quiet(LaneOf[j])
    BY <2>1 DEF CloserOK, Closers
  <2> QED
    BY <1>1, <2>2
<1> QED
  BY <1>2, Invariance, PTL

-----------------------------------------------------------------------------
(***************************************************************************)
(* The lane implements the mailbox: every step of it is a step of the      *)
(* mailbox, or none.                                                       *)
(***************************************************************************)

Busy(l) == IF running[l] THEN onItem[Pin[l]] ELSE NoJob

LEMMA Unseen ==
    ASSUME UNCHANGED <<items, running, onItem, closed>>
    PROVE  UNCHANGED Abstract!mailbox
BY DEF Abstract!mailbox

LEMMA EnqueueAccepts ==
    ASSUME Inv, NEW j \in Jobs, NEW key \in KeysOf[j], Enqueue(j, key)
    PROVE  Abstract!Accept(j)
<1>1. /\ ~closed[LaneOf[j]] /\ ~(Len(items[LaneOf[j]]) >= Capacity)
      /\ items' = [items EXCEPT ![LaneOf[j]] = Append(items[LaneOf[j]], j)]
      /\ UNCHANGED <<running, onItem, closed>>
  BY DEF Enqueue, Enqueued, Sealed, MailboxFull, threads
<1>2. Len(items[LaneOf[j]]) < Capacity
  BY <1>1, SerialLaneAssumption DEF Inv, TypeOK
<1> QED
  BY <1>1, <1>2 DEF Abstract!Accept

LEMMA TakeItemBegins ==
    ASSUME Inv, NEW w \in Workers, TakeItem(w), NEW l \in Lanes, onLane[w] = l
    PROVE  Abstract!Begin(l)
<1> DEFINE i == Head(items[l])
<1>1. worker[w] = "popped" /\ Pin[l] = w
  BY DEF TakeItem, Inv, WorkerOK, Holding
<1>2. /\ items[l] # <<>> /\ items' = [items EXCEPT ![l] = Tail(items[l])]
      /\ running' = [running EXCEPT ![l] = TRUE] /\ onItem' = [onItem EXCEPT ![w] = i]
      /\ closed' = closed
  BY DEF TakeItem
<1>3. ~running[l]
  BY <1>1 DEF Inv, RunningOK, WithItem
<1>4. ASSUME NEW m \in Lanes PROVE Busy(m)' = IF m = l THEN i ELSE Busy(m)
  <2>1. CASE m = l
    BY <1>1, <1>2, <2>1 DEF Busy, Inv, TypeOK
  <2>2. CASE m # l
    <3>1. running'[m] = running[m]
      BY <1>2, <2>2 DEF Inv, TypeOK
    <3>2. running[m] => Pin[m] # w
      BY <1>1, <2>2 DEF Inv, RunningOK, WithItem
    <3> QED
      BY <1>2, <2>2, <3>1, <3>2 DEF Busy
  <2> QED
    BY <2>1, <2>2
<1>5. [m \in Lanes |-> Busy(m)]' = [[m \in Lanes |-> Busy(m)] EXCEPT ![l] = i]
  BY <1>1, <1>4
<1>6. Busy(l) = NoJob
  BY <1>3 DEF Busy
<1> QED
  BY <1>1, <1>2, <1>5, <1>6 DEF Abstract!Begin, Busy

LEMMA FinishItemEnds ==
    ASSUME Inv, NEW w \in Workers, FinishItem(w), NEW l \in Lanes, onLane[w] = l
    PROVE  Abstract!End(l)
<1>1. worker[w] = "finishing" /\ Pin[l] = w /\ running[l] /\ onItem[w] \in Jobs
  BY DEF FinishItem, Inv, WorkerOK, Holding, WithItem
<1>2. /\ running' = [running EXCEPT ![l] = FALSE] /\ onItem' = [onItem EXCEPT ![w] = NoJob]
      /\ items' = items /\ closed' = closed
  BY DEF FinishItem
<1>4. ASSUME NEW m \in Lanes PROVE Busy(m)' = IF m = l THEN NoJob ELSE Busy(m)
  <2>1. CASE m = l
    BY <1>1, <1>2, <2>1 DEF Busy, Inv, TypeOK
  <2>2. CASE m # l
    <3>1. running'[m] = running[m]
      BY <1>2, <2>2 DEF Inv, TypeOK
    <3>2. running[m] => Pin[m] # w
      BY <1>1, <2>2 DEF Inv, RunningOK
    <3> QED
      BY <1>2, <2>2, <3>1, <3>2 DEF Busy
  <2> QED
    BY <2>1, <2>2
<1>5. [m \in Lanes |-> Busy(m)]' = [[m \in Lanes |-> Busy(m)] EXCEPT ![l] = NoJob]
  BY <1>1, <1>4
<1>6. Busy(l) # NoJob
  BY <1>1, SerialLaneAssumption DEF Busy
<1> QED
  BY <1>1, <1>2, <1>5, <1>6 DEF Abstract!End, Busy

LEMMA SealSeals ==
    ASSUME Inv, NEW c \in Closers, NEW l \in Lanes, NEW withdraw \in BOOLEAN, Seal(c, l, withdraw)
    PROVE  Abstract!Seal(l)
<1>1. /\ closed' = [closed EXCEPT ![l] = TRUE]
      /\ items' = items \/ items' = [items EXCEPT ![l] = <<>>]
      /\ UNCHANGED <<running, onItem>>
  BY DEF Seal, threads
<1> QED
  BY <1>1 DEF Abstract!Seal

\* What submissions, workers and closes do to a lane is what a bounded FIFO mailbox
\* does that executes one item at a time (the safety part of ImplementsMailbox).
THEOREM LanesAreMailboxes == Spec => Abstract!Init /\ [][Abstract!Next]_(Abstract!mailbox)
<1>1. Init => Abstract!Init
  BY DEF Init, Abstract!Init
<1>2. Inv /\ [Next]_vars => [Abstract!Next]_(Abstract!mailbox)
  <2> SUFFICES ASSUME Inv, [Next]_vars PROVE Abstract!Next \/ UNCHANGED Abstract!mailbox
    OBVIOUS
  <2> USE DEF mailboxes, futures, threads, closing
  <2>1. ASSUME NEW j \in Jobs, Submit(j) PROVE Abstract!Next \/ UNCHANGED Abstract!mailbox
    <3>1. ASSUME NEW k \in KeysOf[j], Enqueue(j, k) PROVE Abstract!Next
      BY <3>1, EnqueueAccepts DEF Abstract!Next
    <3>2. ASSUME NEW k \in KeysOf[j], Coalesce(j, k) \/ Refuse(j, k)
          PROVE  UNCHANGED Abstract!mailbox
      BY <3>2, Unseen DEF Coalesce, Refuse
    <3>3. CASE Publish(j) \/ CancelJob(j)
      BY <3>3, Unseen DEF Publish, CancelJob
    <3> QED
      BY <2>1, <3>1, <3>2, <3>3 DEF Submit
  <2>2. ASSUME NEW w \in Workers, Work(w) PROVE Abstract!Next \/ UNCHANGED Abstract!mailbox
    <3>1. CASE TakeItem(w)
      <4>1. PICK l \in Lanes : onLane[w] = l
        BY <3>1 DEF TakeItem, Inv, WorkerOK, Holding
      <4> QED
        BY <3>1, <4>1, TakeItemBegins DEF Abstract!Next
    <3>2. CASE FinishItem(w)
      <4>1. PICK l \in Lanes : onLane[w] = l
        BY <3>2 DEF FinishItem, Inv, WorkerOK, Holding, WithItem
      <4> QED
        BY <3>2, <4>1, FinishItemEnds DEF Abstract!Next
    <3>3. CASE PopToken(w) \/ Exit(w) \/ TakeNothing(w) \/ Claim(w) \/ Execute(w) \/ Reschedule(w)
      BY <3>3, Unseen DEF PopToken, Exit, TakeNothing, Claim, Execute, Reschedule
    <3> QED
      BY <2>2, <3>1, <3>2, <3>3 DEF Work
  <2>3. ASSUME NEW c \in Closers, Close(c) PROVE Abstract!Next \/ UNCHANGED Abstract!mailbox
    <3>1. CASE CloseLane(c)
      <4>1. TargetOf[c] \in Lanes /\ Seal(c, TargetOf[c], FALSE)
        BY <3>1, SerialLaneAssumption DEF CloseLane
      <4> QED
        BY <4>1, SealSeals DEF Abstract!Next
    <3>2. ASSUME NEW l \in Lanes, ShutdownSeals(c, l) PROVE Abstract!Next
      BY <3>2, SealSeals DEF ShutdownSeals, Abstract!Next
    <3>3. CASE ShutdownBegins(c) \/ Drained(c) \/ ShutdownStopsWorkers(c) \/ ShutdownJoins(c)
      BY <3>3, Unseen DEF ShutdownBegins, Drained, ShutdownStopsWorkers, ShutdownJoins
    <3> QED
      BY <2>3, <3>1, <3>2, <3>3 DEF Close
  <2>4. CASE UNCHANGED vars
    BY <2>4, Unseen DEF vars
  <2> QED
    BY <2>1, <2>2, <2>3, <2>4 DEF Next
<1> QED
  BY <1>1, <1>2, Invariance, PTL DEF Spec

-----------------------------------------------------------------------------
(***************************************************************************)
(* Lanes whose jobs do not share keys.                                     *)
(***************************************************************************)

NoSharedKey ==
    \A i, j \in Jobs : LaneOf[i] = LaneOf[j] /\ KeysOf[i] \cap KeysOf[j] \cap Keys # {} => i = j

\* An item is watched by its own job alone and runs that job's function.
SoloOK ==
    /\ \A j \in Jobs : watchers[j] \subseteq {j} /\ fn[j] = j
    /\ \A l \in Lanes, k \in Keys : coalesced[l][k] # NoJob => k \in KeysOf[coalesced[l][k]]
    /\ CancelStaysWithWatcher

\* What is open stays open under its key, or is closed.
OpenItemsShrink == \A l \in Lanes, k \in Keys : coalesced'[l][k] \in {coalesced[l][k], NoJob}

LEMMA SoloKept ==
    ASSUME SoloOK, UNCHANGED <<watchers, fn>>, OpenItemsShrink,
           \A j \in Jobs : token[j] => token'[j],
           \A j \in Jobs : future'[j] = "cancelled" => future[j] = "cancelled" \/ token[j]
    PROVE  SoloOK'
<1>1. CancelStaysWithWatcher'
  BY DEF SoloOK, CancelStaysWithWatcher
<1>2. \A l \in Lanes, k \in Keys : coalesced'[l][k] # NoJob => k \in KeysOf[coalesced'[l][k]]
  BY DEF SoloOK, OpenItemsShrink
<1> QED
  BY <1>1, <1>2 DEF SoloOK

LEMMA SoloEnqueue ==
    ASSUME Inv, SoloOK, NEW j \in Jobs, NEW key \in KeysOf[j], Enqueue(j, key)
    PROVE  SoloOK'
<1> USE SerialLaneAssumption DEF Enqueue
<1>1. \A i \in Jobs : watchers'[i] \subseteq {i} /\ fn'[i] = i
  BY DEF Inv, TypeOK, SoloOK
<1>2. ASSUME NEW l \in Lanes, NEW k \in Keys, coalesced'[l][k] # NoJob
      PROVE  k \in KeysOf[coalesced'[l][k]]
  <2>1. CASE key = NoKey
    BY <1>2, <2>1 DEF SoloOK
  <2>2. CASE key # NoKey
    <3>1. coalesced' = [coalesced EXCEPT ![LaneOf[j]][key] = j]
      BY <2>2
    <3>2. coalesced'[l][k] = IF l = LaneOf[j] /\ k = key THEN j ELSE coalesced[l][k]
      BY <3>1 DEF Inv, TypeOK
    <3> QED
      BY <1>2, <3>2 DEF SoloOK
  <2> QED
    BY <2>1, <2>2
<1>3. CancelStaysWithWatcher'
  BY DEF Inv, TypeOK, SoloOK, CancelStaysWithWatcher
<1> QED
  BY <1>1, <1>2, <1>3 DEF SoloOK

\* Without shared keys no job ever finds an item to join.
LEMMA SoloNeverJoins ==
    ASSUME NoSharedKey, Inv, SoloOK, NEW j \in Jobs, NEW key \in KeysOf[j]
    PROVE  ~Coalesce(j, key)
<1> SUFFICES ASSUME Coalesce(j, key) PROVE FALSE
  OBVIOUS
<1> DEFINE i == coalesced[LaneOf[j]][key]
<1>1. submitter[j] = "idle" /\ key # NoKey /\ i # NoJob
  BY DEF Coalesce, OpenItem
<1>2. LaneOf[j] \in Lanes /\ key \in Keys
  BY <1>1, SerialLaneAssumption
<1>3. i \in Jobs
  BY <1>1, <1>2 DEF Inv, TypeOK
<1>4. LaneOf[i] = LaneOf[j] /\ submitter[i] # "idle"
  BY <1>1, <1>2, <1>3 DEF Inv, ItemsOK
<1>5. key \in KeysOf[i] \cap KeysOf[j] \cap Keys
  BY <1>1, <1>2 DEF SoloOK
<1> HIDE DEF i
<1> QED
  BY <1>1, <1>3, <1>4, <1>5 DEF NoSharedKey

LEMMA SoloStep ==
    ASSUME NoSharedKey, Inv, SoloOK, Next
    PROVE  SoloOK'
<1> USE DEF mailboxes, futures, threads, closing
<1>1. ASSUME NEW j \in Jobs, Submit(j) PROVE SoloOK'
  <2>1. ASSUME NEW key \in KeysOf[j], Enqueue(j, key) PROVE SoloOK'
    BY <2>1, SoloEnqueue
  <2>2. ASSUME NEW key \in KeysOf[j], Refuse(j, key) PROVE SoloOK'
    BY <2>2, SoloKept DEF Refuse, OpenItemsShrink
  <2>4. CASE Publish(j)
    BY <2>4, SoloKept DEF Publish, OpenItemsShrink
  <2>3. CASE CancelJob(j)
    <3>1. \A i \in Jobs : (token[i] => token'[i]) /\ (future'[i] = "cancelled" => future[i] = "cancelled")
      BY <2>3 DEF CancelJob, Inv, TypeOK
    <3> QED
      BY <2>3, <3>1, SoloKept DEF CancelJob, OpenItemsShrink
  <2> QED
    BY <1>1, <2>1, <2>2, <2>3, <2>4, SoloNeverJoins DEF Submit
<1>2. ASSUME NEW w \in Workers, Work(w) PROVE SoloOK'
  <2>1. CASE PopToken(w) \/ Exit(w) \/ TakeNothing(w) \/ FinishItem(w) \/ Reschedule(w)
    BY <2>1, SoloKept
       DEF PopToken, Exit, TakeNothing, FinishItem, Reschedule, OpenItemsShrink
  <2>2. CASE TakeItem(w)
    <3>1. onLane[w] \in Lanes
      BY <2>2 DEF TakeItem, Inv, WorkerOK, Holding
    <3>2. OpenItemsShrink
      BY <2>2, <3>1 DEF TakeItem, OpenItemsShrink, OpenItemsOnTake, Inv, TypeOK
    <3> QED
      BY <2>2, <3>2, SoloKept DEF TakeItem
  <2>3. CASE Claim(w)
    <3>1. OpenItemsShrink /\ UNCHANGED <<watchers, fn, token>>
      BY <2>3 DEF Claim, OpenItemsShrink
    <3>2. \A j \in Jobs : future'[j] = "cancelled" => future[j] = "cancelled"
      BY <2>3 DEF Claim
    <3> QED
      BY <3>1, <3>2, SoloKept
  <2>4. CASE Execute(w)
    <3>1. OpenItemsShrink /\ UNCHANGED <<watchers, fn, token>>
      BY <2>4 DEF Execute, OpenItemsShrink
    <3>2. onItem[w] \in Jobs
      BY <2>4 DEF Execute, Inv, WorkerOK, WithItem
    <3>3. ASSUME NEW j \in Jobs, future'[j] = "cancelled" PROVE future[j] = "cancelled" \/ token[j]
      <4>1. PICK r \in IF token[fn[onItem[w]]] THEN {"cancelled", "error"} ELSE {"value", "error"} :
               future'[j] = IF j \in watchers[onItem[w]] /\ future[j] = "running" THEN r ELSE future[j]
        BY <2>4 DEF Execute
      <4>2. j \in watchers[onItem[w]] => j = onItem[w] /\ fn[onItem[w]] = j
        BY <3>2 DEF SoloOK
      <4> QED
        BY <3>3, <4>1, <4>2
    <3> QED
      BY <3>1, <3>3, SoloKept
  <2> QED
    BY <1>2, <2>1, <2>2, <2>3, <2>4 DEF Work
<1>3. ASSUME NEW c \in Closers, NEW l \in Lanes, NEW b \in BOOLEAN, Seal(c, l, b) PROVE SoloOK'
  <2>1. OpenItemsShrink /\ UNCHANGED <<watchers, fn, token>>
    <3>1. CASE coalesced' = coalesced
      BY <1>3, <3>1 DEF Seal, OpenItemsShrink
    <3>2. CASE coalesced' = [coalesced EXCEPT ![l] = OpenItemsOnWithdrawal(l)]
      <4>1. \A k \in Keys : OpenItemsOnWithdrawal(l)[k] \in {coalesced[l][k], NoJob}
        BY DEF OpenItemsOnWithdrawal
      <4> QED
        BY <1>3, <3>2, <4>1 DEF Seal, OpenItemsShrink, Inv, TypeOK
    <3> QED
      BY <1>3, <3>1, <3>2 DEF Seal
  <2>2. \A j \in Jobs : future'[j] = "cancelled" => future[j] = "cancelled"
    BY <1>3 DEF Seal
  <2> QED
    BY <2>1, <2>2, SoloKept
<1>4. ASSUME NEW c \in Closers, Close(c) PROVE SoloOK'
  <2>1. CASE ShutdownBegins(c) \/ Drained(c) \/ ShutdownStopsWorkers(c) \/ ShutdownJoins(c)
    BY <2>1, SoloKept
       DEF ShutdownBegins, Drained, ShutdownStopsWorkers, ShutdownJoins, OpenItemsShrink
  <2>2. CASE CloseLane(c)
    BY <1>3, <2>2, SerialLaneAssumption DEF CloseLane
  <2>3. ASSUME NEW l \in Lanes, ShutdownSeals(c, l) PROVE SoloOK'
    BY <1>3, <2>3 DEF ShutdownSeals
  <2> QED
    BY <1>4, <2>1, <2>2, <2>3 DEF Close
<1> QED
  BY <1>1, <1>2, <1>4 DEF Next

\* A job that shares its key with no other is cancelled by its own handle only:
\* cancellation spreads over coalesced watchers and by no other way.
THEOREM CancellationSpreadsByKeyOnly ==
    ASSUME NoSharedKey
    PROVE  Spec => []CancelStaysWithWatcher
<1>1. Init => SoloOK
  BY DEF Init, SoloOK, CancelStaysWithWatcher
<1>2. Inv /\ SoloOK /\ [Next]_vars => SoloOK'
  <2>1. SoloOK /\ UNCHANGED vars => SoloOK'
    BY DEF SoloOK, CancelStaysWithWatcher, vars, mailboxes, futures
  <2> QED
    BY <2>1, SoloStep
<1>3. SoloOK => CancelStaysWithWatcher
  BY DEF SoloOK
<1> QED
  BY <1>1, <1>2, <1>3, Invariance, PTL DEF Spec
=============================================================================
