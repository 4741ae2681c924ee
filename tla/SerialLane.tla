----------------------------- MODULE SerialLane -----------------------------
(***************************************************************************)
(* SharedSerialExecutionLane and SharedSerialExecutionLaneFactory.         *)
(*                                                                         *)
(* A lane is a mailbox with a scheduled flag.  Whoever puts an item into   *)
(* an unscheduled lane publishes one token for it in the ready queue of    *)
(* the worker the lane is pinned to, after releasing the lane's condition. *)
(* The worker consumes the token, executes one item, and publishes the     *)
(* token again while items remain.                                         *)
(*                                                                         *)
(* A work item is named by the job (submission) that created it; jobs that *)
(* coalesce into it add a future and replace its function.                 *)
(***************************************************************************)
EXTENDS Naturals, Sequences, FiniteSets

CONSTANTS
    Lanes, Workers, Jobs, Keys,
    Pin,           \* Pin[l]: _worker_index of lane l
    LaneOf,        \* LaneOf[j]: the lane job j is submitted to
    KeysOf,        \* KeysOf[j]: the coalesce keys it may come with, NoKey for none
    Capacity,      \* mailbox capacity of every lane
    Shutdowns,     \* threads that call the factory's close(cancel_pending=True)
    LaneClosers,   \* threads that close one lane with cancel_pending=False
    TargetOf,      \* TargetOf[c]: the lane a lane closer closes
    Cancellable,   \* jobs whose owner may cancel them
    Patient,       \* the closing threads whose deadline does not expire
    NoKey, NoJob, NoLane

ASSUME SerialLaneAssumption ==
    /\ Pin \in [Lanes -> Workers]
    /\ LaneOf \in [Jobs -> Lanes]
    /\ KeysOf \in [Jobs -> SUBSET (Keys \cup {NoKey})]
    /\ NoKey \notin Keys /\ NoJob \notin Jobs /\ NoLane \notin Lanes
    /\ Capacity \in Nat \ {0}
    /\ TargetOf \in [LaneClosers -> Lanes]
    /\ Shutdowns \cap LaneClosers = {}
    /\ IsFiniteSet(Lanes)

VARIABLES
    items,      \* _items of each lane
    coalesced,  \* _coalesced of each lane: the open item of each key
    closed, scheduled, running,  \* the lane's flags
    watchers,   \* futures of the item a job created
    fn,         \* the job whose function that item will call
    future,     \* state of each job's future
    token,      \* whether the job's own cancellation token is cancelled
    submitter,  \* where the thread submitting each job is
    ready,      \* _ready: the tokens of each worker
    worker,     \* where each worker thread is
    onLane,     \* lane, local to a worker
    onItem,     \* item, local to a worker
    factoryClosed,  \* _closed of the factory
    closer,     \* where each closing thread is
    target,     \* the lane it is closing
    todo,       \* lanes a shutdown still has to close
    erred       \* whether one of its waits timed out

mailboxes == <<items, coalesced, closed, scheduled, running>>
futures   == <<watchers, fn, future, token>>
threads   == <<ready, worker, onLane, onItem>>
closing   == <<closer, target, todo, erred>>
vars == <<mailboxes, futures, submitter, threads, factoryClosed, closing>>

Closers == Shutdowns \cup LaneClosers
Resolved == {"value", "error", "withdrawn", "cancelled"}
WorkerPcs == {"waiting", "popped", "claiming", "executing", "finishing",
              "rescheduling", "dead", "exited"}

Init ==
    /\ items = [l \in Lanes |-> <<>>]
    /\ coalesced = [l \in Lanes |-> [k \in Keys |-> NoJob]]
    /\ closed = [l \in Lanes |-> FALSE]
    /\ scheduled = [l \in Lanes |-> FALSE]
    /\ running = [l \in Lanes |-> FALSE]
    /\ watchers = [j \in Jobs |-> {}]
    /\ fn = [j \in Jobs |-> j]
    /\ future = [j \in Jobs |-> "none"]
    /\ token = [j \in Jobs |-> FALSE]
    /\ submitter = [j \in Jobs |-> "idle"]
    /\ ready = [w \in Workers |-> <<>>]
    /\ worker = [w \in Workers |-> "waiting"]
    /\ onLane = [w \in Workers |-> NoLane]
    /\ onItem = [w \in Workers |-> NoJob]
    /\ factoryClosed = FALSE
    /\ closer = [c \in Closers |-> "idle"]
    /\ target = [c \in Closers |-> NoLane]
    /\ todo = [c \in Closers |-> {}]
    /\ erred = [c \in Closers |-> FALSE]

-----------------------------------------------------------------------------
(***************************************************************************)
(* Faulty forms of definitions below, for the mutation runs.               *)
(***************************************************************************)
MustPublishAlways(l) == TRUE
MailboxFullOffByOne(l) == Len(items[l]) > Capacity
ReschedulesNever(l) == FALSE
SealedByFactoryOnly(l) == factoryClosed
OpenItemsKeptOnWithdrawal(l) == coalesced[l]
EnqueuedInFront(l, j) == <<j>> \o items[l]

-----------------------------------------------------------------------------
(***************************************************************************)
(* Submission: try_submit, try_coalesce and try_submit_coalesced.          *)
(***************************************************************************)

MailboxFull(l) == Len(items[l]) >= Capacity

\* _enqueue tells the caller to publish a token when none is outstanding.
MustPublish(l) == ~scheduled[l]

\* The item that job j with key k can join.
OpenItem(j, k) == IF k = NoKey THEN NoJob ELSE coalesced[LaneOf[j]][k]

\* Every form of submission tests the lane's closed flag under its condition.
Sealed(l) == closed[l]

Enqueued(l, j) == Append(items[l], j)

\* A new item at the back of the mailbox.
Enqueue(j, k) ==
    LET l == LaneOf[j] IN
    /\ submitter[j] = "idle"
    /\ ~Sealed(l) /\ ~token[j]
    /\ OpenItem(j, k) = NoJob /\ ~MailboxFull(l)
    /\ items' = [items EXCEPT ![l] = Enqueued(l, j)]
    /\ scheduled' = [scheduled EXCEPT ![l] = TRUE]
    /\ submitter' = [submitter EXCEPT ![j] = IF MustPublish(l) THEN "publishing" ELSE "accepted"]
    /\ coalesced' = IF k = NoKey THEN coalesced ELSE [coalesced EXCEPT ![l][k] = j]
    /\ watchers' = [watchers EXCEPT ![j] = {j}]
    /\ future' = [future EXCEPT ![j] = "pending"]
    /\ UNCHANGED <<closed, running, fn, token, threads, factoryClosed, closing>>

\* A job with the key of an item still in the mailbox joins it.
Coalesce(j, k) ==
    LET i == OpenItem(j, k) IN
    /\ submitter[j] = "idle"
    /\ ~Sealed(LaneOf[j]) /\ ~token[j]
    /\ i # NoJob
    /\ fn' = [fn EXCEPT ![i] = j]
    /\ watchers' = [watchers EXCEPT ![i] = @ \cup {j}]
    /\ future' = [future EXCEPT ![j] = "pending"]
    /\ submitter' = [submitter EXCEPT ![j] = "accepted"]
    /\ UNCHANGED <<mailboxes, token, threads, factoryClosed, closing>>

\* Lane closed, token cancelled, or mailbox full under the REJECT policy.  (WAIT
\* tries again later: the action is then simply not taken.)
Refuse(j, k) ==
    /\ submitter[j] = "idle"
    /\ Sealed(LaneOf[j]) \/ token[j] \/ (OpenItem(j, k) = NoJob /\ MailboxFull(LaneOf[j]))
    /\ submitter' = [submitter EXCEPT ![j] = "refused"]
    /\ UNCHANGED <<mailboxes, futures, threads, factoryClosed, closing>>

\* _schedule, after the lane's condition was released.  On a closed factory it
\* raises out of the submission; the item stays where it is.
Publish(j) ==
    /\ submitter[j] = "publishing"
    /\ IF factoryClosed
       THEN /\ submitter' = [submitter EXCEPT ![j] = "refused"]
            /\ UNCHANGED ready
       ELSE /\ submitter' = [submitter EXCEPT ![j] = "accepted"]
            /\ ready' = [ready EXCEPT ![Pin[LaneOf[j]]] = Append(@, LaneOf[j])]
    /\ UNCHANGED <<mailboxes, futures, worker, onLane, onItem, factoryClosed, closing>>

\* The owner cancels the job through its handle: its token, and its future
\* unless a worker has claimed it.
CancelJob(j) ==
    /\ j \in Cancellable /\ future[j] \in {"pending", "running"} /\ ~token[j]
    /\ token' = [token EXCEPT ![j] = TRUE]
    /\ future' = [future EXCEPT ![j] = IF @ = "pending" THEN "withdrawn" ELSE @]
    /\ UNCHANGED <<mailboxes, watchers, fn, submitter, threads, factoryClosed, closing>>

-----------------------------------------------------------------------------
(***************************************************************************)
(* The worker loop.                                                        *)
(***************************************************************************)
WorkerGoes(w, pc) == worker' = [worker EXCEPT ![w] = pc]

PopToken(w) ==
    /\ worker[w] = "waiting" /\ ready[w] # <<>>
    /\ onLane' = [onLane EXCEPT ![w] = Head(ready[w])]
    /\ ready' = [ready EXCEPT ![w] = Tail(@)]
    /\ WorkerGoes(w, "popped")
    /\ UNCHANGED <<mailboxes, futures, submitter, onItem, factoryClosed, closing>>

Exit(w) ==
    /\ worker[w] = "waiting" /\ ready[w] = <<>> /\ factoryClosed
    /\ WorkerGoes(w, "exited")
    /\ UNCHANGED <<mailboxes, futures, submitter, ready, onLane, onItem, factoryClosed,
                   closing>>

\* _take_owned_item without an item: a close withdrew them all.  On a lane that is
\* not scheduled it raises, which ends the worker thread.
TakeNothing(w) ==
    LET l == onLane[w] IN
    /\ worker[w] = "popped" /\ (scheduled[l] => items[l] = <<>>)
    /\ scheduled' = [scheduled EXCEPT ![l] = FALSE]
    /\ WorkerGoes(w, IF scheduled[l] THEN "waiting" ELSE "dead")
    /\ UNCHANGED <<items, coalesced, closed, running, futures, submitter, ready, onLane,
                   onItem, factoryClosed, closing>>

\* An item that leaves the mailbox can no longer be joined.
OpenItemsOnTake(l, i) ==
    [k \in Keys |-> IF coalesced[l][k] = i THEN NoJob ELSE coalesced[l][k]]

TakeItem(w) ==
    LET l == onLane[w]
        i == Head(items[l])
    IN /\ worker[w] = "popped" /\ scheduled[l] /\ items[l] # <<>>
       /\ running' = [running EXCEPT ![l] = TRUE]
       /\ items' = [items EXCEPT ![l] = Tail(@)]
       /\ coalesced' = [coalesced EXCEPT ![l] = OpenItemsOnTake(l, i)]
       /\ onItem' = [onItem EXCEPT ![w] = i]
       /\ WorkerGoes(w, "claiming")
       /\ UNCHANGED <<closed, scheduled, futures, submitter, ready, onLane, factoryClosed,
                      closing>>

\* set_running_or_notify_cancel on every future; without a live one the function
\* is not called.
Claim(w) ==
    LET live == {j \in watchers[onItem[w]] : future[j] = "pending"} IN
    /\ worker[w] = "claiming"
    /\ future' = [j \in Jobs |-> IF j \in live THEN "running" ELSE future[j]]
    /\ WorkerGoes(w, IF live = {} THEN "finishing" ELSE "executing")
    /\ UNCHANGED <<mailboxes, watchers, fn, token, submitter, ready, onLane, onItem,
                   factoryClosed, closing>>

\* The item's function ends and resolves the claimed futures.  It is the invoke
\* of the job that came last, whose checkpoints test that job's token: the one
\* after the body always does.
Execute(w) ==
    LET i == onItem[w]
        ends == IF token[fn[i]] THEN {"cancelled", "error"} ELSE {"value", "error"}
    IN /\ worker[w] = "executing"
       /\ \E r \in ends :
             future' = [j \in Jobs |-> IF j \in watchers[i] /\ future[j] = "running"
                                       THEN r ELSE future[j]]
       /\ WorkerGoes(w, "finishing")
       /\ UNCHANGED <<mailboxes, watchers, fn, token, submitter, ready, onLane, onItem,
                      factoryClosed, closing>>

\* _finish_owned_item: the lane stays scheduled while items remain.
Reschedules(l) == items[l] # <<>>

FinishItem(w) ==
    LET l == onLane[w] IN
    /\ worker[w] = "finishing"
    /\ running' = [running EXCEPT ![l] = FALSE]
    /\ onItem' = [onItem EXCEPT ![w] = NoJob]
    /\ IF Reschedules(l)
       THEN /\ WorkerGoes(w, "rescheduling")
            /\ UNCHANGED scheduled
       ELSE /\ WorkerGoes(w, "waiting")
            /\ scheduled' = [scheduled EXCEPT ![l] = FALSE]
    /\ UNCHANGED <<items, coalesced, closed, futures, submitter, ready, onLane,
                   factoryClosed, closing>>

\* _schedule from the worker: on a closed factory the exception ends the thread.
Reschedule(w) ==
    /\ worker[w] = "rescheduling"
    /\ IF factoryClosed
       THEN /\ WorkerGoes(w, "dead")
            /\ UNCHANGED ready
       ELSE /\ WorkerGoes(w, "waiting")
            /\ ready' = [ready EXCEPT ![Pin[onLane[w]]] = Append(@, onLane[w])]
    /\ UNCHANGED <<mailboxes, futures, submitter, onLane, onItem, factoryClosed, closing>>

-----------------------------------------------------------------------------
(***************************************************************************)
(* Closing a lane, and the factory.                                        *)
(***************************************************************************)
CloserGoes(c, pc) == closer' = [closer EXCEPT ![c] = pc]

OpenItemsOnWithdrawal(l) ==
    [k \in Keys |-> IF coalesced[l][k] \in {items[l][n] : n \in DOMAIN items[l]}
                    THEN NoJob ELSE coalesced[l][k]]

\* The scheduled flag after a close withdrew the items: a token may be published
\* already, so the flag stays until the worker consumes it.
ScheduledAfterWithdrawal(l) == scheduled[l]

\* lane.close(cancel_pending=withdraw), up to its wait.
Seal(c, l, withdraw) ==
    /\ closed' = [closed EXCEPT ![l] = TRUE]
    /\ IF withdraw
       THEN LET gone == UNION {watchers[items[l][n]] : n \in DOMAIN items[l]} IN
            /\ items' = [items EXCEPT ![l] = <<>>]
            /\ coalesced' = [coalesced EXCEPT ![l] = OpenItemsOnWithdrawal(l)]
            /\ future' = [j \in Jobs |-> IF j \in gone /\ future[j] = "pending"
                                         THEN "withdrawn" ELSE future[j]]
            /\ scheduled' = [scheduled EXCEPT ![l] = ScheduledAfterWithdrawal(l)]
       ELSE UNCHANGED <<items, coalesced, future, scheduled>>
    /\ target' = [target EXCEPT ![c] = l]
    /\ CloserGoes(c, "draining")
    /\ UNCHANGED <<running, watchers, fn, token, submitter, threads, factoryClosed>>

CloseLane(c) ==
    /\ c \in LaneClosers /\ closer[c] = "idle"
    /\ Seal(c, TargetOf[c], FALSE)
    /\ UNCHANGED <<todo, erred>>

\* factory.close lists the lanes; the runtime runs one shutdown at a time.
ShutdownBegins(c) ==
    /\ c \in Shutdowns /\ closer[c] = "idle"
    /\ \A d \in Shutdowns : closer[d] \in {"idle", "converged", "failed"}
    /\ todo' = [todo EXCEPT ![c] = Lanes]
    /\ CloserGoes(c, "visiting")
    /\ UNCHANGED <<mailboxes, futures, submitter, threads, factoryClosed, target, erred>>

\* It closes them one after the other, withdrawing what has not begun.
ShutdownSeals(c, l) ==
    /\ closer[c] = "visiting" /\ l \in todo[c]
    /\ Seal(c, l, TRUE)
    /\ todo' = [todo EXCEPT ![c] = @ \ {l}]
    /\ UNCHANGED erred

\* What lane.close waits for.
LaneConverged(l) == ~running[l] /\ ~scheduled[l] /\ items[l] = <<>>

\* The wait of lane.close ends: the lane has converged, or the deadline expired.
Drained(c) ==
    /\ closer[c] = "draining"
    /\ \/ LaneConverged(target[c]) /\ UNCHANGED erred
       \/ /\ c \notin Patient /\ ~LaneConverged(target[c])
          /\ erred' = [erred EXCEPT ![c] = TRUE]
    /\ CloserGoes(c, IF c \in Shutdowns THEN "visiting"
                     ELSE IF erred'[c] THEN "failed" ELSE "converged")
    /\ UNCHANGED <<mailboxes, futures, submitter, threads, factoryClosed, target, todo>>

\* Every lane was visited: seal the factory and wake the workers.
ShutdownStopsWorkers(c) ==
    /\ closer[c] = "visiting" /\ todo[c] = {}
    /\ factoryClosed' = TRUE
    /\ CloserGoes(c, "joining")
    /\ UNCHANGED <<mailboxes, futures, submitter, threads, target, todo, erred>>

WorkersEnded == \A w \in Workers : worker[w] \in {"exited", "dead"}

\* thread.join on every worker.
ShutdownJoins(c) ==
    /\ closer[c] = "joining"
    /\ WorkersEnded \/ c \notin Patient
    /\ erred' = [erred EXCEPT ![c] = @ \/ ~WorkersEnded]
    /\ CloserGoes(c, IF erred'[c] THEN "failed" ELSE "converged")
    /\ UNCHANGED <<mailboxes, futures, submitter, threads, factoryClosed, target, todo>>

-----------------------------------------------------------------------------
Submit(j) ==
    \/ \E k \in KeysOf[j] : Enqueue(j, k) \/ Coalesce(j, k) \/ Refuse(j, k)
    \/ Publish(j) \/ CancelJob(j)

Work(w) ==
    \/ PopToken(w) \/ Exit(w) \/ TakeNothing(w) \/ TakeItem(w)
    \/ Claim(w) \/ Execute(w) \/ FinishItem(w) \/ Reschedule(w)
Close(c) ==
    \/ CloseLane(c) \/ ShutdownBegins(c) \/ Drained(c) \/ ShutdownStopsWorkers(c)
    \/ ShutdownJoins(c) \/ \E l \in Lanes : ShutdownSeals(c, l)

Next ==
    \/ \E j \in Jobs : Submit(j)
    \/ \E w \in Workers : Work(w)
    \/ \E c \in Closers : Close(c)

Spec == Init /\ [][Next]_vars

(***************************************************************************)
(* Fairness.  A submitting thread publishes the token it owes, workers and *)
(* started closes keep running, and the functions they call end.  Nothing  *)
(* obliges a thread to submit, cancel or close, or a deadline to expire.   *)
(***************************************************************************)
FairSpec ==
    /\ Spec
    /\ \A j \in Jobs : WF_vars(Publish(j))
    /\ \A w \in Workers : WF_vars(Work(w))
    /\ \A c \in Closers : WF_vars(closer[c] # "idle" /\ Close(c))

-----------------------------------------------------------------------------
(***************************************************************************)
(* Properties.                                                             *)
(***************************************************************************)

\* Every variable stays in the set its declaration describes; a mailbox holds at
\* most its capacity.
TypeOK ==
    /\ items \in [Lanes -> Seq(Jobs)] /\ \A l \in Lanes : Len(items[l]) <= Capacity
    /\ coalesced \in [Lanes -> [Keys -> Jobs \cup {NoJob}]]
    /\ closed \in [Lanes -> BOOLEAN] /\ scheduled \in [Lanes -> BOOLEAN]
    /\ running \in [Lanes -> BOOLEAN]
    /\ watchers \in [Jobs -> SUBSET Jobs] /\ fn \in [Jobs -> Jobs]
    /\ future \in [Jobs -> Resolved \cup {"none", "pending", "running"}]
    /\ token \in [Jobs -> BOOLEAN]
    /\ submitter \in [Jobs -> {"idle", "publishing", "accepted", "refused"}]
    /\ ready \in [Workers -> Seq(Lanes)]
    /\ worker \in [Workers -> WorkerPcs]
    /\ onLane \in [Workers -> Lanes \cup {NoLane}]
    /\ onItem \in [Workers -> Jobs \cup {NoJob}]
    /\ factoryClosed \in BOOLEAN
    /\ closer \in [Closers -> {"idle", "visiting", "draining", "joining", "converged", "failed"}]
    /\ target \in [Closers -> Lanes \cup {NoLane}]
    /\ todo \in [Closers -> SUBSET Lanes]
    /\ erred \in [Closers -> BOOLEAN]

\* The places a lane's token can be: a submitter about to publish it, the ready
\* queue, or a worker that holds the lane.
TokenPlaces(l) ==
    {<<"submitter", j>> : j \in {k \in Jobs : submitter[k] = "publishing" /\ LaneOf[k] = l}}
    \cup {<<"ready", n>> : n \in {m \in DOMAIN ready[Pin[l]] : ready[Pin[l]][m] = l}}
    \cup {<<"worker", w>> : w \in {v \in Workers :
              onLane[v] = l /\ worker[v] \notin {"waiting", "exited", "dead"}}}

\* A lane never has two tokens, and one that has a token is scheduled: so the
\* "scheduled-state corruption" error of _take_owned_item cannot end a worker
\* that other lanes depend on, whatever closes and coalescing do in between.
OneTokenPerLane ==
    \A l \in Lanes : /\ Cardinality(TokenPlaces(l)) <= 1
                     /\ TokenPlaces(l) # {} => scheduled[l]

\* No item waits in a mailbox without a token on its way, until a shutdown gave
\* up on its deadline: no wake-up is lost between the two conditions.
NoLostWakeup ==
    \A l \in Lanes : items[l] # <<>> /\ ~factoryClosed => TokenPlaces(l) # {}

\* A key leads only to an item that is still in the mailbox: a job never joins
\* an item that has begun, was executed, or was withdrawn.
OpenItemsAreQueued ==
    \A l \in Lanes, k \in Keys : coalesced[l][k] # NoJob =>
        \E n \in DOMAIN items[l] : items[l][n] = coalesced[l][k]

\* A close that returned normally left nothing on its lane (the factory's: on
\* no lane), and it stays so: no future is open and no function is running.
ClosedLaneIsQuiet ==
    \A c \in Closers : closer[c] = "converged" =>
        \A j \in Jobs : c \in Shutdowns \/ LaneOf[j] = TargetOf[c] =>
            future[j] \notin {"pending", "running"}

\* Every future a job got is resolved, whether or not lanes are closed and whichever
\* lanes share the worker: as each job is submitted once, again and again none is open.
AcceptedJobsResolve ==
    []<>(\A j \in Jobs : future[j] \notin {"pending", "running"})

\* The lane implements the bounded FIFO mailbox, its progress included: the item
\* in execution is the one a worker holds while the lane is running.
Abstract == INSTANCE Mailbox WITH
    Items <- Jobs, queue <- items, sealed <- closed, NoItem <- NoJob,
    busy <- [l \in Lanes |-> IF running[l] THEN onItem[Pin[l]] ELSE NoJob]
ImplementsMailbox == Abstract!Spec

\* tests/test_capacity_admission_scheduling_v1.py:470 (coalescing "survives
\* watcher cancel"): a job ends as cancelled only if it was cancelled itself.
CancelStaysWithWatcher == \A j \in Jobs : future[j] = "cancelled" => token[j]

\* platform/concurrency/runtime/runtime.py:208 ("a failed bounded close remains
\* sealed but is retryable so a later caller can prove physical convergence once
\* non-preemptive work has ended"): a shutdown without a deadline converges.
RetriedShutdownConverges ==
    \A c \in Shutdowns \cap Patient : closer[c] = "visiting" ~> closer[c] = "converged"
=============================================================================
