# Verification of the research platform's execution core

This directory holds TLA+ models of the concurrency, lease and effect core of
`research_platform`, the TLC runs that check them on small instances, and
TLAPS proofs of the properties that matter for every instance.  Paths below
are relative to the repository root; `concurrency/` stands for
`research_platform/platform/concurrency/`.

## 1. Inventory

### 1.1 Modelled, or planned

| Component | Source | State | Operations | What is hard |
|---|---|---|---|---|
| Task group | `concurrency/runtime/task_group.py`, `task_lifecycle.py` | active submissions, `closing`/`closed`/`converged`, verdict, completion event, two cancellation tokens, serial lane | submit (four lane kinds), schedule a recurring task, cancel, wait, close | submissions, ticks, cancellations and several closers interleave; closes are bounded and retried |
| Task state | `concurrency/runtime/task_state.py`, `cancellation.py` | one record per task: logical state, raw handle, deadline, failure | reserve, bind, mark, cancel, expire, synchronise with the raw handle | deadline, cancellation and completion race; fail-fast cascades |
| Serial lanes | `concurrency/providers/serial_lane.py` | mailbox, open items per coalesce key, `closed`/`scheduled`/`running` per lane; ready queue per worker | submit, coalesce, worker loop, lane close, factory close | one token per lane published outside the lane's lock; bounded closes |
| Admission | `execution/admission/runtime/authority.py`, `execution/scheduling/runtime/fair_priority.py` | five counters, waiters, selection cache, group recency | acquire (WAIT, REJECT), release, close | counters that must agree; a cached decision; starvation |
| Timer | `concurrency/providers/timer.py` | heap, live registrations, tombstones | schedule, cancel, run, close | cancel races with a running callback |
| Runtime | `concurrency/runtime/runtime.py` | groups, lanes, providers | create group, close | closes everything above, bounded and retried |
| Thread, process, async providers | `concurrency/providers/executors.py`, `async_io.py` | permits, futures | submit, cancel, close | a cancelled coroutine reports done early |
| Effect journal | `reliability/effect` | one durable record per external effect: phase and receipt | prepare, record result, reconcile, consume, mark not applied | what each transition may assume of a receipt that proves nothing |
| Workflows | `execution/workflow` (context action, agent turn) | the controller's step, lost in a crash | guard, execute, reconcile, complete, recover | a crash between the effect, its record, the completion and its record |
| Operations, commands | `execution/operation`, `command`, `lifecycle` | durable intent and progress records | prepare, dispatch, complete, recover | claims and retries |
| Resource leases | `resource/providers/sqlite_lease.py`, `sqlite_endpoint.py`, `resource/allocation/runtime` | lease, fencing and allocation rows | acquire, renew, release, allocate, confirm, reconcile, heartbeat | expiry, takeover and late holders; two tables that must agree; a time read before the lock |
| Branch runtime | `environment/minecraft/composition/branch_runtime.py` | its allocations, its heartbeat, what is still to release | open, close, close again | a release that fails, a tick under way, a process that died |

The lanes, admission and providers are called by `runtime/execution.py`, which
acquires a permit, hands the work to a provider and releases the permit in the
completion callback.  The group calls it within a submission scope (a counter
under the lifecycle condition); the timer thread calls it for recurring tasks
outside any scope.  Cancellation flows through tokens that the providers poll.
A group's close calls back into the runtime to close the group's lanes.

A branch runtime takes its endpoints from the allocator, which reserves them and
their leases in one SQLite transaction; a heartbeat on the concurrency runtime's
timer renews them.  A workflow sends every external effect through the journal,
first to the provider (an Environment or a capability), then to the Method; after
a crash the same cycle is executed again and finds its record.

### 1.2 Not modelled

`PROJECT.json` lists every other component with the reason: adapters to
operating system, network and model servers (`runtime`, most of `environment`,
`model`), immutable descriptions and catalogues (`scope`, `portfolio`,
`scientific`, `artifact`, `data`), projections without influence on other state
(`observability`, `operator`), static analysis (`governance`), and the
experiment itself (`projects/sem_paper`).

### 1.3 What makes the components correct

* **Task group.** A group that claims convergence owns no running work, its lane
  is sealed and empty, and it stays so; one thread leads a close; no failure or
  timeout of a bounded step is swallowed; a patient close gets out.
* **Task state.** The first verdict stands; a deadline that was met, and is known
  to have been, is not reported as missed; what ended after a cancellation or its own deadline is no
  success; a settled task leaves no timer; a fail-fast failure reaches every task
  and a caller's failure only its caller.
* **Serial lanes.** One token per scheduled lane and none for others; no
  wake-up is lost; an item that can be joined is in the mailbox; a sealed and
  drained lane is quiet; seen from outside, a lane is a bounded FIFO.
* **Leases.** A resource has one holder; the next one comes only after the time
  of the last ran out or it gave up, under a larger token, however late anybody
  renews, releases or reconciles; leases and allocations agree; an allocation only
  goes forward; a clean close gives everything back.
* **Effects.** An effect is executed at most once and completed at most once; what
  the journal finally says happened did; nothing is done on a world another effect
  may still change; an open intent, which blocks its run, gets closed.
* **Admission.** The counters equal the leases; no level of the budget is
  exceeded; the cached selection is what the policy could choose now; REJECT does
  not overtake; among the waiters that fit, each gets its turn.

## 2. Modules

| Module | Models |
|---|---|
| `TaskGroupClose` | one task group: submission scopes, children, the recurring task, cancel, close |
| `TaskGroupCloseProofs` | theorems about `TaskGroupClose` |
| `TaskState` | the verdict on one-shot tasks: deadlines, completion times, cancellation, fail-fast |
| `TaskStateProofs` | theorems about `TaskState` |
| `SerialLane` | the serial lanes and their shared workers, lane close and factory shutdown |
| `SerialLaneProofs` | theorems about `SerialLane` |
| `Mailbox` | the abstract lane: what `SerialLane` promises |
| `Admission` | the admission authority with the fair priority policy |
| `AdmissionProofs` | theorems about `Admission` |
| `ResourceLease` | the lease registry, the endpoint store, the allocator, the heartbeat and the branch runtime |
| `ResourceLeaseProofs` | theorems about `ResourceLease` |
| `FencedLock` | the abstract lease authority: what `ResourceLease` promises |
| `EffectJournal` | the transitions of one effect record |
| `EffectRecovery` | the workflows that execute effects through the journal, with crashes; extends `EffectJournal` |
| `EffectRecoveryProofs` | theorems about `EffectRecovery` |
| `MC*` | the instances the runs use |

### 2.1 TaskGroupClose

State: the fields of `_TaskGroupLifecycleAuthority` (`active`, `closing`,
`closed`, `converged`, `failure`, `event`), the two tokens (`cancelled`,
`subCancelled`), per task the logical state, the raw execution and the kind of
result, the recurring record with its current lane item, the locals of each
closing thread, and a program counter for each thread.

Each critical section of the code is one action: `EnterScope`, `Reserve`,
`ProviderAccept`/`ProviderCancel`/`ProviderReject`, `Bind`, `CancelIfClosing` and
`LeaveScope` are the steps of a submission (`_submit_contextual`,
`submission_scope`); `TickPasses` to `ItemFinish` are the timer thread's `tick` and
the lane item it leaves; `CloseLeads` to `CloseSignals` are the steps of the
thread that leads `close`; `CloseMustWait`, `AwaitClose`, `AwaitTimesOut` and
`ReadVerdict` are those of a thread that waits for the leader.  The loop of
`cancel_all` is one step per record (`CancelVisits`).  A closing thread that
returned may call `close` again, which is how bounded closes are retried.

Abstractions.  A child's function is the choice of a result (`value`, `error`,
`timeout` for a `TimeoutError` of its own, `cancelled`).  Fail-fast is
over-approximated by a thread that may cancel the group at any time.  `wait()`
is one action: it reads each handle after joining it and raises only for what
it has seen; the time at which it gives up is free.  A task deadline shows as a
failure.  Synchronisation by the done callback may happen at any time after the
result, so that a reader sees either order.

### 2.2 TaskState

State: per task the position of its submitting thread, the record (`state`,
`failure`, its token, its deadline timer and whether that is bound), and the raw
handle (`raw`, `result`, the completion time, what it is compared with, and whether
it is `published`); for
the group its token, its reason, its deadline and timer.  `_capture_completion` is two
actions: `CaptureReads` takes the time, and `CaptureStores` publishes it under the
completion lock; until then every other thread finds no completion time.  A
contextual function's last checkpoint (`PassLastCheckpoint`) is a step before its
future completes, so a token or a deadline may still come in between.
`TaskGroupClose` and
`TaskState` look at the same submission from two sides: the former has scopes
and closers and no deadlines, the latter deadlines and no close.

The authority's lock covers single reads and marks.  A thread between the read
and the mark is an element of `syncing`, `visiting` or `aborting`, with what it
read; `owed` holds the reasons for which a thread is about to call `cancel` on
the group.  Threads that do the same thing next are one element: the second
would find the record terminal.  Such a thread is a submitter, a worker at a
checkpoint, a timer, a waiter or the owner of a handle, and the model does not
say which, except where the code has it wait for its own call to end; the
interleavings it adds are those of a second thread doing the same.

Abstractions.  Time is whether a deadline has passed; a completion time is
whether it is before the task's own deadline, the only one it is compared with
(`stamp`), and after a token's time
(`interrupted`).  PENDING and RUNNING are `open`.  A cancel reads the clock
before it sets the token, so a token set after a completion may bear an earlier
time: `Verdicts` then allows both.  A mark and the cancellation of the timer it
took are one step, as are the read and the setting of the token in `cancel_task`,
whose only effect is on records that are terminal by then.  `spoilt` is a history
variable for `NoFalseSuccess`.  The branches of `sync_terminal_from_raw` for a
predetermined failure are left out: a record gets its failure together with a
terminal state.

### 2.3 SerialLane and Mailbox

A job comes with one of its `KeysOf`, or with none, and may be cancelled if it is
`Cancellable`.  A work item is named by the job that created it; `watchers[i]` are the jobs
whose futures it resolves, `fn[i]` the job whose function it calls.  The step
that puts an item into the mailbox and the one that publishes the lane's token
are apart (`Enqueue`, `Publish`), because the code releases the lane's condition
in between.  The worker's loop is `PopToken`, `TakeItem`, `Claim`, `Execute`,
`FinishItem`, `Reschedule`; it ends by `Exit` or, when `_schedule` raises on a
closed factory, dead.  Lane close and factory close wait with a deadline that
may expire unless the thread is in `Patient`.

`Mailbox` has only queues, the executing item of each lane, and seals.
`ImplementsMailbox` maps `items` to `queue`, the item of a running lane to `busy`
and `closed` to `sealed`; the mapped behaviour satisfies the abstract safety and,
under the fairness below, the abstract liveness.

### 2.4 Admission

Tickets and grant numbers only order waiters and groups: the waiters are a
sequence and the groups granted so far a sequence with the latest last.  Time is
the number of aging periods a waiter has waited.  `fresh` and `selected` are the
selection cache; every caller of `_invalidate_selection` resets them, and so does
the end of the 50 ms bucket (`TimePasses`).  All operations run under one
condition, so each is one action, including the first look at the queue that
`acquire` takes before it sleeps.

### 2.5 ResourceLease and FencedLock

State: `owner`, `lastToken`, `lease` and `allocation` are the four tables; `pc`,
`at`, `trying`, `held`, `unwinding` are the locals and fields of a branch runtime
between two calls (`MinecraftBranchRuntimeFactory.open`, the binding's `close` and
`_release_allocations`), `heart` is its `EndpointLeaseHeartbeatGuard`.

Every public call of the two SQLite authorities is one `BEGIN IMMEDIATE`
transaction, hence one action; one that raises is rolled back and is no step,
except where the caller goes on from the exception (`AllocateRaises`, a failed tick,
a failed release).  The code reads `time.time()` before it waits for the write
lock, so a transaction decides on any time of `Nows`, up to `LockWait` old.
`Expired` and `Reconciled` are the `_expire` and `_reconcile_one` helpers every
transaction begins with, with what they write.  A branch allocates its endpoints
one by one (`Get`, `Reserve` per candidate), starts its heartbeat, and may fail to
be composed after that, be closed, closed again, or crash; the tick that was under
way when the guard was closed is `lastBeat`.  Clients call the lease port directly;
anybody may reconcile, release by id, or confirm a binding.  `Renew` of the lease port
is for the clients' leases: it takes the token of the grant, the leases of allocations
are prolonged by the endpoint authority together with their rows, and nothing in the
repository renews them by the lease port.  (Who did would prolong the lease and not
the row, and the expiries of `LeasesHaveAllocations` would differ.)

Abstractions.  The expiry of a row that ended is read no more and is zeroed.  Lease
and allocation ids stand for their holders, and an allocation belongs to one
branch, as the ids are derived from it.  Foreign keys refuse to remove an owner
that was ever leased to.  Digests of requests are compared as the requests.

`FencedLock` has for each resource the grant that holds it and until when, the
largest token, and the grants ever made.  `ImplementsFencedLock` maps the active
rows of `lease` to it: a grant needs a resource whose holder's time has passed on
the real clock, though the code compares with its own, older one.

### 2.6 EffectJournal and EffectRecovery

`EffectJournal` is `transitions.py` as operators on a record; each `Can...` is what
the function checks before it returns the new record and raises otherwise.
`EffectRecovery` has the durable part (`journal`, the `world`, the counts of
`executions` and `completions`) and the controller `ctl`: its step, its intent, and
the receipt it holds, all of which `Fault` erases at any step.  One run session
executes one cycle at a time, so there is one controller; `Start` begins any intent
and begins it again.  Whether there is a checkpoint behind it is part of the intent
(`Anchored`): `checkpoint_id` goes into its id, so the same effect tried from a
checkpoint is another intent.  The steps are those
of `ActionSlotGuard`, `CommittedCycleRecoveryCoordinator`,
`ActionAuthorizationBuilder`, `JournaledActionExecutor` and `MethodCompletionAdapter`
for the cycle of an action, and of `CapabilityEffectExecutor` with its new and
existing flows for the agent turn; where both do the same they share the action.
`setup`, chosen once, says which workflow runs, whether the Method can say what it
has completed, and whether the provider words every receipt of an effect alike.

Abstractions.  A receipt is its certainty and who gave it, which is all its digest
can tell apart here.  A provider answers truthfully, or with UNKNOWN, or not at
all; an effect may still be under way when its answer comes (`Settle`).  UNKNOWN
and an exception end the attempt.  All effects of the model are of one run and
lifetime, which is the scope `require_scope_clear` looks at.  The journal is the
durable SQLite one.  Left out: the flow without a journal, and two invocations of
one capability call at once, whose second one `execute_new_capability_effect` would
not notice (it ignores `created`).

## 3. Runs

TLC checks all runs with deadlock detection, except those of `SerialLane` and
`TaskState`: their threads all end, which is what they are for.

| Run | Instance | What it shows |
|---|---|---|
| `TaskGroupClose_close` | 1 serial task, 2 closers (1 cancelling and bounded, 1 patient), recurring task | the six safety properties of close; a patient close gets out, a patient leader converges |
| `TaskGroupClose_verdict` | 1 task, 2 closers | **violated**: a waiter may return normally though the close failed |
| `TaskState_race` | 1 caller-owned CPU task with a deadline and an owner who cancels it, 1 group-scoped coroutine, functions that fail by a `TimeoutError` | one verdict, met deadlines are honoured once published, no false success, no stray timer; only the group-scoped failure cancels the group, and then nobody escapes |
| `TaskState_pair` | 1 caller-owned CPU task, 1 contextual task, a group deadline | no success after a sibling cancelled the group |
| `TaskState_poison` | 1 caller-owned task, a group deadline | **violated**: a request's `TimeoutError` cancels the group |
| `SerialLane_lanes` | 2 lanes on 1 worker, 3 jobs on one and 1 on the other, mailboxes of 2, a job that joins another or not and may be cancelled, a patient lane closer and a bounded shutdown | tokens, wake-ups, open items, quiet lanes; refinement of `Mailbox`; accepted jobs resolve |
| `SerialLane_cancel` | 3 jobs of one key | **violated**: cancellation spreads to other watchers |
| `SerialLane_retry` | bounded shutdown, then a patient one | **violated**: the retry may wait for ever |
| `Admission_scheduling` | 5 requests of 4 groups, 2 lane kinds; a group, a lane and a tenant limit that cross, under a total limit; two requests reject, one cancels | accounting, budget, cache, no overtaking; waiters that fit take turns |
| `ResourceLease_endpoints` | 1 branch with 2 allocations on 2 overlapping endpoints, 1 client, 1 crash | refinement of `FencedLock`; leases and allocations agree; allocations go forward; a clean close releases |
| `EffectRecovery_flows` | 2 effects, one with a checkpoint behind it and one without, both workflows, all setups, 2 faults | one execution, one completion, true verdicts, no work on an unresolved world; open intents close unless wedged |
| `EffectRecovery_noeffect` | the same, no fault | **violated**: a task is completed for an action that was not applied |

### 3.1 Bounds and why they are enough

Two closers give a leader and a waiter, and leaders that follow each other in
any number, since closes repeat.  One task goes through every interleaving of a
submission with a close.  In `TaskState` the marks of
one record do not depend on another record except through the group's token, so
one task shows every race for a verdict and two what one task does to another;
functions that fail are left out of the pair, whose question is about successes.  In
the race they fail by a `TimeoutError`: without a group deadline it takes all the
branches that an ordinary error or another task's failure does, and more.  In `SerialLane_lanes` three jobs of
one lane are one executing and two waiting, in an order that matters, or one that
joins another; with two waiting the mailbox is full; the job of the second lane shares
the worker with them.  `SerialLane_cancel` and `SerialLane_retry` need one lane with
a mailbox of one.  In `Admission` the limits cross: the low-priority `r1` needs
its group's permit, which `r2` shares, and that of the io lane, which `r3` shares; the
tenant's limit sets `r3` against a request that rejects, and another that rejects
makes the total bind; requests repeat.  In `ResourceLease` the second endpoint is a
candidate of both allocations and the first is shared with the client, so a takeover,
a full list of candidates and a resumed allocation all happen; a lease lasts one tick
and a transaction's time may be one tick old, so `MaxTime = 2` has a lease expire
under a late call and the next one as well.  A second branch would add holders of the
kind the client is. In `EffectRecovery` two intents make one the obstacle of the
other, and two faults lose an attempt and its recovery.

`MaxTime`, `MaxCrashes` and `MaxFaults` are the only bounds: program counters and
finite sets bound the rest, and aging stops at `MaxRank`, where it has no effect in
the code either.

### 3.2 Fairness

In the concurrency modules, weak fairness only, for steps of threads inside the code: a thread that holds a
submission scope, leads a close, runs a worker loop or polls for its turn
continues; a started child or function ends; a lease is released by its holder;
time passes.  `TaskState` assumes none: what is said of a fail-fast cascade is
said of the states in which it has come to rest.  Nothing obliges callers to
submit, cancel or close, a provider to accept work, or a deadline to expire.
This is what the platform's threads give: conditions are waited on in loops with
a poll interval, and no step depends on a choice that could be denied for ever.

`EffectRecovery` has weak fairness of the controller's steps (a call returns or
raises) and of `Settle` (what is under way lands or is lost), and strong fairness of
the retry of an open intent in its own context: only that intent can make progress
then, every other one fails its scope guard, and the operator's way out of a run
that does not go on is to resume it.  Where an intent without a checkpoint is retried
the guard refuses it, so the fairness gives nothing to those.  `ResourceLease` assumes
none.

## 4. Proofs

Every safety property that a passing run checks is also proved, for every value of
the constants.  Each argument rests on one inductive invariant, called `Inv` in the
module of the proofs; TLC checked each of them on the instances of the runs before it
was proved.  Three properties that a run violates are proved under a condition that excludes
what the run shows: the violation has no other cause.

### 4.1 TaskGroupClose

For every finite set of tasks and any closers, however many bounded closes give up and
are called again:

* `TypeCorrect`, `OneThreadLeads`, `ConvergedGroupsHaveJoined`, `LeadersTellTheTruth`
  and `LeadersHideNoFailure` as invariants of `Spec`, and `ConvergenceStands` as an
  action property.

A leader decides on convergence from locals: `submissions_quiesced`, the errors of the
bounded steps, `on_close_succeeded`.  Each was read under some lock and is used after
it.  The invariant says why that is right: `LeaderOK` pairs each local, and each place
of the leader, with a fact that the seal makes stable.  `Quiescent` (the group is closed
and nobody is inside a submission) stays, since `submission_scope` tests `closed`, which
is never reset; `Drained` stays, since the lane refuses a tick's item too; `Joined` is
`Quiescent` with no execution left; `Blameless` is what `wait()` has seen of the
children, final because a terminal record is.  `CountOK` ties the count of submissions to
the set of threads inside one, so that a count of zero means nobody; `PlaceOK` says that a
record without a handle is terminal once its submitter has gone, which
`all_execution_done` relies on; `TickOK` that the newest tick's item is the only one that
may still run.  `LeadOK` is what makes `ConvergenceStands` inductive: nobody leads in a
converged group.

`LoneClosersAreToldTheTruth` proves `CleanCloseIsConverged` for a group that one thread
closes (`Alone`), with or without retries.  The run `TaskGroupClose_verdict` violates it
with two: only a waiter can be misled.

### 4.2 TaskState

For any finite set of tasks and any deadlines and ways to fail:

* `TypeCorrect`, `SuccessIsTrue`, `TimersAreTaken` and `FailFastEndsTheGroup` as
  invariants of `Spec`, and `FirstVerdictStands` and `DeadlineHonoured` as action
  properties.

`TaskOK` has one part for each party that races for the verdict: `Placed` (where the
submitter is and what it has made), `ResultOK` and `CompletionOK` (what had happened when
the execution ended had happened when its time was taken), `VerdictOK` (a
deadline that failed a task had passed, or the execution gave no value), `SyncOK` (what a thread that read the
record may still conclude after another one wrote it), `TimerOK` (an armed timer is about
to be bound, or bound to an open record, or its deadline has failed the task), and
`CancelOK` with `FailFastOK` (a cancellation that is owed reaches each open record, or
its submitter will meet the token).  `DeadlineHonoured` goes from `Met` to `Met`: the
lemmas `MetUnlessTouched` to `MetKept` show for each step that, once a time before the
deadline is published, no thread that may still fail the task by it can appear.

`RequestFailuresAreLocal` proves `RequestFailureStaysItsCallers` when no function's own
`TimeoutError` can be taken for the group's deadline (`Unambiguous`): the group has no
deadline, or functions end with ordinary errors only, neither a timeout nor
the deadline failure of a task they waited for.  Without that it is false, as
`TaskState_poison` shows; `TaskState_race` has the other case.

### 4.3 SerialLane

For any workers, jobs, keys and closers, any finite set of lanes and any capacity:

* `TypeCorrect`, `TokensAreSingle`, `WakeupsAreKept`, `KeysLeadToQueuedItems` and
  `ClosesLeaveQuiet` as invariants of `Spec`;
* `LanesAreMailboxes`: the first state maps to a first state of `Mailbox`, and each
  step to a step or a stutter.  It is `ImplementsMailbox` without its fairness.

`TokenOK` says where the token of a scheduled lane is (a submitter about to publish it,
the ready queue, or the worker that holds the lane), that it is at one of these places
only, and that a lane with items is scheduled: this is what the two conditions, the
lane's and the factory's, keep together although no lock covers both.  `WorkerOK` and
`RunningOK` tie the running flag to the one worker in the middle of an item, `FutureOK`
an open future to an item that is queued or in a worker's hands, and `CloserOK` what a
shutdown has behind it to lanes that stay quiet.  Facts about queues (`AppendFacts`,
`TailFacts`) speak of occurrence, at all and once.

`CancellationSpreadsByKeyOnly` proves `CancelStaysWithWatcher` for lanes whose jobs do
not share keys (`NoSharedKey`, on `KeysOf`): coalescing is the only way to what `SerialLane_cancel`
shows.

### 4.4 Admission

`AdmissionProofs` proves for every finite set of requests and any groups, lanes,
tenants, resources and limits satisfying `AdmissionAssumption`:

* `TypeCorrect`, `AccountingCorrect`, `BudgetCorrect`, `SelectionCorrect` as
  invariants of `Spec`, and `RejectIsFair` as an action property.

The budget does not carry itself: a counter that had drifted from the leases
would pass every test of `_can_admit`, and a stale selection would grant what no
longer fits.  The inductive invariant `Inv` is therefore the conjunction of
`TypeOK`, `QueueIsSound` (a waiter is in the queue once and holds no lease),
`AccountingMatchesLeases`, `BudgetRespected` and `SelectionIsCurrent`.  The
lemmas `CounterGain` and `CounterLoss` state what one more or one less lease
does to a counter and to the cardinality it stands for; `SelectPicksAdmissible`
that the policy's choice exists and is admissible, from a least element of a
finite non-empty set of positions.

The only assumption on the environment is `AdmissionAssumption`: finitely many
requests, positive limits, one resource key per tenant.

### 4.5 EffectRecovery

`EffectRecoveryProofs` proves for any set of intents, any number of faults and
every setup:

* `AtMostOneExecution`, `AtMostOneCompletion`, `TrueVerdicts`, `TypeCorrect` as
  invariants of `Spec`, and `WorkOnResolvedWorld` as an action property.

None of them is inductive: that an effect is executed once rests on what the
controller has seen before.  `Inv` is `TypeOK`, `IntentsOK` (an absent record means
nothing was executed or completed; the receipt of a record is `Truthful`) and
`ControlOK`: if the controller is at step `s` it `Knows` what the code has
established by then, in two parts, `KnowsTask` (what it holds is truthful; before
or after the completion; the scope is clear) and `KnowsRecord` (what it executes it
has just prepared).  The lemmas `GotoInv`, `HoldInv`, `GiveUpInv` and `WriteInv` take a
step of each shape to the invariant, so that the lemma of an action only shows that
the step it goes to knows what it must.  The assumptions are `MaxFaultsAssumption`, a
number, and `AnchoredAssumption`, a set of intents; the provider's truthfulness is part of the model (2.6).

Two more theorems say what is final.  `ClosedRecordsAreFinal`: no session writes a
consumed or not-applied record again.  `WedgedIntentsStayOpen`: an intent that
`OpenIntentsClose` excepts never closes, so that the exception is no smaller than
stated.  `IsWedged` only speaks of a controller at rest; the invariant `Stuck` follows a
retry of such an intent through `RetrySteps`, up to the session that refuses it, and
through faults and the work on other intents.

### 4.6 ResourceLease

`ResourceLeaseProofs` proves for any branches, clients, endpoints, overlaps of
candidates, times and crashes:

* `TypeCorrect`, `LeasesAgree` and `CleanClose` as invariants of `Spec`, `GoForward`
  as an action property, and `Refinement`: `Spec => ImplementsFencedLock`.

The argument goes by the effect of a transaction on the tables.  `StepKinds` says
that every step is a `QuietStep` (leases only end or are prolonged, allocations only
go forward), a `GrantStep` (one lease that never was is granted, on an endpoint
whose leases have all ended, under the next token) or time passing; these are the
actions of `FencedLock`.  The lemmas that lead there, `ExpiredOK`, `OrphansFreed`,
`ReconciledOK` and one per transaction, speak of any pair of tables, because a
transaction changes them in several steps.  The inductive invariant `Inv` has
`Tables` (one holder of each endpoint, leases and allocations agree, an allocation
without a row never had a lease) and `BranchOK` for each branch: once it was
composed, each of its allocations is one it has still to release, or was
released.  `CleanClose` needs this history: at the close itself only an empty set of
held allocations is seen.  The assumption is `ResourceLeaseAssumption`: finitely
many holders and endpoints, no allocation of two branches, a branch with at least
one allocation and an allocation with at least one candidate.

### 4.7 Left to TLC

Liveness under fairness, which the provers do not cover: `FittingWaitersTakeTurns`,
`AcceptedJobsResolve`, `PatientCloseReturns`, `PatientLeaderConverges`, the progress
half of `OpenIntentsClose`, and the fairness in `ImplementsMailbox`.
`RetriedShutdownConverges` and `NoEffectNeverCompletes` are violated by their runs and
nothing is proved about them.

## 5. What the runs found

1. *A waiter's clean return* (`TaskGroupClose_verdict`): `complete_close` sets the
   event after releasing the condition, the waiter reads the verdict after
   waking, and a new leader may have reset it in between.
2. *A poisoned group* (`TaskState_poison`): `handle.result()` takes a `TimeoutError`
   of the finished function for the end of its own wait and cancels a group that
   has a deadline.  `wait()` makes the same confusion when it joins a child.
3. *Cancellation spreads* (`SerialLane_cancel`): the newest watcher's token ends
   the item for all watchers.
4. *A retried shutdown may hang* (`SerialLane_retry`): a failed `_schedule` leaves
   a scheduled lane without a token.
5. *A task completed for nothing* (`EffectRecovery_noeffect`): the cycle takes a
   receipt that proves "no effect" for a result and calls `task_completed`; only
   the path over the recovery handle stops there.  The journal then refuses to
   consume the action, and its intent stays open.

Some behaviour that no document denies, and the properties therefore allow:

* *Intents that stay open.*  What `OpenIntentsClose` calls wedged are three kinds of
  records that no retry closes, and that block their run: the one of finding 5; one
  RECONCILED with a receipt that differs from the one the recovery handle gives
  (`effect_transition` compares digests; the Minecraft coordinator fills the two
  receipts differently); and an action prepared without a checkpoint and left open by
  a crash.  A run's first cycle has no checkpoint (`experimentation/run/runtime/cycle.py`,
  lines 66-75).  Its retry is refused by `action_slot_guard.py:123`; once a checkpoint
  exists, the retry has another intent id (`reliability/effect/api/journal.py:69`) and
  is refused by the scope guard, because the first record is open.  The agent turn has
  no such guard and closes its intents.
* *A completion in time that loses to its deadline.*  `_capture_completion`
  (`executors.py:24`, `serial_lane.py:27`) reads the clock before it takes the lock
  under which it stores the time.  In between, `expire_task` (`task_state.py:231`)
  finds no completion time, and `sync_terminal_from_raw` (line 302) takes the present
  one; either may fail by its deadline a task whose function ended before it.
  `MetDeadlineIsHonoured` therefore starts from the published time.
* *Waiters that wait for ever.*  `r \in Waiting ~> r \notin Waiting` is false in the
  instance of `Admission_scheduling`.  A waiter that needs room under two limits,
  while others take each of them in turn, never fits at all and is passed over
  (`authority.py:180`): nothing is kept free for it.  A waiter that does fit again and
  again can still lose its turn for ever in two ways, which are the alternatives of
  `FittingWaitersTakeTurns`: its own group, just served with another request, stands
  behind the others (`_group_last_grant` is per group), or a waiter whose turn it is
  leaves by its deadline before it polls, and the next like it comes in time.

## 6. Plan

1. `TimerScheduler`: heap, tombstones, cancel against a running callback.
2. `RuntimeClose`: the composition of groups, lanes, timer and admission, with
   permits released in callbacks and the tick on the timer thread; the early
   completion of a cancelled coroutine.
3. `OperationLifecycle`, `CommandIntent`: durable records with crashes.
4. Concurrent capability calls in `EffectRecovery`: a second controller.
5. Proofs about each new module beside it, its inductive invariant checked by TLC first.
