----------------------------- MODULE TaskState -----------------------------
(***************************************************************************)
(* _TaskStateAuthority: how the logical outcome of one-shot tasks is       *)
(* decided when completion, deadline expiry and cancellation race.         *)
(*                                                                         *)
(* Threads: the submitting thread of each task, its provider worker, the   *)
(* timer, readers that synchronise a record with its raw handle, threads   *)
(* that wait in handle.result, and threads that cancel a task or, by the   *)
(* fail-fast policy or the group deadline, the group.  The authority's     *)
(* lock covers single reads and marks only, so a thread may decide on what *)
(* it read before another one marked the record.                           *)
(*                                                                         *)
(* Time is whether each deadline has passed.  Threads that do the same     *)
(* thing next are kept as a set of what they still owe.                    *)
(***************************************************************************)
EXTENDS FiniteSets

CONSTANTS
    Tasks,
    Cpu,            \* tasks without a context: they see no token, no deadline
    CallerScoped,   \* tasks whose failure_scope is CALLER
    Async,          \* coroutines: their future can be cancelled while they run
    TaskOwned,      \* tasks with a deadline stricter than the group's
    HasGroupDeadline,
    FailFast,       \* failure_policy is FAIL_FAST
    Cancellable,    \* tasks whose owner may call handle.cancel
    Failures        \* the ways in which functions fail

ASSUME TaskStateAssumption ==
    /\ IsFiniteSet(Tasks)
    /\ Cpu \subseteq Tasks /\ Async \subseteq Tasks \ Cpu
    /\ CallerScoped \subseteq Tasks
    /\ TaskOwned \subseteq Tasks /\ Cancellable \subseteq Tasks
    /\ HasGroupDeadline \in BOOLEAN /\ FailFast \in BOOLEAN
    /\ Failures \subseteq {"error", "timeout", "foreign"}

VARIABLES
    submitter,     \* where each submitting thread is
    state,         \* record.state ("absent": no record, "open": not terminal)
    failure,       \* cause kept in record.failure of a failed task
    raw,           \* the provider's execution
    result,        \* what raw.result() gives
    stamp,         \* the completion time that was read, against the task's own
                   \* deadline
    interrupted,   \* whether a token of the task was cancelled at that time
    published,     \* whether completed_monotonic holds that time
    spoilt,        \* history: the execution ended with a token cancelled or
                   \* after the task's own deadline
    token,         \* the task's own cancellation token
    timer,         \* the timer of a task-owned deadline
    timerBound,    \* whether record.deadline_handle is that timer
    expired,       \* whether the task's own deadline has passed
    groupToken,    \* the group's cancellation token
    reason,        \* its reason
    groupExpired,  \* whether the group deadline has passed
    groupTimer,    \* the timer of the group deadline
    owed,          \* reasons for which some thread is about to cancel the group
    listing,       \* whether a thread is about to list the records to cancel
    visiting,      \* records listed by cancel_all and not yet visited
    aborting,      \* <<t, bound>>: cancel_task has read the record
    syncing        \* <<t, late, cut>>: sync_terminal_from_raw has read it

group   == <<groupToken, reason, groupExpired, groupTimer>>
record  == <<state, failure, token, timer, timerBound>>
handle  == <<raw, result, stamp, interrupted, published, spoilt>>
threads == <<owed, listing, visiting, aborting, syncing>>
vars == <<submitter, record, handle, expired, group, threads>>

Terminal == {"succeeded", "failed", "cancelled"}
Causes   == {"own", "deadline"}
Reasons  == {"failfast", "deadline"}
Bound(t) == submitter[t] \in {"bound", "scheduled", "armed", "raised", "returned"}
Records  == {t \in Tasks : state[t] # "absent"}

Init ==
    /\ submitter = [t \in Tasks |-> "idle"]
    /\ state = [t \in Tasks |-> "absent"]
    /\ failure = [t \in Tasks |-> "none"]
    /\ raw = [t \in Tasks |-> "none"]
    /\ result = [t \in Tasks |-> "none"]
    /\ stamp = [t \in Tasks |-> "none"]
    /\ interrupted = [t \in Tasks |-> FALSE]
    /\ published = [t \in Tasks |-> FALSE]
    /\ spoilt = [t \in Tasks |-> FALSE]
    /\ token = [t \in Tasks |-> FALSE]
    /\ timer = [t \in Tasks |-> "none"]
    /\ timerBound = [t \in Tasks |-> FALSE]
    /\ expired = [t \in Tasks |-> FALSE]
    /\ groupToken = FALSE /\ reason = "none"
    /\ groupExpired = FALSE
    /\ groupTimer = IF HasGroupDeadline THEN "armed" ELSE "none"
    /\ owed = {} /\ listing = FALSE /\ visiting = {}
    /\ aborting = {} /\ syncing = {}

-----------------------------------------------------------------------------
(***************************************************************************)
(* Faulty forms of definitions below, for the mutation runs.               *)
(***************************************************************************)
OpenForMarkAnything(t) == TRUE
MetDeadlineIgnored(t) == FALSE
TimerWantedAlways(t) == TRUE
CascadesForCallers(t) == FailFast /\ t \in CallerScoped
CutForgetsGroup(t) == token[t]
ListedEverything == Tasks
NothingMissed(t) == FALSE

-----------------------------------------------------------------------------
(***************************************************************************)
(* Deadlines and tokens.                                                   *)
(***************************************************************************)

\* _effective_deadline: a stricter deadline of the task's own, else the group's.
GroupOwned(t) == HasGroupDeadline /\ t \notin TaskOwned
Late(t) == IF t \in TaskOwned THEN expired[t] ELSE GroupOwned(t) /\ groupExpired

\* Whether a cancellation token of the task is set: what its completion time is
\* compared with in the end.
Cut(t) == token[t] \/ groupToken

TaskDeadlinePasses(t) ==
    /\ t \in TaskOwned /\ ~expired[t]
    /\ expired' = [expired EXCEPT ![t] = TRUE]
    /\ UNCHANGED <<submitter, record, handle, group, threads>>

GroupDeadlinePasses ==
    /\ HasGroupDeadline /\ ~groupExpired
    /\ \A t \in TaskOwned : expired[t]
    /\ groupExpired' = TRUE
    /\ UNCHANGED <<submitter, record, handle, expired, groupToken, reason, groupTimer, threads>>

-----------------------------------------------------------------------------
(***************************************************************************)
(* Marks: mark_succeeded, mark_cancelled and mark_failed, and what the     *)
(* marking thread does after it released the lock.                         *)
(***************************************************************************)

\* A mark leaves a terminal record alone.
OpenForMark(t) == state[t] = "open"

\* should_cancel: the failure of a group-scoped task ends the group.
Cascades(t) == FailFast /\ t \notin CallerScoped

\* The record becomes terminal; its timer is taken and cancelled.
Settle(t, s, cause) ==
    /\ state' = [state EXCEPT ![t] = s]
    /\ failure' = [failure EXCEPT ![t] = cause]
    /\ timer' = [timer EXCEPT ![t] = IF timerBound[t] /\ @ = "armed" THEN "cancelled" ELSE @]
    /\ timerBound' = [timerBound EXCEPT ![t] = FALSE]

Mark(t, s, cause) ==
    IF OpenForMark(t)
    THEN /\ Settle(t, s, cause)
         /\ owed' = IF s = "failed" /\ Cascades(t) THEN owed \cup {"failfast"} ELSE owed
    ELSE UNCHANGED <<state, failure, timer, timerBound, owed>>

-----------------------------------------------------------------------------
(***************************************************************************)
(* Submission.                                                             *)
(***************************************************************************)
SubmitterGoes(t, pc) == submitter' = [submitter EXCEPT ![t] = pc]

EnterScope(t) ==
    /\ submitter[t] = "idle"
    /\ SubmitterGoes(t, IF groupToken THEN "refused" ELSE "entered")
    /\ UNCHANGED <<record, handle, expired, group, threads>>

\* _reserve_task.  With a deadline that has passed the new record is settled at
\* once: by its own deadline, or by cancelling the group.
Reserve(t) ==
    /\ submitter[t] = "entered"
    /\ SubmitterGoes(t, IF Late(t) THEN "refused" ELSE "reserved")
    /\ state' = [state EXCEPT ![t] = IF ~Late(t) THEN "open"
                                     ELSE IF GroupOwned(t) THEN "cancelled" ELSE "failed"]
    /\ failure' = [failure EXCEPT ![t] = IF Late(t) /\ ~GroupOwned(t) THEN "deadline" ELSE @]
    /\ owed' = owed \cup (IF ~Late(t) THEN {}
                          ELSE IF GroupOwned(t) THEN {"deadline"}
                          ELSE IF Cascades(t) THEN {"failfast"} ELSE {})
    /\ UNCHANGED <<token, timer, timerBound, handle, expired, group, listing, visiting,
                   aborting, syncing>>

Accept(t) ==
    /\ submitter[t] = "reserved"
    /\ ~groupToken
    /\ SubmitterGoes(t, "accepted")
    /\ raw' = [raw EXCEPT ![t] = "queued"]
    /\ UNCHANGED <<record, result, stamp, interrupted, published, spoilt, expired, group,
                   threads>>

\* The provider raises TaskCancelled or rejects, ...
RefuseCancelled(t) ==
    /\ submitter[t] = "reserved"
    /\ SubmitterGoes(t, "refused")
    /\ Mark(t, "cancelled", "none")
    /\ UNCHANGED <<token, handle, expired, group, listing, visiting, aborting, syncing>>

\* ... or fails; a TimeoutError is the deadline's if that has passed
\* (_normalize_submission_failure).
RefuseFailed(t) ==
    /\ submitter[t] = "reserved"
    /\ SubmitterGoes(t, "refused")
    /\ \E cause \in IF Late(t) THEN Causes ELSE {"own"} :
          IF cause = "deadline" /\ GroupOwned(t)
          THEN /\ owed' = owed \cup {"deadline"}
               /\ IF OpenForMark(t) THEN Settle(t, "cancelled", "none")
                  ELSE UNCHANGED <<state, failure, timer, timerBound>>
          ELSE Mark(t, "failed", cause)
    /\ UNCHANGED <<token, handle, expired, group, listing, visiting, aborting, syncing>>

BindRaw(t) ==
    /\ submitter[t] = "accepted"
    /\ SubmitterGoes(t, "bound")
    /\ UNCHANGED <<record, handle, expired, group, threads>>

-----------------------------------------------------------------------------
(***************************************************************************)
(* The execution.                                                          *)
(***************************************************************************)
Start(t) ==
    /\ raw[t] = "queued"
    /\ raw' = [raw EXCEPT ![t] = "running"]
    /\ UNCHANGED <<submitter, record, result, stamp, interrupted, published, spoilt, expired,
                   group, threads>>

\* The function of a contextual task has returned, and the checkpoint after it
\* found no token and no deadline.  Nothing looks at them again before the end.
PassLastCheckpoint(t) ==
    /\ raw[t] = "running" /\ t \notin Cpu
    /\ ~Cut(t) /\ ~Late(t)
    /\ raw' = [raw EXCEPT ![t] = "passed"]
    /\ UNCHANGED <<submitter, record, result, stamp, interrupted, published, spoilt, expired,
                   group, threads>>

\* What the execution can end with.  A function may fail at any time, also with
\* a TimeoutError or with the deadline failure of a task it waited for
\* ("foreign"); the checkpoints raise for a token or the task's own deadline.
Outcomes(t) ==
    IF raw[t] = "passed" THEN {"value"}
    ELSE Failures
         \cup (IF t \in Cpu THEN {"value"} ELSE {})
         \cup (IF t \notin Cpu /\ Cut(t) THEN {"cancelled"} ELSE {})
         \cup (IF t \in TaskOwned \ Cpu /\ ~Cut(t) /\ expired[t] THEN {"deadline"} ELSE {})

Finish(t) ==
    /\ raw[t] \in {"running", "passed"}
    /\ raw' = [raw EXCEPT ![t] = "done"]
    /\ \E r \in Outcomes(t) : result' = [result EXCEPT ![t] = r]
    /\ spoilt' = [spoilt EXCEPT ![t] = token[t] \/ groupToken \/ (t \in TaskOwned /\ expired[t])]
    /\ UNCHANGED <<submitter, record, stamp, interrupted, published, expired, group, threads>>

\* checkpoint and wait: the child that finds the group deadline passed cancels
\* the group.
Observe(t) ==
    /\ raw[t] = "running" /\ t \notin Cpu
    /\ GroupOwned(t) /\ groupExpired /\ ~Cut(t)
    /\ owed' = owed \cup {"deadline"}
    /\ UNCHANGED <<submitter, record, handle, expired, group, listing, visiting, aborting, syncing>>

\* _capture_completion, the callback that runs after the future is done, reads
\* the clock ...
CaptureReads(t) ==
    /\ raw[t] = "done" /\ stamp[t] = "none"
    /\ stamp' = [stamp EXCEPT ![t] = IF t \in TaskOwned /\ expired[t]
                                      THEN "late" ELSE "ontime"]
    /\ interrupted' = [interrupted EXCEPT ![t] = Cut(t)]
    /\ UNCHANGED <<submitter, record, raw, result, published, spoilt, expired, group,
                   threads>>

\* ... before it takes the lock that publishes the time.
CaptureStores(t) ==
    /\ stamp[t] # "none" /\ ~published[t]
    /\ published' = [published EXCEPT ![t] = TRUE]
    /\ UNCHANGED <<submitter, record, raw, result, stamp, interrupted, spoilt, expired, group,
                   threads>>

-----------------------------------------------------------------------------
(***************************************************************************)
(* sync_terminal_from_raw: it reads the record and the completion time     *)
(* under the lock, and decides and marks after it.  Without a published    *)
(* completion time it takes the present.                                   *)
(***************************************************************************)
Missed(t) == t \in TaskOwned /\ IF published[t] THEN stamp[t] = "late" ELSE expired[t]
Before(t) == IF published[t] THEN interrupted[t] ELSE Cut(t)

SyncReads(t) ==
    /\ Bound(t) /\ raw[t] = "done" /\ state[t] = "open"
    /\ syncing' = syncing \cup {<<t, Missed(t), Before(t)>>}
    /\ UNCHANGED <<submitter, record, handle, expired, group, owed, listing, visiting, aborting>>

\* A token set since may bear an earlier time: cancel reads the clock first.
Verdicts(t, cut) ==
    IF cut THEN {"cancelled"} ELSE IF Cut(t) THEN {"cancelled", "succeeded"} ELSE {"succeeded"}

SyncMarks(t, missed, cut) ==
    /\ <<t, missed, cut>> \in syncing
    /\ syncing' = syncing \ {<<t, missed, cut>>}
    /\ CASE missed -> Mark(t, "failed", "deadline")
         [] ~missed /\ result[t] = "cancelled" -> Mark(t, "cancelled", "none")
         [] ~missed /\ result[t] \in {"error", "timeout"} -> Mark(t, "failed", "own")
         [] ~missed /\ result[t] = "deadline" -> Mark(t, "failed", "deadline")
         [] ~missed /\ result[t] = "foreign" ->
               IF GroupOwned(t)
               THEN /\ owed' = owed \cup {"deadline"}
                    /\ IF OpenForMark(t) THEN Settle(t, "cancelled", "none")
                       ELSE UNCHANGED <<state, failure, timer, timerBound>>
               ELSE Mark(t, "failed", "own")
         [] ~missed /\ result[t] = "value" -> \E s \in Verdicts(t, cut) : Mark(t, s, "none")
    /\ UNCHANGED <<submitter, token, handle, expired, group, listing, visiting, aborting>>

-----------------------------------------------------------------------------
(***************************************************************************)
(* Expiry of a task-owned deadline: expire_task, called by the timer, by   *)
(* the submitter and by a thread whose wait ended.                         *)
(***************************************************************************)
Revocable(t) == raw[t] = "queued" \/ (t \in Async /\ raw[t] \in {"running", "passed"})

\* raw.cancel, given whether the caller read a bound raw handle.
RevokeRaw(t, bound) ==
    IF bound /\ Revocable(t)
    THEN /\ raw' = [raw EXCEPT ![t] = "done"]
         /\ result' = [result EXCEPT ![t] = "cancelled"]
    ELSE UNCHANGED <<raw, result>>

\* A completion published with a time before the deadline is left to the
\* synchronisation.
MetDeadline(t) == Bound(t) /\ published[t] /\ stamp[t] = "ontime"

Expired(t) ==
    \/ /\ state[t] = "open" /\ MetDeadline(t)
       /\ syncing' = syncing \cup {<<t, FALSE, interrupted[t]>>}
       /\ UNCHANGED <<state, failure, token, timerBound, raw, result, owed>>
    \/ /\ state[t] = "open" /\ ~MetDeadline(t)
       /\ state' = [state EXCEPT ![t] = "failed"]
       /\ failure' = [failure EXCEPT ![t] = "deadline"]
       /\ timerBound' = [timerBound EXCEPT ![t] = FALSE]
       /\ token' = [token EXCEPT ![t] = @ \/ t \notin Cpu]
       /\ RevokeRaw(t, Bound(t))
       /\ owed' = IF Cascades(t) THEN owed \cup {"failfast"} ELSE owed
       /\ UNCHANGED syncing
    \/ /\ state[t] # "open"
       /\ UNCHANGED <<state, failure, token, timerBound, raw, result, owed, syncing>>

\* _arm_task_deadline.  It first synchronises, so a finished execution has a
\* terminal record; what is left of the deadline decides between a timer and
\* immediate expiry.
ArmsNothing(t) ==
    /\ submitter[t] = "bound"
    /\ t \notin TaskOwned \/ state[t] # "open"
    /\ SubmitterGoes(t, "armed")
    /\ UNCHANGED <<record, handle, expired, group, threads>>

ArmsTimer(t) ==
    /\ submitter[t] = "bound"
    /\ t \in TaskOwned /\ state[t] = "open" /\ raw[t] # "done" /\ ~expired[t]
    /\ SubmitterGoes(t, "scheduled")
    /\ timer' = [timer EXCEPT ![t] = "armed"]
    /\ UNCHANGED <<state, failure, token, timerBound, handle, expired, group, threads>>

ArmsExpired(t) ==
    /\ submitter[t] = "bound"
    /\ t \in TaskOwned /\ state[t] = "open" /\ raw[t] # "done" /\ expired[t]
    /\ SubmitterGoes(t, "armed")
    /\ Expired(t)
    /\ UNCHANGED <<timer, stamp, interrupted, published, spoilt, expired, group, listing,
                   visiting, aborting>>

\* The timer refuses: the task fails and submit raises.
ArmFails(t) ==
    /\ submitter[t] = "bound"
    /\ t \in TaskOwned /\ state[t] = "open" /\ raw[t] # "done" /\ ~expired[t]
    /\ SubmitterGoes(t, "raised")
    /\ Mark(t, "failed", "own")
    /\ UNCHANGED <<token, handle, expired, group, listing, visiting, aborting, syncing>>

\* bind_task_deadline: a record that became terminal meanwhile takes no timer.
TimerWanted(t) == state[t] = "open"

BindTimer(t) ==
    /\ submitter[t] = "scheduled"
    /\ SubmitterGoes(t, "armed")
    /\ timerBound' = [timerBound EXCEPT ![t] = TimerWanted(t)]
    /\ timer' = [timer EXCEPT ![t] = IF @ = "armed" /\ ~TimerWanted(t) THEN "cancelled" ELSE @]
    /\ UNCHANGED <<state, failure, token, handle, expired, group, threads>>

\* Before it hands out the handle the submitter looks at the tokens once more.
LastCheck(t) ==
    /\ submitter[t] = "armed"
    /\ SubmitterGoes(t, "returned")
    /\ visiting' = IF groupToken THEN visiting \cup {t} ELSE visiting
    /\ UNCHANGED <<record, handle, expired, group, owed, listing, aborting, syncing>>

TimerFires(t) ==
    /\ timer[t] = "armed" /\ expired[t]
    /\ timer' = [timer EXCEPT ![t] = "fired"]
    /\ Expired(t)
    /\ UNCHANGED <<submitter, stamp, interrupted, published, spoilt, expired, group, listing,
                   visiting, aborting>>

\* handle.result: its bounded wait ended, or the function itself raised a
\* TimeoutError, which is what the code cannot tell apart.
ResultTimesOut(t) ==
    /\ submitter[t] = "returned" /\ failure[t] # "deadline"
    /\ t \in TaskOwned \/ HasGroupDeadline
    /\ \/ Late(t) /\ raw[t] # "done"
       \/ raw[t] = "done" /\ result[t] \in {"timeout", "foreign", "deadline"}
    /\ IF GroupOwned(t)
       THEN /\ owed' = owed \cup {"deadline"}
            /\ UNCHANGED <<state, failure, token, timerBound, raw, result, syncing>>
       ELSE Expired(t)
    /\ UNCHANGED <<submitter, timer, stamp, interrupted, published, spoilt, expired, group,
                   listing, visiting, aborting>>

-----------------------------------------------------------------------------
(***************************************************************************)
(* Cancellation of the group and of single tasks.                          *)
(***************************************************************************)
GroupTimerFires ==
    /\ groupTimer = "armed" /\ groupExpired
    /\ groupTimer' = "fired"
    /\ owed' = owed \cup {"deadline"}
    /\ UNCHANGED <<submitter, record, handle, expired, groupToken, reason, groupExpired,
                   listing, visiting, aborting, syncing>>

\* StructuredTaskGroup.cancel: the token takes the first reason; then the group
\* timer is taken, and cancel_all lists the records and visits each.
CancelGroup(r) ==
    /\ r \in owed
    /\ owed' = owed \ {r}
    /\ groupToken' = TRUE
    /\ reason' = IF groupToken THEN reason ELSE r
    /\ groupTimer' = IF groupTimer = "armed" THEN "cancelled" ELSE groupTimer
    /\ listing' = TRUE
    /\ UNCHANGED <<submitter, record, handle, expired, groupExpired, visiting, aborting, syncing>>

Listed == Records

CancelLists ==
    /\ listing
    /\ listing' = FALSE
    /\ visiting' = visiting \cup Listed
    /\ UNCHANGED <<submitter, record, handle, expired, group, owed, aborting, syncing>>

\* The owner's handle.cancel.
CancelHandle(t) ==
    /\ t \in Cancellable /\ submitter[t] = "returned" /\ state[t] = "open"
    /\ visiting' = visiting \cup {t}
    /\ UNCHANGED <<submitter, record, handle, expired, group, owed, listing, aborting, syncing>>

\* cancel_task reads the record under the lock; it then sets the task's token,
\* cancels the raw handle it read and marks the record.
CancelReads(t) ==
    /\ t \in visiting
    /\ visiting' = visiting \ {t}
    /\ token' = [token EXCEPT ![t] = @ \/ state[t] = "open"]
    /\ aborting' = IF state[t] = "open" THEN aborting \cup {<<t, Bound(t)>>} ELSE aborting
    /\ UNCHANGED <<submitter, state, failure, timer, timerBound, handle, expired, group,
                   owed, listing, syncing>>

CancelMarks(t, bound) ==
    /\ <<t, bound>> \in aborting
    /\ aborting' = aborting \ {<<t, bound>>}
    /\ RevokeRaw(t, bound)
    /\ Mark(t, "cancelled", "none")
    /\ UNCHANGED <<submitter, token, stamp, interrupted, published, spoilt, expired, group,
                   listing, visiting, syncing>>

-----------------------------------------------------------------------------
Submission(t) ==
    \/ EnterScope(t) \/ Reserve(t) \/ Accept(t) \/ RefuseCancelled(t) \/ RefuseFailed(t)
    \/ BindRaw(t) \/ ArmsNothing(t) \/ ArmsTimer(t) \/ ArmsExpired(t) \/ ArmFails(t)
    \/ BindTimer(t) \/ LastCheck(t)

Execution(t) ==
    \/ Start(t) \/ PassLastCheckpoint(t) \/ Finish(t) \/ Observe(t)
    \/ CaptureReads(t) \/ CaptureStores(t)

Syncing(t) == SyncReads(t) \/ \E missed, cut \in BOOLEAN : SyncMarks(t, missed, cut)

Cancelling(t) == CancelReads(t) \/ \E bound \in BOOLEAN : CancelMarks(t, bound)

GroupCancelling == CancelLists \/ \E r \in Reasons : CancelGroup(r)

Next ==
    \/ \E t \in Tasks : \/ Submission(t) \/ Execution(t) \/ Syncing(t) \/ Cancelling(t)
                        \/ TimerFires(t) \/ ResultTimesOut(t) \/ CancelHandle(t)
                        \/ TaskDeadlinePasses(t)
    \/ GroupCancelling \/ GroupTimerFires \/ GroupDeadlinePasses

Spec == Init /\ [][Next]_vars

-----------------------------------------------------------------------------
(***************************************************************************)
(* Correctness.                                                            *)
(***************************************************************************)

\* What each variable holds; a failure goes with a failed record, and whatever
\* a thread still means to do concerns a task that has a record.
TypeOK ==
    /\ submitter \in [Tasks -> {"idle", "refused", "entered", "reserved", "accepted", "bound",
                                "scheduled", "armed", "raised", "returned"}]
    /\ state \in [Tasks -> Terminal \cup {"absent", "open"}]
    /\ failure \in [Tasks -> Causes \cup {"none"}]
    /\ raw \in [Tasks -> {"none", "queued", "running", "passed", "done"}]
    /\ result \in [Tasks -> {"none", "value", "error", "timeout", "foreign", "deadline", "cancelled"}]
    /\ stamp \in [Tasks -> {"none", "ontime", "late"}]
    /\ interrupted \in [Tasks -> BOOLEAN] /\ published \in [Tasks -> BOOLEAN]
    /\ spoilt \in [Tasks -> BOOLEAN]
    /\ token \in [Tasks -> BOOLEAN]
    /\ timer \in [Tasks -> {"none", "armed", "fired", "cancelled"}]
    /\ timerBound \in [Tasks -> BOOLEAN] /\ expired \in [Tasks -> BOOLEAN]
    /\ groupToken \in BOOLEAN /\ groupExpired \in BOOLEAN /\ listing \in BOOLEAN
    /\ reason \in Reasons \cup {"none"}
    /\ groupTimer \in {"none", "armed", "fired", "cancelled"}
    /\ owed \subseteq Reasons
    /\ visiting \subseteq Records
    /\ aborting \subseteq Records \X BOOLEAN
    /\ syncing \subseteq Records \X BOOLEAN \X BOOLEAN
    /\ \A t \in Tasks : failure[t] # "none" <=> state[t] = "failed"

\* The first verdict on a task stands: threads that decided on what they read
\* before it leave the record as it is, its failure included
\* (_TERMINAL_STATES guards of the marks and of expire_task).
VerdictIsFinal ==
    [][\A t \in Tasks : state[t] \in Terminal =>
          state'[t] = state[t] /\ failure'[t] = failure[t]]_vars

\* The completion of t with a value is published with a time before its deadline,
\* and no thread has decided that the deadline failed t.
DeadlineDecided(t) == failure[t] = "deadline" \/ \E cut \in BOOLEAN : <<t, TRUE, cut>> \in syncing
Met(t) == published[t] /\ stamp[t] = "ontime" /\ result[t] = "value" /\ ~DeadlineDecided(t)

\* Once a function's return before its task's deadline is published, nobody comes
\* to fail the task by that deadline, however late the timer, the waiter or the
\* synchronisation is (expire_task, sync_terminal_from_raw).  Before that they may:
\* the time is read first and published later (_capture_completion).
MetDeadlineIsHonoured == [][\A t \in Tasks : Met(t) => Met(t)']_vars

\* A task is never a success if, when its function ended, its own deadline had
\* passed or it or its group had been cancelled
\* (docs/infrastructure/runtime/LIFECYCLE_OS_V18.md:27; cancellation_times).
NoFalseSuccess ==
    \A t \in Tasks : state[t] = "succeeded" => ~spoilt[t]

\* A task that is over for another reason than its deadline leaves no timer
\* behind once submit has returned (bind_task_deadline and the marks race).
NoStrayTimer ==
    \A t \in Tasks : submitter[t] = "returned" /\ state[t] \in Terminal
                     /\ failure[t] # "deadline" => timer[t] # "armed"

\* When a group-scoped task of a fail-fast group has failed and no thread is still
\* cancelling, the token is set and the only open records are those of submitters
\* that have yet to meet it, at the provider or by the check after the bind: no
\* task handed out outlives the failure (mark_failed, cancel_all's copy).
NobodyOutlivesFailFast ==
    /\ FailFast /\ \E t \in Tasks \ CallerScoped : state[t] = "failed"
    /\ owed = {} /\ ~listing /\ visiting = {} /\ aborting = {}
    => /\ groupToken
       /\ \A t \in Tasks : state[t] = "open" => submitter[t] \notin {"returned", "raised"}

\* While the group deadline has not passed only the failure of a group-scoped
\* task cancels the group: the failure of a request that belongs to its caller
\* does not.
RequestFailureStaysItsCallers ==
    groupToken /\ ~groupExpired =>
        \E t \in Tasks \ CallerScoped : state[t] = "failed"
=============================================================================
