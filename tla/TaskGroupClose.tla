--------------------------- MODULE TaskGroupClose ---------------------------
(***************************************************************************)
(* Submission scopes and the close protocol of one StructuredTaskGroup.    *)
(*                                                                         *)
(* Threads: one submitting thread per one-shot task, the provider workers  *)
(* that run the accepted children, the timer thread that runs the tick of  *)
(* the group's recurring task, one thread that calls group.cancel, and the *)
(* threads that call group.close.  A close is led by one thread; threads   *)
(* that arrive meanwhile wait on the event the leader sets.  A bounded     *)
(* close that fails may be called again.                                   *)
(*                                                                         *)
(* Children are abstracted to what close can tell apart: whether the       *)
(* provider still owns the execution, and which kind of result it left.    *)
(* Deadlines of single tasks are in TaskState, the lane in SerialLane.     *)
(***************************************************************************)
EXTENDS Naturals, FiniteSets

CONSTANTS
    Tasks,          \* one-shot task ids, each submitted by a thread of its own
    SerialTasks,    \* the tasks submitted to the group's serial lane
    CallerScoped,   \* the tasks whose failure_scope is CALLER
    Closers,        \* the threads that call close
    CancelPending,  \* the closers that pass cancel_pending=True
    Patient,        \* the closers whose close deadline does not expire
    Canceller,      \* the thread that calls cancel (fail-fast, deadline, user)
    HasRecurring    \* whether the group owns a recurring task

ASSUME TaskGroupCloseAssumption ==
    /\ IsFiniteSet(Tasks)
    /\ SerialTasks \subseteq Tasks
    /\ CallerScoped \subseteq Tasks
    /\ CancelPending \subseteq Closers
    /\ Patient \subseteq Closers
    /\ Canceller \notin Closers
    /\ HasRecurring \in BOOLEAN

VARIABLES
    active,       \* _active_submissions
    closing,      \* _closing
    closed,       \* _closed
    converged,    \* _converged
    failure,      \* _close_failure: is there one
    event,        \* _close_complete, the threading.Event
    cancelled,    \* the group's cancellation token
    subCancelled, \* _submission_cancellation
    submitter,    \* where each submitting thread is
    state,        \* logical state of each task record ("absent": no record)
    raw,          \* the execution the provider owns for each task
    result,       \* what raw.result() gives once raw is done
    closer,       \* where each closing thread is
    quiesced,     \* submissions_quiesced, local to a leader
    errors,       \* errors, local to a leader: is there one
    lanesOk,      \* on_close_succeeded, local to a leader
    assessed,     \* converged, local to a leader
    outcome,      \* how each thread's last close returned
    todo,         \* the records a cancel_all or a wait still has to visit
    canceller,    \* where the cancelling thread is
    laneClosed,   \* _closed of the group's serial lane
    recurring,    \* logical state of the recurring record
    recCancelled, \* its cancelled flag
    tick,         \* where the timer thread is in tick()
    item,         \* the lane item of the newest tick
    itemBound     \* whether record.current is that item

lifecycle  == <<active, closing, closed, converged, failure, event>>
tokens     == <<cancelled, subCancelled>>
children   == <<state, raw, result>>
leading    == <<quiesced, errors, lanesOk, assessed>>
periodic   == <<recurring, recCancelled, tick, item, itemBound>>
vars == <<lifecycle, tokens, submitter, children, closer, leading, outcome,
          todo, canceller, laneClosed, periodic>>

Terminal     == {"succeeded", "failed", "cancelled"}
Results      == {"value", "error", "timeout", "cancelled"}
ScopePcs     == {"entered", "reserved", "accepted", "bound", "leaving"}
LeaderPcs    == {"sealed", "cancelling", "quiescing", "stopping", "joining",
                 "sealing_lane", "draining", "assessing", "publishing"}

InScope      == {t \in Tasks : submitter[t] \in ScopePcs}
Records      == {t \in Tasks : state[t] # "absent"}
Bound(t)     == submitter[t] \in {"bound", "leaving", "left"} /\ raw[t] # "none"
Finished(t)  == raw[t] = "done"
ItemDone     == item \in {"none", "done"}
CurrentDone  == itemBound => ItemDone

Init ==
    /\ active = 0
    /\ closing = FALSE /\ closed = FALSE /\ converged = FALSE
    /\ failure = FALSE /\ event = FALSE
    /\ cancelled = FALSE /\ subCancelled = FALSE
    /\ submitter = [t \in Tasks |-> "idle"]
    /\ state = [t \in Tasks |-> "absent"]
    /\ raw = [t \in Tasks |-> "none"]
    /\ result = [t \in Tasks |-> "none"]
    /\ closer = [c \in Closers |-> "idle"]
    /\ quiesced = [c \in Closers |-> FALSE]
    /\ errors = [c \in Closers |-> FALSE]
    /\ lanesOk = [c \in Closers |-> FALSE]
    /\ assessed = [c \in Closers |-> FALSE]
    /\ outcome = [c \in Closers |-> "none"]
    /\ todo = [a \in Closers \cup {Canceller} |-> {}]
    /\ canceller = "idle"
    /\ laneClosed = FALSE
    /\ recurring = IF HasRecurring THEN "running" ELSE "cancelled"
    /\ recCancelled = ~HasRecurring
    /\ tick = "idle" /\ item = "none" /\ itemBound = FALSE

-----------------------------------------------------------------------------
(***************************************************************************)
(* Faulty forms of some definitions below.  Each is what a plausible slip  *)
(* in the code would give; the mutation runs put it in the place of the    *)
(* definition it is named for and expect a property to fail.               *)
(***************************************************************************)
ScopeEntryUncounted == active
InterruptedByGroupOnly == cancelled
LeadsBesideLeader == ~(closed /\ converged)
LeadsAgainConverged == ~closing
JoinErrorsFailureSwallowed(c, joined, after) == ~joined
AllExecutionDoneNeedsHandle ==
    /\ \A t \in Records : Bound(t) /\ Finished(t)
    /\ CurrentDone
ConvergesUnquiesced(c) ==
    /\ \A t \in Records : IF Bound(t) THEN Finished(t) ELSE state[t] \in Terminal
    /\ CurrentDone
    /\ lanesOk[c]

-----------------------------------------------------------------------------
(***************************************************************************)
(* Submission.                                                             *)
(***************************************************************************)

\* The count after a thread enters submission_scope.
ScopeEntry == active + 1

\* _AnyCancellation of the group's token and the submission token.
Interrupted == cancelled \/ subCancelled

\* submission_scope, entered under the lifecycle condition.
EnterScope(t) ==
    /\ submitter[t] = "idle"
    /\ ~closing /\ ~closed /\ ~cancelled
    /\ active' = ScopeEntry
    /\ submitter' = [submitter EXCEPT ![t] = "entered"]
    /\ UNCHANGED <<closing, closed, converged, failure, event, tokens, children,
                   closer, leading, outcome, todo, canceller, laneClosed, periodic>>

\* submission_scope raising: the group is sealed or cancelled.
RefuseScope(t) ==
    /\ submitter[t] = "idle"
    /\ closing \/ closed \/ cancelled
    /\ submitter' = [submitter EXCEPT ![t] = "refused"]
    /\ UNCHANGED <<lifecycle, tokens, children, closer, leading, outcome, todo,
                   canceller, laneClosed, periodic>>

\* _reserve_task: the record exists from here on, without a raw handle.
Reserve(t) ==
    /\ submitter[t] = "entered"
    /\ submitter' = [submitter EXCEPT ![t] = "reserved"]
    /\ state' = [state EXCEPT ![t] = "pending"]
    /\ UNCHANGED <<lifecycle, tokens, raw, result, closer, leading, outcome, todo,
                   canceller, laneClosed, periodic>>

\* The provider takes the work; it tests the two cancellation tokens under its
\* own condition, and a lane also its closed flag.
ProviderAccept(t) ==
    /\ submitter[t] = "reserved"
    /\ ~Interrupted
    /\ t \in SerialTasks => ~laneClosed
    /\ submitter' = [submitter EXCEPT ![t] = "accepted"]
    /\ raw' = [raw EXCEPT ![t] = "queued"]
    /\ UNCHANGED <<lifecycle, tokens, state, result, closer, leading, outcome, todo,
                   canceller, laneClosed, periodic>>

Mark(t, s) == IF state[t] \in Terminal THEN state ELSE [state EXCEPT ![t] = s]

\* A blocked admission is interrupted by either token.
ProviderCancel(t) ==
    /\ submitter[t] = "reserved"
    /\ Interrupted
    /\ submitter' = [submitter EXCEPT ![t] = "leaving"]
    /\ state' = Mark(t, "cancelled")
    /\ UNCHANGED <<lifecycle, tokens, raw, result, closer, leading, outcome, todo,
                   canceller, laneClosed, periodic>>

\* The provider refuses: a permit or mailbox rejection cancels the record, any
\* other exception fails it.
ProviderReject(t) ==
    /\ submitter[t] = "reserved"
    /\ submitter' = [submitter EXCEPT ![t] = "leaving"]
    /\ \E s \in {"cancelled", "failed"} : state' = Mark(t, s)
    /\ UNCHANGED <<lifecycle, tokens, raw, result, closer, leading, outcome, todo,
                   canceller, laneClosed, periodic>>

\* bind_raw and add_done_callback.
Bind(t) ==
    /\ submitter[t] = "accepted"
    /\ submitter' = [submitter EXCEPT ![t] = "bound"]
    /\ UNCHANGED <<lifecycle, tokens, children, closer, leading, outcome, todo,
                   canceller, laneClosed, periodic>>

\* cancel_task: cooperative cancellation, raw.cancel(), mark_cancelled.  Only a
\* future that has not started can be cancelled, and only a bound one is seen.
CancelRecord(t) ==
    IF state[t] \in Terminal \cup {"absent"}
    THEN UNCHANGED children
    ELSE /\ state' = [state EXCEPT ![t] = "cancelled"]
         /\ IF Bound(t) /\ raw[t] = "queued"
            THEN /\ raw' = [raw EXCEPT ![t] = "done"]
                 /\ result' = [result EXCEPT ![t] = "cancelled"]
            ELSE UNCHANGED <<raw, result>>

\* The last test of _submit_contextual and _submit_cpu, after the bind.
CancelIfClosing(t) ==
    /\ submitter[t] = "bound"
    /\ submitter' = [submitter EXCEPT ![t] = "leaving"]
    /\ IF Interrupted THEN CancelRecord(t) ELSE UNCHANGED children
    /\ UNCHANGED <<lifecycle, tokens, closer, leading, outcome, todo, canceller,
                   laneClosed, periodic>>

\* The finally of submission_scope.
LeaveScope(t) ==
    /\ submitter[t] = "leaving"
    /\ submitter' = [submitter EXCEPT ![t] = "left"]
    /\ active' = active - 1
    /\ UNCHANGED <<closing, closed, converged, failure, event, tokens, children,
                   closer, leading, outcome, todo, canceller, laneClosed, periodic>>

-----------------------------------------------------------------------------
(***************************************************************************)
(* Execution of the children.                                              *)
(***************************************************************************)

\* A provider worker starts a queued child.
Start(t) ==
    /\ raw[t] = "queued"
    /\ raw' = [raw EXCEPT ![t] = "running"]
    /\ UNCHANGED <<lifecycle, tokens, submitter, state, result, closer, leading,
                   outcome, todo, canceller, laneClosed, periodic>>

\* The child returns or raises; it raises TaskCancelled only from a checkpoint
\* that sees its own or the group's token cancelled.
Finish(t) ==
    /\ raw[t] = "running"
    /\ raw' = [raw EXCEPT ![t] = "done"]
    /\ \E r \in Results :
          /\ r = "cancelled" => cancelled \/ state[t] = "cancelled"
          /\ result' = [result EXCEPT ![t] = r]
    /\ UNCHANGED <<lifecycle, tokens, submitter, state, closer, leading, outcome,
                   todo, canceller, laneClosed, periodic>>

\* The states sync_terminal_from_raw may give a record that is still open: a
\* value counts as cancelled when the group was cancelled before completion.
Synced(t) ==
    CASE result[t] = "cancelled"            -> {"cancelled"}
      [] result[t] \in {"error", "timeout"} -> {"failed"}
      [] OTHER -> IF cancelled THEN {"succeeded", "cancelled"} ELSE {"succeeded"}

\* The done callback of a bound child.
Sync(t) ==
    /\ Bound(t) /\ Finished(t)
    /\ state[t] \notin Terminal
    /\ \E s \in Synced(t) : state' = [state EXCEPT ![t] = s]
    /\ UNCHANGED <<lifecycle, tokens, submitter, raw, result, closer, leading,
                   outcome, todo, canceller, laneClosed, periodic>>

-----------------------------------------------------------------------------
(***************************************************************************)
(* The recurring task: the timer thread's tick, outside every submission   *)
(* scope, and the lane item it leaves.                                     *)
(***************************************************************************)

\* recurring_tick_status lets the tick pass.
TickPasses ==
    /\ tick = "idle"
    /\ ~closing /\ ~closed /\ ~recCancelled /\ ~cancelled
    /\ CurrentDone
    /\ recurring # "failed"
    /\ tick' = "checked"
    /\ UNCHANGED <<lifecycle, tokens, submitter, children, closer, leading, outcome,
                   todo, canceller, laneClosed, recurring, recCancelled, item, itemBound>>

\* The lane takes the tick's work item.
TickEnqueue ==
    /\ tick = "checked"
    /\ ~laneClosed /\ ~cancelled /\ ~recCancelled
    /\ tick' = "enqueued"
    /\ item' = "queued"
    /\ itemBound' = FALSE
    /\ UNCHANGED <<lifecycle, tokens, submitter, children, closer, leading, outcome,
                   todo, canceller, laneClosed, recurring, recCancelled>>

\* The submission raises TaskCancelled, a mailbox rejection (the tick is
\* dropped) or another exception, which fails a record that is still open.
TickRefused ==
    /\ tick = "checked"
    /\ tick' = "idle"
    /\ \/ /\ cancelled \/ recCancelled
          /\ recurring' = IF recurring = "failed" THEN "failed" ELSE "cancelled"
       \/ UNCHANGED recurring
       \/ recurring' = IF recurring = "cancelled" THEN "cancelled" ELSE "failed"
    /\ UNCHANGED <<lifecycle, tokens, submitter, children, closer, leading, outcome,
                   todo, canceller, laneClosed, recCancelled, item, itemBound>>

\* set_recurring_current, after the work was already handed over.
TickBind ==
    /\ tick = "enqueued"
    /\ tick' = "idle"
    /\ itemBound' = TRUE
    /\ UNCHANGED <<lifecycle, tokens, submitter, children, closer, leading, outcome,
                   todo, canceller, laneClosed, recurring, recCancelled, item>>

ItemStart ==
    /\ item = "queued"
    /\ item' = "running"
    /\ UNCHANGED <<lifecycle, tokens, submitter, children, closer, leading, outcome,
                   todo, canceller, laneClosed, recurring, recCancelled, tick, itemBound>>

\* The tick's function ends; on_done records a failure or a cancellation.
ItemFinish ==
    /\ item = "running"
    /\ item' = "done"
    /\ \/ UNCHANGED recurring
       \/ recurring' = IF recurring = "cancelled" THEN "cancelled" ELSE "failed"
       \/ /\ cancelled \/ recCancelled
          /\ recurring' = IF recurring = "failed" THEN "failed" ELSE "cancelled"
    /\ UNCHANGED <<lifecycle, tokens, submitter, children, closer, leading, outcome,
                   todo, canceller, laneClosed, recCancelled, tick, itemBound>>

\* cancel_recurring: flag, logical state, and the current item if it is bound
\* and has not started.
CancelRecurring ==
    /\ recCancelled' = TRUE
    /\ recurring' = IF recurring = "failed" THEN "failed" ELSE "cancelled"
    /\ item' = IF itemBound /\ item = "queued" THEN "done" ELSE item

-----------------------------------------------------------------------------
(***************************************************************************)
(* group.cancel, on a thread of its own or inside a close.                 *)
(***************************************************************************)

\* The token is cancelled, then cancel_all lists the records and starts with
\* the recurring ones.
CancelGroup(a) ==
    /\ cancelled' = TRUE
    /\ CancelRecurring
    /\ todo' = [todo EXCEPT ![a] = Records]

CancelBegins ==
    /\ canceller = "idle"
    /\ CancelGroup(Canceller)
    /\ canceller' = "cancelling"
    /\ UNCHANGED <<lifecycle, subCancelled, submitter, children, closer, leading,
                   outcome, laneClosed, tick, itemBound>>

\* One iteration of cancel_all's loop over the records.
CancelVisits(a, t) ==
    /\ t \in todo[a]
    /\ IF a = Canceller THEN canceller = "cancelling" ELSE closer[a] = "cancelling"
    /\ todo' = [todo EXCEPT ![a] = @ \ {t}]
    /\ CancelRecord(t)
    /\ UNCHANGED <<lifecycle, tokens, submitter, closer, leading, outcome, canceller,
                   laneClosed, periodic>>

CancelEnds ==
    /\ canceller = "cancelling" /\ todo[Canceller] = {}
    /\ canceller' = "idle"
    /\ UNCHANGED <<lifecycle, tokens, submitter, children, closer, leading, outcome,
                   todo, laneClosed, periodic>>

-----------------------------------------------------------------------------
(***************************************************************************)
(* close.                                                                  *)
(***************************************************************************)

CloserGoes(c, pc) == closer' = [closer EXCEPT ![c] = pc]
Returns(c, failed) ==
    /\ CloserGoes(c, "idle")
    /\ outcome' = [outcome EXCEPT ![c] = IF failed THEN "failed" ELSE "clean"]

\* begin_close: already converged, the recorded verdict is returned again.
CloseIsComplete(c) ==
    /\ closer[c] = "idle"
    /\ closed /\ converged
    /\ Returns(c, failure)
    /\ UNCHANGED <<lifecycle, tokens, submitter, children, leading, todo, canceller,
                   laneClosed, periodic>>

\* begin_close: another thread leads, this one waits for its event.
CloseMustWait(c) ==
    /\ closer[c] = "idle"
    /\ ~(closed /\ converged) /\ closing
    /\ CloserGoes(c, "arriving")
    /\ outcome' = [outcome EXCEPT ![c] = "none"]
    /\ UNCHANGED <<lifecycle, tokens, submitter, children, leading, todo, canceller,
                   laneClosed, periodic>>

\* begin_close: this thread leads, unless the group has converged or another
\* thread is leading.
Leads == ~(closed /\ converged) /\ ~closing

CloseLeads(c) ==
    /\ closer[c] = "idle"
    /\ Leads
    /\ closing' = TRUE /\ closed' = TRUE /\ failure' = FALSE /\ event' = FALSE
    /\ CloserGoes(c, "sealed")
    /\ outcome' = [outcome EXCEPT ![c] = "none"]
    /\ UNCHANGED <<active, converged, tokens, submitter, children, leading, todo,
                   canceller, laneClosed, periodic>>

\* Cancel the submission token, which interrupts blocked admissions.
CloseSealsSubmissions(c) ==
    /\ closer[c] = "sealed"
    /\ subCancelled' = TRUE
    /\ IF c \in CancelPending
       THEN /\ CancelGroup(c)
            /\ CloserGoes(c, "cancelling")
       ELSE /\ CloserGoes(c, "quiescing")
            /\ UNCHANGED <<cancelled, todo, recurring, recCancelled, item>>
    /\ UNCHANGED <<lifecycle, submitter, children, leading, outcome, canceller,
                   laneClosed, tick, itemBound>>

CloseCancelled(c) ==
    /\ closer[c] = "cancelling" /\ todo[c] = {}
    /\ CloserGoes(c, "quiescing")
    /\ UNCHANGED <<lifecycle, tokens, submitter, children, leading, outcome, todo,
                   canceller, laneClosed, periodic>>

\* wait_for_submissions returns, or times out with submissions still active.
CloseQuiesces(c) ==
    /\ closer[c] = "quiescing"
    /\ \/ /\ active = 0
          /\ quiesced' = [quiesced EXCEPT ![c] = TRUE]
          /\ UNCHANGED errors
       \/ /\ active > 0 /\ c \notin Patient
          /\ errors' = [errors EXCEPT ![c] = TRUE]
          /\ UNCHANGED quiesced
    /\ CloserGoes(c, "stopping")
    /\ UNCHANGED <<lifecycle, tokens, submitter, children, lanesOk, assessed, outcome,
                   todo, canceller, laneClosed, periodic>>

\* cancel_all_recurring, then wait() lists the records.
CloseStopsRecurring(c) ==
    /\ closer[c] = "stopping"
    /\ CancelRecurring
    /\ todo' = [todo EXCEPT ![c] = Records]
    /\ CloserGoes(c, "joining")
    /\ UNCHANGED <<lifecycle, tokens, submitter, children, leading, outcome, canceller,
                   laneClosed, tick, itemBound>>

\* What wait() raises for: a join that timed out, a child's own TimeoutError
\* (taken for such a join), a group-scoped failure, a failed recurring task.
JoinErrors(c, joined, after) ==
    \/ ~joined
    \/ \E t \in todo[c] : Bound(t) /\ Finished(t) /\ result[t] = "timeout"
    \/ \E t \in todo[c] \ CallerScoped : after[t] = "failed"
    \/ recurring = "failed"

\* wait(): every listed execution is joined, or the deadline expires first.
CloseJoins(c) ==
    /\ closer[c] = "joining"
    /\ LET open   == {t \in todo[c] : Bound(t) /\ ~Finished(t)}
           synced == {t \in todo[c] : Bound(t) /\ Finished(t) /\ state[t] \notin Terminal}
           joined == open = {} /\ CurrentDone
       IN /\ joined \/ c \notin Patient
          /\ \E s \in [Tasks -> Terminal] :
                /\ \A t \in Tasks : s[t] \in IF t \in synced THEN Synced(t) ELSE {"cancelled"}
                /\ state' = [t \in Tasks |-> IF t \in synced THEN s[t] ELSE state[t]]
          /\ errors' = [errors EXCEPT ![c] = @ \/ JoinErrors(c, joined, state')]
    /\ todo' = [todo EXCEPT ![c] = {}]
    /\ CloserGoes(c, "sealing_lane")
    /\ UNCHANGED <<lifecycle, tokens, submitter, raw, result, quiesced, lanesOk,
                   assessed, outcome, canceller, laneClosed, periodic>>

\* _close_group_lanes: lane.close(cancel_pending=False) seals the lane, ...
CloseSealsLane(c) ==
    /\ closer[c] = "sealing_lane"
    /\ laneClosed' = TRUE
    /\ CloserGoes(c, "draining")
    /\ UNCHANGED <<lifecycle, tokens, submitter, children, leading, outcome, todo,
                   canceller, periodic>>

LaneDrained ==
    /\ \A t \in SerialTasks : raw[t] \in {"none", "done"}
    /\ ItemDone

\* ... and waits until nothing on it is queued or running.
CloseDrainsLane(c) ==
    /\ closer[c] = "draining"
    /\ \/ /\ LaneDrained
          /\ lanesOk' = [lanesOk EXCEPT ![c] = TRUE]
          /\ UNCHANGED errors
       \/ /\ ~LaneDrained /\ c \notin Patient
          /\ errors' = [errors EXCEPT ![c] = TRUE]
          /\ UNCHANGED lanesOk
    /\ CloserGoes(c, "assessing")
    /\ UNCHANGED <<lifecycle, tokens, submitter, children, quiesced, assessed, outcome,
                   todo, canceller, laneClosed, periodic>>

\* all_execution_done: a record without a handle counts by its logical state.
AllExecutionDone ==
    /\ \A t \in Records : IF Bound(t) THEN Finished(t) ELSE state[t] \in Terminal
    /\ CurrentDone

\* The leader's verdict on convergence.
Converges(c) == quiesced[c] /\ AllExecutionDone /\ lanesOk[c]

CloseAssesses(c) ==
    /\ closer[c] = "assessing"
    /\ assessed' = [assessed EXCEPT ![c] = Converges(c)]
    /\ CloserGoes(c, "publishing")
    /\ UNCHANGED <<lifecycle, tokens, submitter, children, quiesced, errors, lanesOk,
                   outcome, todo, canceller, laneClosed, periodic>>

\* complete_close, the part under the lifecycle condition.
ClosePublishes(c) ==
    /\ closer[c] = "publishing"
    /\ failure' = errors[c]
    /\ converged' = assessed[c]
    /\ closing' = FALSE
    /\ CloserGoes(c, "signalling")
    /\ UNCHANGED <<active, closed, event, tokens, submitter, children, leading, outcome,
                   todo, canceller, laneClosed, periodic>>

\* complete_close, the event set after the condition was released: it wakes the
\* threads blocked on it.  The leader's locals end here.
CloseSignals(c) ==
    /\ closer[c] = "signalling"
    /\ event' = TRUE
    /\ closer' = [d \in Closers |-> IF d = c THEN "idle"
                                    ELSE IF closer[d] = "blocked" THEN "woken"
                                    ELSE closer[d]]
    /\ outcome' = [outcome EXCEPT ![c] = IF errors[c] THEN "failed" ELSE "clean"]
    /\ quiesced' = [quiesced EXCEPT ![c] = FALSE]
    /\ errors' = [errors EXCEPT ![c] = FALSE]
    /\ lanesOk' = [lanesOk EXCEPT ![c] = FALSE]
    /\ assessed' = [assessed EXCEPT ![c] = FALSE]
    /\ UNCHANGED <<active, closing, closed, converged, failure, tokens, submitter,
                   children, todo, canceller, laneClosed, periodic>>

\* wait_for_existing_close: Event.wait returns at once when the event is set.
AwaitClose(c) ==
    /\ closer[c] = "arriving"
    /\ CloserGoes(c, IF event THEN "woken" ELSE "blocked")
    /\ UNCHANGED <<lifecycle, tokens, submitter, children, leading, outcome, todo,
                   canceller, laneClosed, periodic>>

AwaitTimesOut(c) ==
    /\ closer[c] = "blocked" /\ c \notin Patient
    /\ Returns(c, TRUE)
    /\ UNCHANGED <<lifecycle, tokens, submitter, children, leading, todo, canceller,
                   laneClosed, periodic>>

\* The woken waiter takes the condition again and reads the failure.
ReadVerdict(c) ==
    /\ closer[c] = "woken"
    /\ Returns(c, failure)
    /\ UNCHANGED <<lifecycle, tokens, submitter, children, leading, todo, canceller,
                   laneClosed, periodic>>

-----------------------------------------------------------------------------
Submit(t) ==
    \/ EnterScope(t) \/ RefuseScope(t) \/ Reserve(t) \/ ProviderAccept(t)
    \/ ProviderCancel(t) \/ ProviderReject(t) \/ Bind(t) \/ CancelIfClosing(t)
    \/ LeaveScope(t)
Execute(t) == Start(t) \/ Finish(t) \/ Sync(t)
Tick == TickPasses \/ TickEnqueue \/ TickRefused \/ TickBind \/ ItemStart \/ ItemFinish
Cancel == CancelBegins \/ CancelEnds \/ \E t \in Tasks : CancelVisits(Canceller, t)
Close(c) ==
    \/ CloseIsComplete(c) \/ CloseMustWait(c) \/ CloseLeads(c)
    \/ CloseSealsSubmissions(c) \/ CloseCancelled(c) \/ CloseQuiesces(c)
    \/ CloseStopsRecurring(c) \/ CloseJoins(c) \/ CloseSealsLane(c)
    \/ CloseDrainsLane(c) \/ CloseAssesses(c) \/ ClosePublishes(c)
    \/ CloseSignals(c) \/ AwaitClose(c) \/ AwaitTimesOut(c) \/ ReadVerdict(c)
    \/ \E t \in Tasks : CancelVisits(c, t)

Next ==
    \/ \E t \in Tasks : Submit(t) \/ Execute(t)
    \/ Tick
    \/ Cancel
    \/ \E c \in Closers : Close(c)

Spec == Init /\ [][Next]_vars

(***************************************************************************)
(* Fairness.  A thread inside the group's code keeps running; a started    *)
(* child ends; a provider that is asked to stop waiting notices within its *)
(* poll interval.  Nothing obliges a provider to accept work, a thread to  *)
(* submit, cancel or close, or a deadline to expire.                       *)
(***************************************************************************)
SubmitProgress(t) ==
    Reserve(t) \/ ProviderCancel(t) \/ Bind(t) \/ CancelIfClosing(t) \/ LeaveScope(t)
CloseProgress(c) == closer[c] # "idle" /\ Close(c)

FairSpec ==
    /\ Spec
    /\ \A t \in Tasks : WF_vars(SubmitProgress(t)) /\ WF_vars(Start(t)) /\ WF_vars(Finish(t))
    /\ WF_vars(ItemStart) /\ WF_vars(ItemFinish)
    /\ \A c \in Closers : WF_vars(CloseProgress(c))

-----------------------------------------------------------------------------
(***************************************************************************)
(* Properties.                                                             *)
(***************************************************************************)

\* Every variable stays in the set its declaration describes.
TypeOK ==
    /\ active \in Nat
    /\ closing \in BOOLEAN /\ closed \in BOOLEAN /\ converged \in BOOLEAN
    /\ failure \in BOOLEAN /\ event \in BOOLEAN
    /\ cancelled \in BOOLEAN /\ subCancelled \in BOOLEAN
    /\ submitter \in [Tasks -> ScopePcs \cup {"idle", "refused", "left"}]
    /\ state \in [Tasks -> Terminal \cup {"absent", "pending"}]
    /\ raw \in [Tasks -> {"none", "queued", "running", "done"}]
    /\ result \in [Tasks -> Results \cup {"none"}]
    /\ closer \in [Closers -> LeaderPcs \cup {"idle", "arriving", "blocked", "woken", "signalling"}]
    /\ quiesced \in [Closers -> BOOLEAN] /\ errors \in [Closers -> BOOLEAN]
    /\ lanesOk \in [Closers -> BOOLEAN] /\ assessed \in [Closers -> BOOLEAN]
    /\ outcome \in [Closers -> {"none", "clean", "failed"}]
    /\ todo \in [Closers \cup {Canceller} -> SUBSET Tasks]
    /\ canceller \in {"idle", "cancelling"}
    /\ laneClosed \in BOOLEAN
    /\ recurring \in {"running", "failed", "cancelled"}
    /\ recCancelled \in BOOLEAN
    /\ tick \in {"idle", "checked", "enqueued"}
    /\ item \in {"none", "queued", "running", "done"}
    /\ itemBound \in BOOLEAN

\* A group that reports converged has physically joined: no thread is inside a
\* submission, the providers hold none of its executions, and its lane is sealed
\* and empty, the work of a tick that outlived the seal included.
ConvergedMeansJoined ==
    converged => /\ active = 0 /\ InScope = {}
                 /\ \A t \in Tasks : raw[t] \in {"none", "done"}
                 /\ laneClosed /\ ItemDone

\* One thread at a time leads a close, and closing is set exactly while it does.
SingleLeader ==
    /\ \A c, d \in Closers : closer[c] \in LeaderPcs /\ closer[d] \in LeaderPcs => c = d
    /\ closing <=> \E c \in Closers : closer[c] \in LeaderPcs

\* A leader about to return normally has seen the group converge: no error of
\* the bounded steps may be swallowed on the way.
LeaderVerdictIsTrue ==
    \A c \in Closers : closer[c] = "signalling" /\ ~errors[c] => assessed[c] /\ converged

\* A leader about to return normally hides no failure of a group-owned child.
FailuresAreReported ==
    \A c \in Closers : closer[c] = "signalling" /\ ~errors[c] =>
        /\ \A t \in Tasks \ CallerScoped : state[t] # "failed"
        /\ recurring # "failed"

\* Convergence is final: afterwards no close reopens the verdict and no provider
\* ever receives or runs work of the group.
ConvergenceIsFinal ==
    [][converged => UNCHANGED <<active, closing, closed, converged, failure, raw, item>>]_vars

\* A thread whose deadline does not expire gets out of close, whether it leads
\* or waits for another leader (who may be bounded and fail).
PatientCloseReturns == \A c \in Patient : closer[c] # "idle" ~> closer[c] = "idle"

\* A close that leads without a deadline makes the group converge, also after
\* earlier bounded closes gave up, and although admissions may block for ever.
PatientLeaderConverges == \A c \in Patient : closer[c] = "sealed" ~> converged

\* docs/history/rounds/platform/ROUND146_NOTES.md:19: "close() still joins owned
\* execution before claiming a clean shutdown".  Whoever returns normally from
\* close, leader or waiter, finds the group converged.
CleanCloseIsConverged == \A c \in Closers : outcome[c] = "clean" => converged
=============================================================================
