-------------------------- MODULE TaskStateProofs --------------------------
(***************************************************************************)
(* For any tasks, deadlines and failures, and however completion, expiry   *)
(* and cancellation race: the first verdict stands, it honours deadlines   *)
(* and cancellations, timers and fail-fast cancellation reach their ends.  *)
(***************************************************************************)
EXTENDS TaskState, TLAPS

-----------------------------------------------------------------------------
(***************************************************************************)
(* The inductive invariant: what each place of a thread says about the     *)
(* record, the raw handle and the timer of its task.                       *)
(***************************************************************************)

AcceptedPcs == {"accepted", "bound", "scheduled", "armed", "raised", "returned"}

\* The submitter has made the record, and the provider has taken the work.
Placed(t) ==
    /\ submitter[t] \in {"idle", "entered"} => state[t] = "absent"
    /\ submitter[t] \notin {"idle", "entered", "refused"} => state[t] # "absent"
    /\ submitter[t] = "raised" => state[t] # "open"
    /\ raw[t] # "none" <=> submitter[t] \in AcceptedPcs
    /\ raw[t] = "done" <=> result[t] # "none"

\* What an execution may have left behind.
ResultOK(t) ==
    /\ result[t] \in {"error", "timeout", "foreign"} => result[t] \in Failures
    /\ result[t] = "deadline" => t \in TaskOwned

\* A completion time is read after the execution and published after that; what had
\* passed or was set when the execution ended had so when the time was read.
CompletionOK(t) ==
    /\ published[t] => stamp[t] # "none"
    /\ stamp[t] # "none" => raw[t] = "done"
    /\ interrupted[t] => Cut(t)
    /\ stamp[t] = "late" /\ t \in TaskOwned => expired[t]
    /\ spoilt[t] => /\ raw[t] = "done"
                    /\ stamp[t] = "none" => Cut(t) \/ (t \in TaskOwned /\ expired[t])
                    /\ stamp[t] # "none" => interrupted[t] \/ (t \in TaskOwned /\ stamp[t] = "late")

\* A deadline that failed a task has passed, or the execution gave no value; a
\* success was none that came too late.
VerdictOK(t) ==
    /\ failure[t] = "deadline" => \/ raw[t] = "none" /\ submitter[t] = "refused"
                                  \/ raw[t] = "done" /\ result[t] # "value"
                                  \/ t \in TaskOwned /\ expired[t]
    /\ state[t] = "succeeded" => raw[t] = "done" /\ ~spoilt[t]

\* What a thread that read the record of t may conclude from it.
SyncOK(t) ==
    \A missed, cut \in BOOLEAN : <<t, missed, cut>> \in syncing =>
        /\ raw[t] = "done"
        /\ missed => t \in TaskOwned /\ expired[t]
        /\ ~missed /\ ~cut => ~spoilt[t]

\* An armed timer is about to be bound, or is bound to an open record, or belongs
\* to a deadline that has already failed the task.
TimerOK(t) ==
    /\ timerBound[t] => state[t] = "open"
    /\ timer[t] = "armed" => /\ submitter[t] \in {"scheduled", "armed", "returned"}
                             /\ t \in TaskOwned
                             /\ \/ submitter[t] = "scheduled"
                                \/ timerBound[t]
                                \/ failure[t] = "deadline"
    /\ timerBound[t] => submitter[t] \in {"armed", "returned"}

\* A task that was handed out and is open in a cancelled group is on the way of
\* some cancelling thread.
CancelOK(t) ==
    groupToken /\ state[t] = "open" /\ submitter[t] = "returned" =>
        listing \/ t \in visiting \/ \E bound \in BOOLEAN : <<t, bound>> \in aborting

TaskOK(t) ==
    Placed(t) /\ ResultOK(t) /\ CompletionOK(t) /\ VerdictOK(t) /\ SyncOK(t) /\ TimerOK(t) /\ CancelOK(t)

HasFailed == \E t \in Tasks \ CallerScoped : state[t] = "failed"

\* A group-scoped failure of a fail-fast group has cancelled the group or is about to.
FailFastOK == FailFast /\ HasFailed => groupToken \/ owed # {}

Inv == TypeOK /\ (\A t \in Tasks : TaskOK(t)) /\ FailFastOK

\* Without a group deadline, or without functions that raise timeouts, the group is
\* cancelled only for a reason.
Unambiguous == ~HasGroupDeadline \/ Failures \subseteq {"error"}
Reasoned ==
    /\ "deadline" \in owed => groupExpired
    /\ "failfast" \in owed => HasFailed
    /\ groupToken => groupExpired \/ HasFailed
ReasonedInv == Unambiguous => Reasoned

-----------------------------------------------------------------------------
(***************************************************************************)
(* Steps that concern one task.                                            *)
(***************************************************************************)

Same(u) ==
    /\ submitter'[u] = submitter[u] /\ state'[u] = state[u] /\ failure'[u] = failure[u]
    /\ raw'[u] = raw[u] /\ result'[u] = result[u] /\ stamp'[u] = stamp[u]
    /\ interrupted'[u] = interrupted[u] /\ published'[u] = published[u]
    /\ spoilt'[u] = spoilt[u] /\ token'[u] = token[u]
    /\ timer'[u] = timer[u] /\ timerBound'[u] = timerBound[u] /\ expired'[u] = expired[u]
    /\ u \in visiting => u \in visiting'
    /\ \A b \in BOOLEAN : <<u, b>> \in aborting => <<u, b>> \in aborting'
    /\ \A m, c \in BOOLEAN : <<u, m, c>> \in syncing' => <<u, m, c>> \in syncing

LEMMA OthersKept ==
    ASSUME NEW u \in Tasks, TaskOK(u), Same(u), groupToken' = groupToken, listing' = listing
    PROVE  TaskOK(u)'
<1> USE DEF Same
<1>1. Placed(u)' /\ ResultOK(u)'
  BY DEF TaskOK, Placed, ResultOK
<1>2. CompletionOK(u)'
  BY DEF TaskOK, CompletionOK, Cut
<1>3. VerdictOK(u)'
  BY DEF TaskOK, VerdictOK
<1>4. SyncOK(u)'
  BY DEF TaskOK, SyncOK
<1>5. TimerOK(u)'
  BY DEF TaskOK, TimerOK
<1>6. CancelOK(u)'
  BY DEF TaskOK, CancelOK
<1> QED
  BY <1>1, <1>2, <1>3, <1>4, <1>5, <1>6 DEF TaskOK

\* What is owed to the group after a step about task t.
OwedAfter(t) ==
    /\ owed \subseteq owed'
    /\ state'[t] = "failed" /\ state[t] # "failed" /\ FailFast /\ t \notin CallerScoped => owed' # {}
    /\ "failfast" \in owed' => "failfast" \in owed \/ (state'[t] = "failed" /\ t \notin CallerScoped)
    /\ "deadline" \in owed' => "deadline" \in owed \/ (Unambiguous => groupExpired)

Final == \A t \in Tasks : state[t] \in Terminal => state'[t] = state[t] /\ failure'[t] = failure[t]

StepOK == Inv' /\ Final /\ (ReasonedInv => ReasonedInv')

LEMMA TaskStep ==
    ASSUME Inv, NEW t \in Tasks, TypeOK', TaskOK(t)', \A u \in Tasks \ {t} : Same(u),
           UNCHANGED <<groupToken, groupExpired, listing>>,
           state[t] \in Terminal => state'[t] = state[t] /\ failure'[t] = failure[t],
           OwedAfter(t)
    PROVE  StepOK
<1>1. \A u \in Tasks : TaskOK(u)'
  BY OthersKept DEF Inv
<1>2. HasFailed => HasFailed'
  BY DEF HasFailed, Same, Terminal
<1>3. state'[t] = "failed" /\ t \notin CallerScoped => HasFailed'
  BY DEF HasFailed
<1>4. HasFailed' => HasFailed \/ (state'[t] = "failed" /\ state[t] # "failed" /\ t \notin CallerScoped)
  BY DEF HasFailed, Same
<1>5. FailFastOK'
  BY <1>4 DEF FailFastOK, OwedAfter, Inv
<1>6. ReasonedInv => ReasonedInv'
  BY <1>2, <1>3 DEF ReasonedInv, Reasoned, OwedAfter, Unambiguous
<1>7. Final
  BY DEF Final, Same
<1> QED
  BY <1>1, <1>5, <1>6, <1>7 DEF Inv, StepOK

LEMMA NothingOwed ==
    ASSUME NEW t \in Tasks, UNCHANGED owed, state'[t] = "failed" => state[t] = "failed"
    PROVE  OwedAfter(t)
BY DEF OwedAfter

-----------------------------------------------------------------------------
(***************************************************************************)
(* The actions.                                                            *)
(***************************************************************************)

LEMMA EnterScopeStep ==
    ASSUME Inv, NEW t \in Tasks, EnterScope(t)
    PROVE  StepOK
<1> USE DEF EnterScope, SubmitterGoes, record, handle, group, threads
<1>1. TypeOK'
  BY DEF Inv, TypeOK, Records
<1>2. \A u \in Tasks \ {t} : Same(u)
  BY DEF Inv, TypeOK, Same
<1>3. TaskOK(t)'
  BY DEF Inv, TypeOK, TaskOK, Placed, ResultOK, CompletionOK, VerdictOK, SyncOK, TimerOK,
     CancelOK,
         AcceptedPcs, Cut
<1> QED
  BY <1>1, <1>2, <1>3, TaskStep, NothingOwed

LEMMA ReserveStep ==
    ASSUME Inv, NEW t \in Tasks, Reserve(t)
    PROVE  StepOK
<1> USE DEF Reserve, SubmitterGoes, handle, group
<1>1. TypeOK'
  BY DEF Inv, TypeOK, Records, Terminal, Causes, Reasons, TaskOK, Placed
<1>2. \A u \in Tasks \ {t} : Same(u)
  BY DEF Inv, TypeOK, Same
<1>3. TaskOK(t)'
  <2>1. Placed(t)'
    BY DEF Inv, TypeOK, TaskOK, Placed, AcceptedPcs, Records
  <2>2. ResultOK(t)'
    BY DEF Inv, TypeOK, TaskOK, Placed, ResultOK, Records
  <2>3. CompletionOK(t)'
    BY DEF Inv, TypeOK, TaskOK, Placed, AcceptedPcs, CompletionOK, Cut, Records
  <2>4. VerdictOK(t)'
    BY DEF Inv, TypeOK, TaskOK, Placed, AcceptedPcs, VerdictOK, CompletionOK, Records
  <2>5. SyncOK(t)'
    BY DEF Inv, TypeOK, TaskOK, Placed, AcceptedPcs, SyncOK, CompletionOK, Records
  <2>6. TimerOK(t)'
    BY DEF Inv, TypeOK, TaskOK, Placed, TimerOK, Records
  <2>7. CancelOK(t)'
    BY DEF Inv, TypeOK, TaskOK, Placed, CancelOK, Records
  <2> QED
    BY <2>1, <2>2, <2>3, <2>4, <2>5, <2>6, <2>7 DEF TaskOK
<1>4. OwedAfter(t)
  <2>1. "failfast" \in owed' => "failfast" \in owed \/ (state'[t] = "failed" /\ t \notin CallerScoped)
    BY DEF Late, GroupOwned, Cascades, Inv, TypeOK
  <2>2. "deadline" \in owed' => "deadline" \in owed \/ groupExpired
    BY DEF Late, GroupOwned, Cascades, Inv, TypeOK
  <2>3. state'[t] = "failed" => Late(t) /\ ~GroupOwned(t)
    BY DEF Inv, TypeOK
  <2>4. state'[t] = "failed" /\ FailFast /\ t \notin CallerScoped => "failfast" \in owed'
    BY <2>3 DEF Cascades
  <2> QED
    BY <2>1, <2>2, <2>4 DEF OwedAfter
<1>5. state[t] = "absent"
  BY DEF Inv, TaskOK, Placed
<1> QED
  BY <1>1, <1>2, <1>3, <1>4, <1>5, TaskStep DEF Terminal

LEMMA AcceptStep ==
    ASSUME Inv, NEW t \in Tasks, Accept(t)
    PROVE  StepOK
<1> USE DEF Accept, SubmitterGoes, record, group, threads
<1>1. TypeOK'
  BY DEF Inv, TypeOK, Records
<1>2. \A u \in Tasks \ {t} : Same(u)
  BY DEF Inv, TypeOK, Same
<1>3. TaskOK(t)'
  <2>1. Placed(t)'
    BY DEF Inv, TypeOK, TaskOK, Placed, AcceptedPcs
  <2>2. ResultOK(t)'
    BY DEF Inv, TypeOK, TaskOK, Placed, ResultOK
  <2>3. CompletionOK(t)'
    BY DEF Inv, TypeOK, TaskOK, Placed, AcceptedPcs, CompletionOK, Cut
  <2>4. VerdictOK(t)'
    BY DEF Inv, TypeOK, TaskOK, Placed, AcceptedPcs, VerdictOK, CompletionOK
  <2>5. SyncOK(t)'
    BY DEF Inv, TypeOK, TaskOK, Placed, AcceptedPcs, SyncOK, CompletionOK
  <2>6. TimerOK(t)'
    BY DEF Inv, TypeOK, TaskOK, Placed, TimerOK
  <2>7. CancelOK(t)'
    BY DEF Inv, TypeOK, TaskOK, Placed, CancelOK
  <2> QED
    BY <2>1, <2>2, <2>3, <2>4, <2>5, <2>6, <2>7 DEF TaskOK
<1> QED
  BY <1>1, <1>2, <1>3, TaskStep, NothingOwed

\* An open record becomes terminal, a terminal one stays as it is.
Decides(t, s, cause) ==
    IF OpenForMark(t) THEN Settle(t, s, cause) ELSE UNCHANGED <<state, failure, timer, timerBound>>

LEMMA DecidesEffect ==
    ASSUME TypeOK, NEW t \in Tasks, state[t] # "absent", NEW s \in Terminal, NEW cause \in Causes \cup {"none"},
           s = "failed" <=> cause # "none", Decides(t, s, cause)
    PROVE  /\ state' \in [Tasks -> Terminal \cup {"absent", "open"}]
           /\ failure' \in [Tasks -> Causes \cup {"none"}]
           /\ timer' \in [Tasks -> {"none", "armed", "fired", "cancelled"}]
           /\ timerBound' \in [Tasks -> BOOLEAN]
           /\ \A u \in Tasks : failure'[u] # "none" <=> state'[u] = "failed"
           /\ Records' = Records
           /\ \A u \in Tasks \ {t} : /\ state'[u] = state[u] /\ failure'[u] = failure[u]
                                     /\ timer'[u] = timer[u] /\ timerBound'[u] = timerBound[u]
           /\ state'[t] \in Terminal
           /\ state[t] \in Terminal => /\ state'[t] = state[t] /\ failure'[t] = failure[t]
                                       /\ timer'[t] = timer[t] /\ timerBound'[t] = timerBound[t]
           /\ state[t] = "open" => /\ state'[t] = s /\ failure'[t] = cause /\ ~timerBound'[t]
                                   /\ timerBound[t] => timer'[t] # "armed"
                                   /\ timer'[t] = "armed" => timer[t] = "armed"
<1>1. CASE state[t] = "open"
  <2>1. Settle(t, s, cause)
    BY <1>1 DEF Decides, OpenForMark
  <2>2. state'[t] = s /\ \A u \in Tasks \ {t} : state'[u] = state[u]
    BY <2>1 DEF Settle, TypeOK
  <2>3. Records' = Records
    BY <2>2, <1>1 DEF Records, Terminal
  <2> QED
    BY <1>1, <2>1, <2>2, <2>3 DEF Settle, TypeOK, Terminal, Causes
<1>2. CASE state[t] \in Terminal
  <2>1. UNCHANGED <<state, failure, timer, timerBound>>
    BY <1>2 DEF Decides, OpenForMark, Terminal
  <2> QED
    BY <1>2, <2>1 DEF TypeOK, Terminal, Records
<1> QED
  BY <1>1, <1>2 DEF TypeOK

\* A mark is such a decision, and a failure of a fail-fast group is owed to it.
LEMMA MarkDecides ==
    ASSUME TypeOK, NEW t \in Tasks, NEW s \in Terminal, NEW cause \in Causes \cup {"none"}, Mark(t, s, cause)
    PROVE  Decides(t, s, cause) /\ owed' \subseteq Reasons /\ OwedAfter(t)
<1>1. CASE OpenForMark(t)
  <2>1. Settle(t, s, cause) /\ owed' = IF s = "failed" /\ Cascades(t) THEN owed \cup {"failfast"} ELSE owed
    BY <1>1 DEF Mark
  <2>2. state'[t] = s
    BY <2>1 DEF Settle, TypeOK
  <2> QED
    BY <1>1, <2>1, <2>2 DEF Decides, OwedAfter, Cascades, TypeOK, Reasons
<1>2. CASE ~OpenForMark(t)
  <2>1. UNCHANGED <<state, failure, timer, timerBound, owed>>
    BY <1>2 DEF Mark
  <2> QED
    BY <1>2, <2>1 DEF Decides, OwedAfter, TypeOK
<1> QED
  BY <1>1, <1>2

LEMMA RefuseCancelledStep ==
    ASSUME Inv, NEW t \in Tasks, RefuseCancelled(t)
    PROVE  StepOK
<1> USE DEF RefuseCancelled, SubmitterGoes, handle, group
<1> DEFINE s == "cancelled"
           c == "none"
<1>1. s \in Terminal /\ c \in Causes \cup {"none"} /\ (s = "failed" <=> c # "none")
  BY DEF Terminal
<1>2. Mark(t, s, c) /\ TypeOK /\ state[t] # "absent"
  BY DEF Inv, TaskOK, Placed
<1> HIDE DEF s, c
<1>3. Decides(t, s, c) /\ owed' \subseteq Reasons /\ OwedAfter(t)
  BY <1>1, <1>2, MarkDecides
<1>4. TypeOK'
  BY <1>1, <1>2, <1>3, DecidesEffect DEF TypeOK
<1>5. \A u \in Tasks \ {t} : Same(u)
  BY <1>1, <1>2, <1>3, DecidesEffect DEF Inv, TypeOK, Same
<1>6. /\ state'[t] \in Terminal /\ submitter'[t] = "refused" /\ submitter[t] = "reserved"
      /\ failure'[t] = failure[t] \/ failure'[t] # "deadline"
      /\ state'[t] = state[t] \/ state'[t] # "succeeded"
      /\ state[t] \in Terminal => state'[t] = state[t] /\ failure'[t] = failure[t]
      /\ timer'[t] = "armed" => timer[t] = "armed"
      /\ timerBound'[t] => timerBound[t] /\ state[t] # "open"
  BY <1>1, <1>2, <1>3, DecidesEffect DEF s, c, TypeOK
<1>7. TaskOK(t)'
  <2>1. Placed(t)'
    BY <1>6 DEF Inv, TypeOK, TaskOK, Placed, AcceptedPcs, Terminal
  <2>2. ResultOK(t)'
    BY <1>6 DEF Inv, TypeOK, TaskOK, Placed, ResultOK, Terminal
  <2>3. CompletionOK(t)'
    BY <1>6 DEF Inv, TypeOK, TaskOK, Placed, AcceptedPcs, CompletionOK, Cut, Terminal
  <2>4. VerdictOK(t)'
    BY <1>6 DEF Inv, TypeOK, TaskOK, Placed, AcceptedPcs, VerdictOK, CompletionOK, Terminal
  <2>5. SyncOK(t)'
    BY <1>6 DEF Inv, TypeOK, TaskOK, Placed, AcceptedPcs, SyncOK, CompletionOK, Terminal
  <2>6. TimerOK(t)'
    BY <1>6 DEF Inv, TypeOK, TaskOK, Placed, TimerOK, Terminal
  <2>7. CancelOK(t)'
    BY <1>6 DEF Inv, TypeOK, TaskOK, Placed, CancelOK, Terminal
  <2> QED
    BY <2>1, <2>2, <2>3, <2>4, <2>5, <2>6, <2>7 DEF TaskOK
<1> QED
  BY <1>3, <1>4, <1>5, <1>6, <1>7, TaskStep

LEMMA RefuseFailedStep ==
    ASSUME Inv, NEW t \in Tasks, RefuseFailed(t)
    PROVE  StepOK
<1> USE DEF RefuseFailed, SubmitterGoes, handle, group
<1>1. TypeOK /\ state[t] # "absent" /\ raw[t] = "none"
  BY DEF Inv, TypeOK, TaskOK, Placed, AcceptedPcs
<1>2. PICK s \in Terminal, c \in Causes \cup {"none"} :
          /\ s = "failed" <=> c # "none"
          /\ s # "succeeded"
          /\ Decides(t, s, c) /\ owed' \subseteq Reasons /\ OwedAfter(t)
  <2>1. PICK cause \in Causes : /\ cause = "deadline" => Late(t)
                                /\ IF cause = "deadline" /\ GroupOwned(t)
                                   THEN /\ owed' = owed \cup {"deadline"}
                                        /\ Decides(t, "cancelled", "none")
                                   ELSE Mark(t, "failed", cause)
    BY DEF Decides, Causes
  <2>2. CASE cause = "deadline" /\ GroupOwned(t)
    <3>1. Decides(t, "cancelled", "none") /\ owed' = owed \cup {"deadline"} /\ groupExpired
      BY <2>1, <2>2, TaskStateAssumption DEF Late, GroupOwned
    <3>2. "cancelled" \in Terminal
      BY DEF Terminal
    <3>3. state'[t] = "failed" => state[t] = "failed"
      BY <1>1, <3>1, <3>2, DecidesEffect DEF TypeOK
    <3>4. owed' \subseteq Reasons /\ OwedAfter(t)
      BY <1>1, <3>1, <3>3 DEF OwedAfter, TypeOK, Reasons
    <3> QED
      BY <3>1, <3>2, <3>4
  <2>3. CASE ~(cause = "deadline" /\ GroupOwned(t))
    <3>1. Mark(t, "failed", cause) /\ "failed" \in Terminal
      BY <2>1, <2>3 DEF Terminal
    <3>2. Decides(t, "failed", cause) /\ owed' \subseteq Reasons /\ OwedAfter(t)
      BY <1>1, <3>1, MarkDecides
    <3> QED
      BY <3>1, <3>2 DEF Causes
  <2> QED
    BY <2>2, <2>3
<1>3. TypeOK'
  BY <1>1, <1>2, DecidesEffect DEF TypeOK
<1>4. \A u \in Tasks \ {t} : Same(u)
  BY <1>1, <1>2, DecidesEffect DEF Inv, TypeOK, Same
<1>5. /\ state'[t] \in Terminal /\ submitter'[t] = "refused" /\ submitter[t] = "reserved"
      /\ state'[t] = state[t] \/ state'[t] # "succeeded"
      /\ state[t] \in Terminal => state'[t] = state[t] /\ failure'[t] = failure[t]
      /\ timer'[t] = "armed" => timer[t] = "armed"
      /\ timerBound'[t] => timerBound[t] /\ state[t] # "open"
  BY <1>1, <1>2, DecidesEffect DEF TypeOK
<1>6. TaskOK(t)'
  <2>1. Placed(t)'
    BY <1>1, <1>5 DEF Inv, TypeOK, TaskOK, Placed, AcceptedPcs, Terminal
  <2>2. ResultOK(t)'
    BY <1>1, <1>5 DEF Inv, TypeOK, TaskOK, Placed, ResultOK, Terminal
  <2>3. CompletionOK(t)'
    BY <1>1, <1>5 DEF Inv, TypeOK, TaskOK, Placed, AcceptedPcs, CompletionOK, Cut, Terminal
  <2>4. VerdictOK(t)'
    BY <1>1, <1>5 DEF Inv, TypeOK, TaskOK, Placed, AcceptedPcs, VerdictOK, CompletionOK,
       Terminal
  <2>5. SyncOK(t)'
    BY <1>1, <1>5 DEF Inv, TypeOK, TaskOK, Placed, AcceptedPcs, SyncOK, CompletionOK, Terminal
  <2>6. TimerOK(t)'
    BY <1>1, <1>5 DEF Inv, TypeOK, TaskOK, Placed, TimerOK, Terminal
  <2>7. CancelOK(t)'
    BY <1>1, <1>5 DEF Inv, TypeOK, TaskOK, Placed, CancelOK, Terminal
  <2> QED
    BY <2>1, <2>2, <2>3, <2>4, <2>5, <2>6, <2>7 DEF TaskOK
<1> QED
  BY <1>2, <1>3, <1>4, <1>5, <1>6, TaskStep

LEMMA BindRawStep ==
    ASSUME Inv, NEW t \in Tasks, BindRaw(t)
    PROVE  StepOK
<1> USE DEF BindRaw, SubmitterGoes, record, handle, group, threads
<1>1. TypeOK'
  BY DEF Inv, TypeOK, Records
<1>2. \A u \in Tasks \ {t} : Same(u)
  BY DEF Inv, TypeOK, Same
<1>3. TaskOK(t)'
  <2>1. Placed(t)'
    BY DEF Inv, TypeOK, TaskOK, Placed, AcceptedPcs
  <2>2. ResultOK(t)'
    BY DEF Inv, TypeOK, TaskOK, Placed, ResultOK
  <2>3. CompletionOK(t)'
    BY DEF Inv, TypeOK, TaskOK, Placed, AcceptedPcs, CompletionOK, Cut
  <2>4. VerdictOK(t)'
    BY DEF Inv, TypeOK, TaskOK, Placed, AcceptedPcs, VerdictOK, CompletionOK
  <2>5. SyncOK(t)'
    BY DEF Inv, TypeOK, TaskOK, Placed, AcceptedPcs, SyncOK, CompletionOK
  <2>6. TimerOK(t)'
    BY DEF Inv, TypeOK, TaskOK, Placed, TimerOK
  <2>7. CancelOK(t)'
    BY DEF Inv, TypeOK, TaskOK, Placed, CancelOK
  <2> QED
    BY <2>1, <2>2, <2>3, <2>4, <2>5, <2>6, <2>7 DEF TaskOK
<1> QED
  BY <1>1, <1>2, <1>3, TaskStep, NothingOwed

LEMMA StartStep ==
    ASSUME Inv, NEW t \in Tasks, Start(t)
    PROVE  StepOK
<1> USE DEF Start, record, group, threads
<1>1. TypeOK'
  BY DEF Inv, TypeOK, Records
<1>2. \A u \in Tasks \ {t} : Same(u)
  BY DEF Inv, TypeOK, Same
<1>3. TaskOK(t)'
  <2>1. Placed(t)'
    BY DEF Inv, TypeOK, TaskOK, Placed, AcceptedPcs
  <2>2. ResultOK(t)'
    BY DEF Inv, TypeOK, TaskOK, Placed, ResultOK
  <2>3. CompletionOK(t)'
    BY DEF Inv, TypeOK, TaskOK, Placed, AcceptedPcs, CompletionOK, Cut
  <2>4. VerdictOK(t)'
    BY DEF Inv, TypeOK, TaskOK, Placed, AcceptedPcs, VerdictOK, CompletionOK
  <2>5. SyncOK(t)'
    BY DEF Inv, TypeOK, TaskOK, Placed, AcceptedPcs, SyncOK, CompletionOK
  <2>6. TimerOK(t)'
    BY DEF Inv, TypeOK, TaskOK, Placed, TimerOK
  <2>7. CancelOK(t)'
    BY DEF Inv, TypeOK, TaskOK, Placed, CancelOK
  <2> QED
    BY <2>1, <2>2, <2>3, <2>4, <2>5, <2>6, <2>7 DEF TaskOK
<1> QED
  BY <1>1, <1>2, <1>3, TaskStep, NothingOwed

LEMMA PassLastCheckpointStep ==
    ASSUME Inv, NEW t \in Tasks, PassLastCheckpoint(t)
    PROVE  StepOK
<1> USE DEF PassLastCheckpoint, record, group, threads
<1>1. TypeOK'
  BY DEF Inv, TypeOK, Records
<1>2. \A u \in Tasks \ {t} : Same(u)
  BY DEF Inv, TypeOK, Same
<1>3. TaskOK(t)'
  <2>1. Placed(t)'
    BY DEF Inv, TypeOK, TaskOK, Placed, AcceptedPcs
  <2>2. ResultOK(t)'
    BY DEF Inv, TypeOK, TaskOK, Placed, ResultOK
  <2>3. CompletionOK(t)'
    BY DEF Inv, TypeOK, TaskOK, Placed, AcceptedPcs, CompletionOK, Cut
  <2>4. VerdictOK(t)'
    BY DEF Inv, TypeOK, TaskOK, Placed, AcceptedPcs, VerdictOK, CompletionOK
  <2>5. SyncOK(t)'
    BY DEF Inv, TypeOK, TaskOK, Placed, AcceptedPcs, SyncOK, CompletionOK
  <2>6. TimerOK(t)'
    BY DEF Inv, TypeOK, TaskOK, Placed, TimerOK
  <2>7. CancelOK(t)'
    BY DEF Inv, TypeOK, TaskOK, Placed, CancelOK
  <2> QED
    BY <2>1, <2>2, <2>3, <2>4, <2>5, <2>6, <2>7 DEF TaskOK
<1> QED
  BY <1>1, <1>2, <1>3, TaskStep, NothingOwed

LEMMA FinishStep ==
    ASSUME Inv, NEW t \in Tasks, Finish(t)
    PROVE  StepOK
<1> USE DEF Finish, record, group, threads
<1>1. Outcomes(t) \subseteq {"value", "error", "timeout", "foreign", "deadline", "cancelled"}
  BY TaskStateAssumption DEF Outcomes
<1>2. \A r \in Outcomes(t) : /\ r \in {"error", "timeout", "foreign"} => r \in Failures
                             /\ r = "deadline" => t \in TaskOwned
  BY TaskStateAssumption DEF Outcomes
<1>3. TypeOK'
  BY <1>1 DEF Inv, TypeOK, Records
<1>4. \A u \in Tasks \ {t} : Same(u)
  BY DEF Inv, TypeOK, Same
<1>5. PICK r \in Outcomes(t) : result' = [result EXCEPT ![t] = r]
  OBVIOUS
<1>6. raw[t] \in {"running", "passed"} /\ raw'[t] = "done" /\ result'[t] = r /\ r # "none"
  BY <1>1, <1>5 DEF Inv, TypeOK
<1>7. spoilt'[t] <=> Cut(t) \/ (t \in TaskOwned /\ expired[t])
  BY DEF Inv, TypeOK, Cut
<1>8. stamp[t] = "none" /\ ~published[t] /\ state[t] # "succeeded"
  BY <1>6 DEF Inv, TypeOK, TaskOK, CompletionOK, VerdictOK
<1>9. Placed(t)' /\ ResultOK(t)'
  BY <1>2, <1>5, <1>6 DEF Inv, TaskOK, Placed, ResultOK
<1>10. CompletionOK(t)' /\ VerdictOK(t)'
  BY <1>6, <1>7, <1>8 DEF Inv, TaskOK, CompletionOK, VerdictOK, Cut, Placed
<1>11. SyncOK(t)' /\ TimerOK(t)' /\ CancelOK(t)'
  BY <1>6 DEF Inv, TaskOK, SyncOK, TimerOK, CancelOK
<1> QED
  BY <1>3, <1>4, <1>9, <1>10, <1>11, TaskStep, NothingOwed DEF TaskOK

LEMMA ObserveStep ==
    ASSUME Inv, NEW t \in Tasks, Observe(t)
    PROVE  StepOK
<1> USE DEF Observe, record, handle, group
<1>1. TypeOK'
  BY DEF Inv, TypeOK, Records, Reasons
<1>2. \A u \in Tasks \ {t} : Same(u)
  BY DEF Inv, TypeOK, Same
<1>3. TaskOK(t)'
  BY DEF Inv, TypeOK, TaskOK, Placed, ResultOK, CompletionOK, VerdictOK, SyncOK, TimerOK,
     CancelOK,
         AcceptedPcs, Cut
<1>4. OwedAfter(t)
  BY DEF OwedAfter
<1> QED
  BY <1>1, <1>2, <1>3, <1>4, TaskStep

LEMMA CaptureReadsStep ==
    ASSUME Inv, NEW t \in Tasks, CaptureReads(t)
    PROVE  StepOK
<1> USE DEF CaptureReads, record, group, threads
<1>1. TypeOK'
  BY DEF Inv, TypeOK, Records, Cut
<1>2. \A u \in Tasks \ {t} : Same(u)
  BY DEF Inv, TypeOK, Same
<1>3. TaskOK(t)'
  <2>1. Placed(t)'
    BY DEF Inv, TypeOK, TaskOK, Placed, AcceptedPcs, Late
  <2>2. ResultOK(t)'
    BY DEF Inv, TypeOK, TaskOK, Placed, ResultOK, Late
  <2>3. CompletionOK(t)'
    BY DEF Inv, TypeOK, TaskOK, Placed, AcceptedPcs, CompletionOK, Cut, Late
  <2>4. VerdictOK(t)'
    BY DEF Inv, TypeOK, TaskOK, Placed, AcceptedPcs, VerdictOK, CompletionOK, Late
  <2>5. SyncOK(t)'
    BY DEF Inv, TypeOK, TaskOK, Placed, AcceptedPcs, SyncOK, CompletionOK, Late
  <2>6. TimerOK(t)'
    BY DEF Inv, TypeOK, TaskOK, Placed, TimerOK, Late
  <2>7. CancelOK(t)'
    BY DEF Inv, TypeOK, TaskOK, Placed, CancelOK, Late
  <2> QED
    BY <2>1, <2>2, <2>3, <2>4, <2>5, <2>6, <2>7 DEF TaskOK
<1> QED
  BY <1>1, <1>2, <1>3, TaskStep, NothingOwed

LEMMA CaptureStoresStep ==
    ASSUME Inv, NEW t \in Tasks, CaptureStores(t)
    PROVE  StepOK
<1> USE DEF CaptureStores, record, group, threads
<1>1. TypeOK'
  BY DEF Inv, TypeOK, Records, Cut
<1>2. \A u \in Tasks \ {t} : Same(u)
  BY DEF Inv, TypeOK, Same
<1>3. TaskOK(t)'
  <2>1. Placed(t)'
    BY DEF Inv, TypeOK, TaskOK, Placed, AcceptedPcs
  <2>2. ResultOK(t)'
    BY DEF Inv, TypeOK, TaskOK, Placed, ResultOK
  <2>3. CompletionOK(t)'
    BY DEF Inv, TypeOK, TaskOK, Placed, AcceptedPcs, CompletionOK, Cut
  <2>4. VerdictOK(t)'
    BY DEF Inv, TypeOK, TaskOK, Placed, AcceptedPcs, VerdictOK, CompletionOK
  <2>5. SyncOK(t)'
    BY DEF Inv, TypeOK, TaskOK, Placed, AcceptedPcs, SyncOK, CompletionOK
  <2>6. TimerOK(t)'
    BY DEF Inv, TypeOK, TaskOK, Placed, TimerOK
  <2>7. CancelOK(t)'
    BY DEF Inv, TypeOK, TaskOK, Placed, CancelOK
  <2> QED
    BY <2>1, <2>2, <2>3, <2>4, <2>5, <2>6, <2>7 DEF TaskOK
<1> QED
  BY <1>1, <1>2, <1>3, TaskStep, NothingOwed

LEMMA SyncReadsStep ==
    ASSUME Inv, NEW t \in Tasks, SyncReads(t)
    PROVE  StepOK
<1> USE DEF SyncReads, record, handle, group
<1>1. TypeOK'
  <2>1. /\ <<t, Missed(t), Before(t)>> \in Records \X BOOLEAN \X BOOLEAN
        /\ Records' = Records
    <3>1. Missed(t) \in BOOLEAN
      BY DEF Missed, Inv, TypeOK
    <3>2. Before(t) \in BOOLEAN
      BY DEF Before, Cut, Inv, TypeOK
    <3> QED
      BY <3>1, <3>2 DEF Records
  <2>2. syncing' \subseteq Records' \X BOOLEAN \X BOOLEAN
    BY <2>1 DEF Inv, TypeOK
  <2> QED
    BY <2>1, <2>2 DEF Inv, TypeOK
<1>2. \A u \in Tasks \ {t} : Same(u)
  BY DEF Inv, TypeOK, Same
<1>3. TaskOK(t)'
  <2>1. Placed(t)'
    BY DEF Inv, TypeOK, TaskOK, Placed, AcceptedPcs, Missed, Before, Cut
  <2>2. ResultOK(t)'
    BY DEF Inv, TypeOK, TaskOK, Placed, ResultOK, Missed, Before, Cut
  <2>3. CompletionOK(t)'
    BY DEF Inv, TypeOK, TaskOK, Placed, AcceptedPcs, CompletionOK, Cut, Missed, Before, Cut
  <2>4. VerdictOK(t)'
    BY DEF Inv, TypeOK, TaskOK, Placed, AcceptedPcs, VerdictOK, CompletionOK, Missed, Before,
       Cut
  <2>5. SyncOK(t)'
    BY DEF Inv, TypeOK, TaskOK, Placed, AcceptedPcs, SyncOK, CompletionOK, Missed, Before, Cut
  <2>6. TimerOK(t)'
    BY DEF Inv, TypeOK, TaskOK, Placed, TimerOK, Missed, Before, Cut
  <2>7. CancelOK(t)'
    BY DEF Inv, TypeOK, TaskOK, Placed, CancelOK, Missed, Before, Cut
  <2> QED
    BY <2>1, <2>2, <2>3, <2>4, <2>5, <2>6, <2>7 DEF TaskOK
<1> QED
  BY <1>1, <1>2, <1>3, TaskStep, NothingOwed

LEMMA CancelledForGroup ==
    ASSUME TypeOK, NEW t \in Tasks, state[t] # "absent", Decides(t, "cancelled", "none"),
           owed' = owed \cup {"deadline"}, Unambiguous => groupExpired
    PROVE  owed' \subseteq Reasons /\ OwedAfter(t)
<1>1. "cancelled" \in Terminal
  BY DEF Terminal
<1>2. state'[t] = "failed" => state[t] = "failed"
  BY <1>1, DecidesEffect DEF TypeOK
<1> QED
  BY <1>2 DEF OwedAfter, TypeOK, Reasons

\* What a synchronising thread decides on is so: the record fails by a deadline
\* that was missed, and succeeds only with an execution that was not spoilt.
LEMMA SyncDecides ==
    ASSUME Inv, NEW t \in Tasks, NEW missed \in BOOLEAN, NEW cut \in BOOLEAN, SyncMarks(t, missed, cut)
    PROVE  /\ raw[t] = "done" /\ state[t] # "absent"
           /\ \E s \in Terminal, cause \in Causes \cup {"none"} :
                 /\ Decides(t, s, cause) /\ owed' \subseteq Reasons /\ OwedAfter(t)
                 /\ s = "failed" <=> cause # "none"
                 /\ cause = "deadline" => \/ result[t] # "value"
                                          \/ t \in TaskOwned /\ expired[t]
                 /\ s = "succeeded" => ~spoilt[t]
<1> USE DEF Terminal, Causes
<1>1. <<t, missed, cut>> \in syncing
  BY DEF SyncMarks
<1>2. /\ raw[t] = "done" /\ state[t] # "absent"
      /\ missed => t \in TaskOwned /\ expired[t]
      /\ ~missed /\ ~cut => ~spoilt[t]
  BY <1>1 DEF Inv, TypeOK, TaskOK, SyncOK, Records
<1>a. TypeOK
  BY DEF Inv
<1>3. CASE missed
  <2>1. Mark(t, "failed", "deadline")
    BY <1>3 DEF SyncMarks
  <2> QED
    BY <1>a, <1>2, <1>3, <2>1, MarkDecides
<1>4. CASE ~missed /\ result[t] = "cancelled"
  <2>1. Mark(t, "cancelled", "none")
    BY <1>4 DEF SyncMarks
  <2> QED
    BY <1>a, <1>2, <2>1, MarkDecides
<1>5. CASE ~missed /\ result[t] \in {"error", "timeout"}
  <2>1. Mark(t, "failed", "own")
    BY <1>5 DEF SyncMarks
  <2> QED
    BY <1>a, <1>2, <2>1, MarkDecides
<1>6. CASE ~missed /\ result[t] = "deadline"
  <2>1. Mark(t, "failed", "deadline")
    BY <1>6 DEF SyncMarks
  <2> QED
    BY <1>a, <1>2, <1>6, <2>1, MarkDecides
<1>7. CASE ~missed /\ result[t] = "foreign" /\ GroupOwned(t)
  <2>1. Decides(t, "cancelled", "none") /\ owed' = owed \cup {"deadline"}
    BY <1>7 DEF SyncMarks, Decides
  <2>2. Unambiguous => groupExpired
    BY <1>2, <1>7 DEF Unambiguous, GroupOwned, Inv, TaskOK, ResultOK
  <2> QED
    BY <1>a, <1>2, <2>1, <2>2, CancelledForGroup
<1>8. CASE ~missed /\ result[t] = "foreign" /\ ~GroupOwned(t)
  <2>1. Mark(t, "failed", "own")
    BY <1>8 DEF SyncMarks
  <2> QED
    BY <1>a, <1>2, <2>1, MarkDecides
<1>9. CASE ~missed /\ result[t] = "value"
  <2>1. PICK s \in Verdicts(t, cut) : Mark(t, s, "none")
    BY <1>9 DEF SyncMarks
  <2>2. s \in {"cancelled", "succeeded"} /\ (s = "succeeded" => ~cut)
    BY DEF Verdicts
  <2> QED
    BY <1>a, <1>2, <1>9, <2>1, <2>2, MarkDecides
<1>10. result[t] \in {"value", "error", "timeout", "foreign", "deadline", "cancelled"}
  BY <1>2 DEF Inv, TypeOK, TaskOK, Placed
<1> QED
  BY <1>3, <1>4, <1>5, <1>6, <1>7, <1>8, <1>9, <1>10

LEMMA SyncMarksStep ==
    ASSUME Inv, NEW t \in Tasks, NEW missed \in BOOLEAN, NEW cut \in BOOLEAN, SyncMarks(t, missed, cut)
    PROVE  StepOK
<1>1. /\ syncing' = syncing \ {<<t, missed, cut>>}
      /\ UNCHANGED <<submitter, token, handle, expired, group, listing, visiting, aborting>>
  BY DEF SyncMarks
<1> USE <1>1 DEF handle, group
<1>2. raw[t] = "done" /\ state[t] # "absent"
  BY SyncDecides
<1>3. PICK s \in Terminal, cause \in Causes \cup {"none"} :
                 /\ Decides(t, s, cause) /\ owed' \subseteq Reasons /\ OwedAfter(t)
                 /\ s = "failed" <=> cause # "none"
                 /\ cause = "deadline" => \/ result[t] # "value"
                                          \/ t \in TaskOwned /\ expired[t]
                 /\ s = "succeeded" => ~spoilt[t]
  BY SyncDecides
<1>4. TypeOK
  BY DEF Inv
<1>5. TypeOK'
  BY <1>2, <1>3, <1>4, DecidesEffect DEF TypeOK
<1>6. \A u \in Tasks \ {t} : Same(u)
  BY <1>2, <1>3, <1>4, DecidesEffect DEF Inv, TypeOK, Same
<1>7. /\ state'[t] \in Terminal
      /\ state[t] \in Terminal => /\ state'[t] = state[t] /\ failure'[t] = failure[t]
                                  /\ timer'[t] = timer[t] /\ timerBound'[t] = timerBound[t]
      /\ state[t] = "open" => /\ state'[t] = s /\ failure'[t] = cause /\ ~timerBound'[t]
                              /\ timerBound[t] => timer'[t] # "armed"
                              /\ timer'[t] = "armed" => timer[t] = "armed"
      /\ state[t] \in Terminal \cup {"open"}
  BY <1>2, <1>3, <1>4, DecidesEffect DEF TypeOK
<1>8. TaskOK(t)'
  <2>1. Placed(t)' /\ ResultOK(t)'
    BY <1>2, <1>7 DEF Inv, TaskOK, Placed, ResultOK, Terminal
  <2>2. CompletionOK(t)'
    BY DEF Inv, TaskOK, CompletionOK, Cut
  <2>3. VerdictOK(t)'
    BY <1>2, <1>3, <1>7 DEF Inv, TaskOK, VerdictOK, Terminal
  <2>4. SyncOK(t)'
    BY DEF Inv, TaskOK, SyncOK
  <2>5. TimerOK(t)'
    BY <1>3, <1>7 DEF Inv, TypeOK, TaskOK, TimerOK, Terminal
  <2>6. CancelOK(t)'
    BY <1>7 DEF CancelOK, Terminal
  <2> QED
    BY <2>1, <2>2, <2>3, <2>4, <2>5, <2>6 DEF TaskOK
<1> QED
  BY <1>3, <1>5, <1>6, <1>7, <1>8, TaskStep

LEMMA ArmsNothingStep ==
    ASSUME Inv, NEW t \in Tasks, ArmsNothing(t)
    PROVE  StepOK
<1> USE DEF ArmsNothing, SubmitterGoes, record, handle, group, threads
<1>1. TypeOK'
  BY DEF Inv, TypeOK, Records
<1>2. \A u \in Tasks \ {t} : Same(u)
  BY DEF Inv, TypeOK, Same
<1>3. TaskOK(t)'
  <2>1. Placed(t)'
    BY DEF Inv, TypeOK, TaskOK, Placed, AcceptedPcs
  <2>2. ResultOK(t)'
    BY DEF Inv, TypeOK, TaskOK, Placed, ResultOK
  <2>3. CompletionOK(t)'
    BY DEF Inv, TypeOK, TaskOK, Placed, AcceptedPcs, CompletionOK, Cut
  <2>4. VerdictOK(t)'
    BY DEF Inv, TypeOK, TaskOK, Placed, AcceptedPcs, VerdictOK, CompletionOK
  <2>5. SyncOK(t)'
    BY DEF Inv, TypeOK, TaskOK, Placed, AcceptedPcs, SyncOK, CompletionOK
  <2>6. TimerOK(t)'
    BY DEF Inv, TypeOK, TaskOK, Placed, TimerOK
  <2>7. CancelOK(t)'
    BY DEF Inv, TypeOK, TaskOK, Placed, CancelOK
  <2> QED
    BY <2>1, <2>2, <2>3, <2>4, <2>5, <2>6, <2>7 DEF TaskOK
<1> QED
  BY <1>1, <1>2, <1>3, TaskStep, NothingOwed

LEMMA ArmsTimerStep ==
    ASSUME Inv, NEW t \in Tasks, ArmsTimer(t)
    PROVE  StepOK
<1> USE DEF ArmsTimer, SubmitterGoes, handle, group, threads
<1>1. TypeOK'
  BY DEF Inv, TypeOK, Records
<1>2. \A u \in Tasks \ {t} : Same(u)
  BY DEF Inv, TypeOK, Same
<1>3. TaskOK(t)'
  <2>1. Placed(t)'
    BY DEF Inv, TypeOK, TaskOK, Placed, AcceptedPcs
  <2>2. ResultOK(t)'
    BY DEF Inv, TypeOK, TaskOK, Placed, ResultOK
  <2>3. CompletionOK(t)'
    BY DEF Inv, TypeOK, TaskOK, Placed, AcceptedPcs, CompletionOK, Cut
  <2>4. VerdictOK(t)'
    BY DEF Inv, TypeOK, TaskOK, Placed, AcceptedPcs, VerdictOK, CompletionOK
  <2>5. SyncOK(t)'
    BY DEF Inv, TypeOK, TaskOK, Placed, AcceptedPcs, SyncOK, CompletionOK
  <2>6. TimerOK(t)'
    BY DEF Inv, TypeOK, TaskOK, Placed, TimerOK
  <2>7. CancelOK(t)'
    BY DEF Inv, TypeOK, TaskOK, Placed, CancelOK
  <2> QED
    BY <2>1, <2>2, <2>3, <2>4, <2>5, <2>6, <2>7 DEF TaskOK
<1> QED
  BY <1>1, <1>2, <1>3, TaskStep, NothingOwed

LEMMA BindTimerStep ==
    ASSUME Inv, NEW t \in Tasks, BindTimer(t)
    PROVE  StepOK
<1> USE DEF BindTimer, SubmitterGoes, handle, group, threads, TimerWanted
<1>0. /\ timerBound'[t] <=> state[t] = "open"
      /\ timerBound' \in [Tasks -> BOOLEAN]
      /\ timer'[t] = "armed" <=> timer[t] = "armed" /\ state[t] = "open"
      /\ timer' \in [Tasks -> {"none", "armed", "fired", "cancelled"}]
  BY DEF Inv, TypeOK
<1>1. TypeOK'
  BY <1>0 DEF Inv, TypeOK, Records
<1>2. \A u \in Tasks \ {t} : Same(u)
  BY DEF Inv, TypeOK, Same
<1>3. TaskOK(t)'
  <2>1. Placed(t)'
    BY DEF Inv, TypeOK, TaskOK, Placed, AcceptedPcs
  <2>2. ResultOK(t)'
    BY DEF Inv, TypeOK, TaskOK, Placed, ResultOK
  <2>3. CompletionOK(t)'
    BY DEF Inv, TypeOK, TaskOK, Placed, AcceptedPcs, CompletionOK, Cut
  <2>4. VerdictOK(t)'
    BY DEF Inv, TypeOK, TaskOK, Placed, AcceptedPcs, VerdictOK, CompletionOK
  <2>5. SyncOK(t)'
    BY DEF Inv, TypeOK, TaskOK, Placed, AcceptedPcs, SyncOK, CompletionOK
  <2>6. TimerOK(t)'
    BY <1>0 DEF Inv, TypeOK, TaskOK, Placed, TimerOK
  <2>7. CancelOK(t)'
    BY DEF Inv, TypeOK, TaskOK, Placed, CancelOK
  <2> QED
    BY <2>1, <2>2, <2>3, <2>4, <2>5, <2>6, <2>7 DEF TaskOK
<1> QED
  BY <1>1, <1>2, <1>3, TaskStep, NothingOwed

LEMMA LastCheckStep ==
    ASSUME Inv, NEW t \in Tasks, LastCheck(t)
    PROVE  StepOK
<1> USE DEF LastCheck, SubmitterGoes, record, handle, group
<1>1. TypeOK'
  BY DEF Inv, TypeOK, Records, TaskOK, Placed
<1>2. \A u \in Tasks \ {t} : Same(u)
  BY DEF Inv, TypeOK, Same
<1>3. TaskOK(t)'
  <2>1. Placed(t)'
    BY DEF Inv, TypeOK, TaskOK, Placed, AcceptedPcs
  <2>2. ResultOK(t)'
    BY DEF Inv, TypeOK, TaskOK, Placed, ResultOK
  <2>3. CompletionOK(t)'
    BY DEF Inv, TypeOK, TaskOK, Placed, AcceptedPcs, CompletionOK, Cut
  <2>4. VerdictOK(t)'
    BY DEF Inv, TypeOK, TaskOK, Placed, AcceptedPcs, VerdictOK, CompletionOK
  <2>5. SyncOK(t)'
    BY DEF Inv, TypeOK, TaskOK, Placed, AcceptedPcs, SyncOK, CompletionOK
  <2>6. TimerOK(t)'
    BY DEF Inv, TypeOK, TaskOK, Placed, TimerOK
  <2>7. CancelOK(t)'
    BY DEF Inv, TypeOK, TaskOK, Placed, CancelOK
  <2> QED
    BY <2>1, <2>2, <2>3, <2>4, <2>5, <2>6, <2>7 DEF TaskOK
<1> QED
  BY <1>1, <1>2, <1>3, TaskStep, NothingOwed

LEMMA CancelHandleStep ==
    ASSUME Inv, NEW t \in Tasks, CancelHandle(t)
    PROVE  StepOK
<1> USE DEF CancelHandle, record, handle, group
<1>1. TypeOK'
  BY DEF Inv, TypeOK, Records
<1>2. \A u \in Tasks \ {t} : Same(u)
  BY DEF Inv, TypeOK, Same
<1>3. TaskOK(t)'
  <2>1. Placed(t)'
    BY DEF Inv, TypeOK, TaskOK, Placed, AcceptedPcs
  <2>2. ResultOK(t)'
    BY DEF Inv, TypeOK, TaskOK, Placed, ResultOK
  <2>3. CompletionOK(t)'
    BY DEF Inv, TypeOK, TaskOK, Placed, AcceptedPcs, CompletionOK, Cut
  <2>4. VerdictOK(t)'
    BY DEF Inv, TypeOK, TaskOK, Placed, AcceptedPcs, VerdictOK, CompletionOK
  <2>5. SyncOK(t)'
    BY DEF Inv, TypeOK, TaskOK, Placed, AcceptedPcs, SyncOK, CompletionOK
  <2>6. TimerOK(t)'
    BY DEF Inv, TypeOK, TaskOK, Placed, TimerOK
  <2>7. CancelOK(t)'
    BY DEF Inv, TypeOK, TaskOK, Placed, CancelOK
  <2> QED
    BY <2>1, <2>2, <2>3, <2>4, <2>5, <2>6, <2>7 DEF TaskOK
<1> QED
  BY <1>1, <1>2, <1>3, TaskStep, NothingOwed

LEMMA CancelReadsStep ==
    ASSUME Inv, NEW t \in Tasks, CancelReads(t)
    PROVE  StepOK
<1> USE DEF CancelReads, handle, group
<1>1. TypeOK'
  <2>1. token' \in [Tasks -> BOOLEAN]
    BY DEF Inv, TypeOK
  <2>2. state[t] = "open" => <<t, Bound(t)>> \in Records \X BOOLEAN
    <3>1. Bound(t) \in BOOLEAN
      BY DEF Bound
    <3> QED
      BY <3>1 DEF Records
  <2>3. aborting' \subseteq Records' \X BOOLEAN
    BY <2>2 DEF Inv, TypeOK, Records
  <2> QED
    BY <2>1, <2>3 DEF Inv, TypeOK, Records
<1>2. \A u \in Tasks \ {t} : Same(u)
  BY DEF Inv, TypeOK, Same
<1>3. TaskOK(t)'
  <2>1. Placed(t)'
    BY DEF Inv, TypeOK, TaskOK, Placed, AcceptedPcs, Bound
  <2>2. ResultOK(t)'
    BY DEF Inv, TypeOK, TaskOK, Placed, ResultOK, Bound
  <2>3. CompletionOK(t)'
    BY DEF Inv, TypeOK, TaskOK, Placed, AcceptedPcs, CompletionOK, Cut, Bound
  <2>4. VerdictOK(t)'
    BY DEF Inv, TypeOK, TaskOK, Placed, AcceptedPcs, VerdictOK, CompletionOK, Bound
  <2>5. SyncOK(t)'
    BY DEF Inv, TypeOK, TaskOK, Placed, AcceptedPcs, SyncOK, CompletionOK, Bound
  <2>6. TimerOK(t)'
    BY DEF Inv, TypeOK, TaskOK, Placed, TimerOK, Bound
  <2>7. CancelOK(t)'
    BY DEF Inv, TypeOK, TaskOK, Placed, CancelOK, Bound
  <2> QED
    BY <2>1, <2>2, <2>3, <2>4, <2>5, <2>6, <2>7 DEF TaskOK
<1> QED
  BY <1>1, <1>2, <1>3, TaskStep, NothingOwed

LEMMA TaskDeadlinePassesStep ==
    ASSUME Inv, NEW t \in Tasks, TaskDeadlinePasses(t)
    PROVE  StepOK
<1> USE DEF TaskDeadlinePasses, record, handle, group, threads
<1>1. TypeOK'
  BY DEF Inv, TypeOK, Records
<1>2. \A u \in Tasks \ {t} : Same(u)
  BY DEF Inv, TypeOK, Same
<1>3. TaskOK(t)'
  <2>1. Placed(t)'
    BY DEF Inv, TypeOK, TaskOK, Placed, AcceptedPcs, Cut
  <2>2. ResultOK(t)'
    BY DEF Inv, TypeOK, TaskOK, Placed, ResultOK, Cut
  <2>3. CompletionOK(t)'
    BY DEF Inv, TypeOK, TaskOK, Placed, AcceptedPcs, CompletionOK, Cut, Cut
  <2>4. VerdictOK(t)'
    BY DEF Inv, TypeOK, TaskOK, Placed, AcceptedPcs, VerdictOK, CompletionOK, Cut
  <2>5. SyncOK(t)'
    BY DEF Inv, TypeOK, TaskOK, Placed, AcceptedPcs, SyncOK, CompletionOK, Cut
  <2>6. TimerOK(t)'
    BY DEF Inv, TypeOK, TaskOK, Placed, TimerOK, Cut
  <2>7. CancelOK(t)'
    BY DEF Inv, TypeOK, TaskOK, Placed, CancelOK, Cut
  <2> QED
    BY <2>1, <2>2, <2>3, <2>4, <2>5, <2>6, <2>7 DEF TaskOK
<1> QED
  BY <1>1, <1>2, <1>3, TaskStep, NothingOwed

LEMMA ArmFailsStep ==
    ASSUME Inv, NEW t \in Tasks, ArmFails(t)
    PROVE  StepOK
<1> USE DEF ArmFails, SubmitterGoes, handle, group
<1> DEFINE s == "failed"
           c == "own"
<1>1. s \in Terminal /\ c \in Causes \cup {"none"} /\ (s = "failed" <=> c # "none")
  BY DEF Terminal, Causes
<1>2. Mark(t, s, c) /\ TypeOK /\ state[t] = "open"
  BY DEF Inv
<1> HIDE DEF s, c
<1>3. Decides(t, s, c) /\ owed' \subseteq Reasons /\ OwedAfter(t)
  BY <1>1, <1>2, MarkDecides
<1>4. TypeOK'
  BY <1>1, <1>2, <1>3, DecidesEffect DEF TypeOK
<1>5. \A u \in Tasks \ {t} : Same(u)
  BY <1>1, <1>2, <1>3, DecidesEffect DEF Inv, TypeOK, Same
<1>6. /\ state'[t] = "failed" /\ failure'[t] = "own" /\ submitter'[t] = "raised" /\ submitter[t] = "bound"
      /\ timer'[t] = "armed" => timer[t] = "armed"
      /\ ~timerBound'[t]
  BY <1>1, <1>2, <1>3, DecidesEffect DEF s, c, TypeOK
<1>7. TaskOK(t)'
  <2>1. Placed(t)'
    BY <1>6 DEF Inv, TypeOK, TaskOK, Placed, AcceptedPcs, Terminal
  <2>2. ResultOK(t)'
    BY <1>6 DEF Inv, TypeOK, TaskOK, Placed, ResultOK, Terminal
  <2>3. CompletionOK(t)'
    BY <1>6 DEF Inv, TypeOK, TaskOK, Placed, AcceptedPcs, CompletionOK, Cut, Terminal
  <2>4. VerdictOK(t)'
    BY <1>6 DEF Inv, TypeOK, TaskOK, Placed, AcceptedPcs, VerdictOK, CompletionOK, Terminal
  <2>5. SyncOK(t)'
    BY <1>6 DEF Inv, TypeOK, TaskOK, Placed, AcceptedPcs, SyncOK, CompletionOK, Terminal
  <2>6. TimerOK(t)'
    BY <1>6 DEF Inv, TypeOK, TaskOK, Placed, TimerOK, Terminal
  <2>7. CancelOK(t)'
    BY <1>6 DEF Inv, TypeOK, TaskOK, Placed, CancelOK, Terminal
  <2> QED
    BY <2>1, <2>2, <2>3, <2>4, <2>5, <2>6, <2>7 DEF TaskOK
<1> QED
  BY <1>2, <1>3, <1>4, <1>5, <1>7, TaskStep DEF Terminal

\* raw.cancel ends a queued execution, or a coroutine, as cancelled.
LEMMA RevokeEffect ==
    ASSUME TypeOK, NEW t \in Tasks, NEW bound \in BOOLEAN, RevokeRaw(t, bound)
    PROVE  /\ raw' \in [Tasks -> {"none", "queued", "running", "passed", "done"}]
           /\ result' \in [Tasks -> {"none", "value", "error", "timeout", "foreign", "deadline", "cancelled"}]
           /\ \A u \in Tasks \ {t} : raw'[u] = raw[u] /\ result'[u] = result[u]
           /\ \/ raw'[t] = raw[t] /\ result'[t] = result[t]
              \/ /\ raw[t] \in {"queued", "running", "passed"}
                 /\ raw'[t] = "done" /\ result'[t] = "cancelled"
BY DEF RevokeRaw, Revocable, TypeOK

LEMMA CancelMarksStep ==
    ASSUME Inv, NEW t \in Tasks, NEW bound \in BOOLEAN, CancelMarks(t, bound)
    PROVE  StepOK
<1> USE DEF CancelMarks, group
<1> DEFINE s == "cancelled"
           c == "none"
<1>1. s \in Terminal /\ c \in Causes \cup {"none"} /\ (s = "failed" <=> c # "none")
  BY DEF Terminal
<1>2. Mark(t, s, c) /\ TypeOK /\ state[t] # "absent"
  BY DEF Inv, TypeOK, Records
<1> HIDE DEF s, c
<1>3. Decides(t, s, c) /\ owed' \subseteq Reasons /\ OwedAfter(t)
  BY <1>1, <1>2, MarkDecides
<1>4. TypeOK'
  BY <1>1, <1>2, <1>3, DecidesEffect, RevokeEffect DEF TypeOK
<1>5. \A u \in Tasks \ {t} : Same(u)
  BY <1>1, <1>2, <1>3, DecidesEffect, RevokeEffect DEF Inv, TypeOK, Same
<1>6. /\ state'[t] \in Terminal
      /\ failure'[t] = failure[t] \/ failure'[t] # "deadline"
      /\ state'[t] = state[t] \/ state'[t] # "succeeded"
      /\ state[t] \in Terminal => /\ state'[t] = state[t] /\ failure'[t] = failure[t]
                                  /\ timer'[t] = timer[t] /\ timerBound'[t] = timerBound[t]
      /\ state[t] = "open" => ~timerBound'[t] /\ failure'[t] = c /\ (timerBound[t] => timer'[t] # "armed")
      /\ timer'[t] = "armed" => timer[t] = "armed"
      /\ state[t] \in Terminal \cup {"open"}
  BY <1>1, <1>2, <1>3, DecidesEffect DEF s, c, TypeOK
<1>7. \/ raw'[t] = raw[t] /\ result'[t] = result[t]
      \/ /\ raw[t] \in {"queued", "running", "passed"}
         /\ raw'[t] = "done" /\ result'[t] = "cancelled"
  BY <1>2, RevokeEffect
<1>8. TaskOK(t)'
  <2>1. Placed(t)'
    BY <1>6, <1>7 DEF Inv, TypeOK, TaskOK, Placed, AcceptedPcs, Terminal
  <2>2. ResultOK(t)'
    BY <1>6, <1>7 DEF Inv, TypeOK, TaskOK, Placed, ResultOK, Terminal
  <2>3. CompletionOK(t)'
    BY <1>6, <1>7 DEF Inv, TypeOK, TaskOK, Placed, AcceptedPcs, CompletionOK, Cut, Terminal
  <2>4. VerdictOK(t)'
    BY <1>6, <1>7 DEF Inv, TypeOK, TaskOK, Placed, AcceptedPcs, VerdictOK, CompletionOK,
       Terminal
  <2>5. SyncOK(t)'
    BY <1>6, <1>7 DEF Inv, TypeOK, TaskOK, Placed, AcceptedPcs, SyncOK, CompletionOK, Terminal
  <2>6. TimerOK(t)'
    BY <1>6, <1>7 DEF Inv, TypeOK, TaskOK, Placed, TimerOK, Terminal
  <2>7. CancelOK(t)'
    BY <1>6, <1>7 DEF Inv, TypeOK, TaskOK, Placed, CancelOK, Terminal
  <2> QED
    BY <2>1, <2>2, <2>3, <2>4, <2>5, <2>6, <2>7 DEF TaskOK
<1> QED
  BY <1>3, <1>4, <1>5, <1>6, <1>8, TaskStep

\* Expiry hands a completion that met the deadline to the synchronisation, fails an
\* open record by the deadline and revokes its execution, or leaves the record alone.
LEMMA ExpiredEffect ==
    ASSUME TypeOK, NEW t \in Tasks, state[t] # "absent", Expired(t)
    PROVE  /\ state' \in [Tasks -> Terminal \cup {"absent", "open"}]
           /\ failure' \in [Tasks -> Causes \cup {"none"}]
           /\ token' \in [Tasks -> BOOLEAN]
           /\ timerBound' \in [Tasks -> BOOLEAN]
           /\ raw' \in [Tasks -> {"none", "queued", "running", "passed", "done"}]
           /\ result' \in [Tasks -> {"none", "value", "error", "timeout", "foreign", "deadline", "cancelled"}]
           /\ \A u \in Tasks : failure'[u] # "none" <=> state'[u] = "failed"
           /\ Records' = Records
           /\ syncing' \subseteq Records \X BOOLEAN \X BOOLEAN
           /\ owed' \subseteq Reasons
           /\ OwedAfter(t)
           /\ \A u \in Tasks \ {t} :
                 /\ state'[u] = state[u] /\ failure'[u] = failure[u] /\ token'[u] = token[u]
                 /\ timerBound'[u] = timerBound[u] /\ raw'[u] = raw[u] /\ result'[u] = result[u]
                 /\ \A m, c \in BOOLEAN : <<u, m, c>> \in syncing' => <<u, m, c>> \in syncing
           /\ token[t] => token'[t]
           /\ \/ /\ state'[t] = state[t] /\ failure'[t] = failure[t] /\ timerBound'[t] = timerBound[t]
                 /\ raw'[t] = raw[t] /\ result'[t] = result[t]
                 /\ syncing' = syncing \/ (MetDeadline(t) /\ syncing' = syncing \cup {<<t, FALSE, interrupted[t]>>})
                 /\ state[t] = "open" => MetDeadline(t)
              \/ /\ state[t] = "open" /\ ~MetDeadline(t)
                 /\ state'[t] = "failed" /\ failure'[t] = "deadline" /\ ~timerBound'[t]
                 /\ syncing' = syncing
                 /\ \/ raw'[t] = raw[t] /\ result'[t] = result[t]
                    \/ /\ raw[t] \in {"queued", "running", "passed"}
                       /\ raw'[t] = "done" /\ result'[t] = "cancelled"
<1>1. CASE state[t] = "open" /\ MetDeadline(t)
  <2>1. /\ syncing' = syncing \cup {<<t, FALSE, interrupted[t]>>}
        /\ UNCHANGED <<state, failure, token, timerBound, raw, result, owed>>
    BY <1>1 DEF Expired
  <2>2. <<t, FALSE, interrupted[t]>> \in Records \X BOOLEAN \X BOOLEAN /\ Records' = Records
    BY <2>1 DEF Records, TypeOK
  <2>3. OwedAfter(t)
    BY <2>1 DEF OwedAfter
  <2> QED
    BY <1>1, <2>1, <2>2, <2>3 DEF TypeOK
<1>2. CASE state[t] = "open" /\ ~MetDeadline(t)
  <2> DEFINE b == Bound(t)
  <2>1. /\ state' = [state EXCEPT ![t] = "failed"]
        /\ failure' = [failure EXCEPT ![t] = "deadline"]
        /\ timerBound' = [timerBound EXCEPT ![t] = FALSE]
        /\ token' = [token EXCEPT ![t] = @ \/ t \notin Cpu]
        /\ RevokeRaw(t, b)
        /\ owed' = IF Cascades(t) THEN owed \cup {"failfast"} ELSE owed
        /\ syncing' = syncing
    BY <1>2 DEF Expired
  <2>2. b \in BOOLEAN
    BY DEF Bound
  <2> HIDE DEF b
  <2>3. /\ raw' \in [Tasks -> {"none", "queued", "running", "passed", "done"}]
        /\ result' \in [Tasks -> {"none", "value", "error", "timeout", "foreign", "deadline", "cancelled"}]
        /\ \A u \in Tasks \ {t} : raw'[u] = raw[u] /\ result'[u] = result[u]
        /\ \/ raw'[t] = raw[t] /\ result'[t] = result[t]
           \/ /\ raw[t] \in {"queued", "running", "passed"}
              /\ raw'[t] = "done" /\ result'[t] = "cancelled"
    BY <2>1, <2>2, RevokeEffect
  <2>4. OwedAfter(t)
    BY <2>1 DEF OwedAfter, Cascades, TypeOK
  <2>5. Records' = Records
    BY <1>2, <2>1 DEF Records, TypeOK
  <2>6. token' \in [Tasks -> BOOLEAN] /\ (token[t] => token'[t]) /\ \A u \in Tasks \ {t} : token'[u] = token[u]
    BY <2>1 DEF TypeOK
  <2>7. /\ state' \in [Tasks -> Terminal \cup {"absent", "open"}]
        /\ failure' \in [Tasks -> Causes \cup {"none"}]
        /\ timerBound' \in [Tasks -> BOOLEAN]
        /\ owed' \subseteq Reasons
        /\ \A u \in Tasks : failure'[u] # "none" <=> state'[u] = "failed"
        /\ \A u \in Tasks \ {t} : /\ state'[u] = state[u] /\ failure'[u] = failure[u]
                                  /\ timerBound'[u] = timerBound[u]
        /\ state'[t] = "failed" /\ failure'[t] = "deadline" /\ ~timerBound'[t]
    BY <2>1 DEF TypeOK, Terminal, Causes, Reasons
  <2> QED
    BY <1>2, <2>1, <2>3, <2>4, <2>5, <2>6, <2>7 DEF TypeOK
<1>3. CASE state[t] # "open"
  <2>1. UNCHANGED <<state, failure, token, timerBound, raw, result, owed, syncing>>
    BY <1>3 DEF Expired
  <2>2. OwedAfter(t) /\ Records' = Records
    BY <2>1 DEF OwedAfter, Records
  <2> QED
    BY <1>3, <2>1, <2>2 DEF TypeOK
<1> QED
  BY <1>1, <1>2, <1>3

\* What the steps that expire a task leave alone.
ExpiryFrame(t) ==
    /\ submitter' \in [Tasks -> {"idle", "refused", "entered", "reserved", "accepted", "bound",
                                 "scheduled", "armed", "raised", "returned"}]
    /\ timer' \in [Tasks -> {"none", "armed", "fired", "cancelled"}]
    /\ \A u \in Tasks \ {t} : submitter'[u] = submitter[u] /\ timer'[u] = timer[u]
    /\ submitter'[t] = submitter[t] \/ (submitter[t] = "bound" /\ submitter'[t] = "armed")
    /\ timer'[t] = timer[t] \/ timer'[t] = "fired"
    /\ UNCHANGED <<stamp, interrupted, published, spoilt, expired, group, listing, visiting,
                   aborting>>

\* Where expiry may fail a task the deadline has passed, or the execution is over
\* without a value.
LEMMA ExpiryKeeps ==
    ASSUME Inv, NEW t \in Tasks, Bound(t), Expired(t), ExpiryFrame(t),
           (t \in TaskOwned /\ expired[t]) \/ (raw[t] = "done" /\ result[t] # "value")
    PROVE  StepOK
<1> USE DEF ExpiryFrame, group
<1>1. TypeOK /\ state[t] # "absent"
  BY DEF Inv, TaskOK, Placed, Bound
<1>2. TypeOK'
  BY <1>1, ExpiredEffect DEF TypeOK
<1>3. \A u \in Tasks \ {t} : Same(u)
  <2>1. ASSUME NEW u \in Tasks \ {t}
        PROVE  /\ state'[u] = state[u] /\ failure'[u] = failure[u] /\ token'[u] = token[u]
               /\ timerBound'[u] = timerBound[u] /\ raw'[u] = raw[u] /\ result'[u] = result[u]
               /\ \A m, c \in BOOLEAN : <<u, m, c>> \in syncing' => <<u, m, c>> \in syncing
    BY <1>1, ExpiredEffect
  <2> QED
    BY <2>1 DEF Same
<1>4. OwedAfter(t)
  BY <1>1, ExpiredEffect
<1>5. token[t] => token'[t]
  BY <1>1, ExpiredEffect
<1>6. CASE /\ state'[t] = state[t] /\ failure'[t] = failure[t] /\ timerBound'[t] = timerBound[t]
           /\ raw'[t] = raw[t] /\ result'[t] = result[t]
           /\ syncing' = syncing \/ (MetDeadline(t) /\ syncing' = syncing \cup {<<t, FALSE, interrupted[t]>>})
  <2>1. Placed(t)' /\ ResultOK(t)'
    BY <1>6 DEF Inv, TypeOK, TaskOK, Placed, ResultOK, AcceptedPcs
  <2>2. CompletionOK(t)'
    BY <1>5, <1>6 DEF Inv, TypeOK, TaskOK, CompletionOK, Cut
  <2>3. VerdictOK(t)'
    BY <1>6 DEF Inv, TypeOK, TaskOK, VerdictOK
  <2>4. MetDeadline(t) => raw[t] = "done" /\ (spoilt[t] => interrupted[t])
    BY DEF Inv, TaskOK, CompletionOK, MetDeadline
  <2>5. SyncOK(t)'
    <3> SUFFICES ASSUME NEW m \in BOOLEAN, NEW c \in BOOLEAN, <<t, m, c>> \in syncing'
                 PROVE  /\ raw[t] = "done"
                        /\ m => t \in TaskOwned /\ expired[t]
                        /\ ~m /\ ~c => ~spoilt[t]
      BY <1>6 DEF SyncOK
    <3>1. CASE <<t, m, c>> \in syncing
      BY <3>1 DEF Inv, TaskOK, SyncOK
    <3>2. CASE <<t, m, c>> \notin syncing
      <4>1. MetDeadline(t) /\ <<t, m, c>> = <<t, FALSE, interrupted[t]>>
        BY <1>6, <3>2
      <4>2. m = FALSE /\ c = interrupted[t]
        BY <4>1
      <4> QED
        BY <2>4, <4>1, <4>2
    <3> QED
      BY <3>1, <3>2
  <2>6. TimerOK(t)'
    BY <1>6 DEF Inv, TypeOK, TaskOK, TimerOK
  <2>7. CancelOK(t)'
    BY <1>6 DEF Inv, TypeOK, TaskOK, CancelOK
  <2>8. TaskOK(t)'
    BY <2>1, <2>2, <2>3, <2>5, <2>6, <2>7 DEF TaskOK
  <2> QED
    BY <1>2, <1>3, <1>4, <1>6, <2>8, TaskStep
<1>7. CASE /\ state[t] = "open" /\ ~MetDeadline(t)
           /\ state'[t] = "failed" /\ failure'[t] = "deadline" /\ ~timerBound'[t]
           /\ syncing' = syncing
           /\ \/ raw'[t] = raw[t] /\ result'[t] = result[t]
              \/ /\ raw[t] \in {"queued", "running", "passed"}
                 /\ raw'[t] = "done" /\ result'[t] = "cancelled"
  <2>1. Placed(t)' /\ ResultOK(t)'
    BY <1>7 DEF Inv, TypeOK, TaskOK, Placed, ResultOK, AcceptedPcs
  <2>2. CompletionOK(t)'
    BY <1>5, <1>7 DEF Inv, TypeOK, TaskOK, CompletionOK, Cut
  <2>4. VerdictOK(t)'
    BY <1>7 DEF VerdictOK
  <2>5. SyncOK(t)'
    BY <1>7 DEF Inv, TypeOK, TaskOK, SyncOK
  <2>6. TimerOK(t)'
    BY <1>7 DEF Inv, TypeOK, TaskOK, TimerOK
  <2>7. CancelOK(t)'
    BY <1>7 DEF CancelOK
  <2>8. TaskOK(t)'
    BY <2>1, <2>2, <2>4, <2>5, <2>6, <2>7 DEF TaskOK
  <2> QED
    BY <1>2, <1>3, <1>4, <1>7, <2>8, TaskStep DEF Terminal
<1> QED
  BY <1>1, <1>6, <1>7, ExpiredEffect

LEMMA ArmsExpiredStep ==
    ASSUME Inv, NEW t \in Tasks, ArmsExpired(t)
    PROVE  StepOK
<1>1. ExpiryFrame(t)
  BY DEF ArmsExpired, SubmitterGoes, ExpiryFrame, Inv, TypeOK
<1> QED
  BY <1>1, ExpiryKeeps DEF ArmsExpired, Bound

LEMMA TimerFiresStep ==
    ASSUME Inv, NEW t \in Tasks, TimerFires(t)
    PROVE  StepOK
<1>1. ExpiryFrame(t)
  BY DEF TimerFires, ExpiryFrame, Inv, TypeOK
<1>2. Bound(t) /\ t \in TaskOwned /\ expired[t]
  BY DEF TimerFires, Bound, Inv, TaskOK, TimerOK
<1> QED
  BY <1>1, <1>2, ExpiryKeeps DEF TimerFires

LEMMA ResultTimesOutStep ==
    ASSUME Inv, NEW t \in Tasks, ResultTimesOut(t)
    PROVE  StepOK
<1>1. CASE GroupOwned(t)
  <2> USE <1>1 DEF ResultTimesOut, handle, group
  <2>1. /\ owed' = owed \cup {"deadline"}
        /\ UNCHANGED <<submitter, state, failure, token, timer, timerBound, raw, result, stamp, interrupted,
                       published, spoilt, expired, groupToken, reason, groupExpired, groupTimer,
                       listing, visiting, aborting, syncing>>
    OBVIOUS
  <2>2. Unambiguous => groupExpired
    BY TaskStateAssumption DEF Unambiguous, Late, GroupOwned, Inv, TaskOK, ResultOK
  <2>3. TypeOK'
    BY <2>1 DEF Inv, TypeOK, Records, Reasons
  <2>4. \A u \in Tasks : Same(u)
    BY <2>1 DEF Same
  <2>5. TaskOK(t)'
    BY <2>1, <2>4, OthersKept DEF Inv
  <2>6. OwedAfter(t)
    BY <2>1, <2>2 DEF OwedAfter
  <2> QED
    BY <2>1, <2>3, <2>4, <2>5, <2>6, TaskStep
<1>2. CASE ~GroupOwned(t)
  <2>1. ExpiryFrame(t)
    BY <1>2 DEF ResultTimesOut, ExpiryFrame, Inv, TypeOK
  <2>2. Bound(t) /\ ((t \in TaskOwned /\ expired[t]) \/ (raw[t] = "done" /\ result[t] # "value"))
    BY <1>2 DEF ResultTimesOut, Bound, Late
  <2> QED
    BY <1>2, <2>1, <2>2, ExpiryKeeps DEF ResultTimesOut
<1> QED
  BY <1>1, <1>2

-----------------------------------------------------------------------------
(***************************************************************************)
(* Steps that concern the group.                                           *)
(***************************************************************************)

LEMMA GroupTimerFiresStep ==
    ASSUME Inv, GroupTimerFires
    PROVE  StepOK
<1> USE DEF GroupTimerFires, record, handle
<1>1. TypeOK'
  BY DEF Inv, TypeOK, Records, Reasons
<1>2. ASSUME NEW u \in Tasks PROVE TaskOK(u)'
  BY OthersKept DEF Same, Inv
<1>3. FailFastOK' /\ Final
  BY DEF Inv, FailFastOK, HasFailed, Final
<1>4. Reasoned => Reasoned'
  BY DEF Reasoned, HasFailed
<1> QED
  BY <1>1, <1>2, <1>3, <1>4 DEF Inv, StepOK, ReasonedInv, Unambiguous

LEMMA GroupDeadlinePassesStep ==
    ASSUME Inv, GroupDeadlinePasses
    PROVE  StepOK
<1> USE DEF GroupDeadlinePasses, record, handle, threads
<1>1. TypeOK'
  BY DEF Inv, TypeOK, Records
<1>2. ASSUME NEW u \in Tasks PROVE TaskOK(u)'
  BY OthersKept DEF Same, Inv
<1>3. FailFastOK' /\ Final
  BY DEF Inv, FailFastOK, HasFailed, Final
<1>4. Reasoned => Reasoned'
  BY DEF Reasoned, HasFailed
<1> QED
  BY <1>1, <1>2, <1>3, <1>4 DEF Inv, StepOK, ReasonedInv, Unambiguous

LEMMA CancelGroupStep ==
    ASSUME Inv, NEW r \in Reasons, CancelGroup(r)
    PROVE  StepOK
<1> USE DEF CancelGroup, record, handle
<1>1. TypeOK'
  BY DEF Inv, TypeOK, Records
<1>2. ASSUME NEW u \in Tasks PROVE TaskOK(u)'
  <2>1. Placed(u)' /\ ResultOK(u)'
    BY DEF Inv, TaskOK, Placed, ResultOK
  <2>2. CompletionOK(u)'
    BY DEF Inv, TaskOK, CompletionOK, Cut
  <2>3. VerdictOK(u)' /\ SyncOK(u)' /\ TimerOK(u)'
    BY DEF Inv, TaskOK, VerdictOK, SyncOK, TimerOK
  <2>4. CancelOK(u)'
    BY DEF CancelOK
  <2> QED
    BY <2>1, <2>2, <2>3, <2>4 DEF TaskOK
<1>3. FailFastOK' /\ Final
  BY DEF FailFastOK, Final
<1>4. Reasoned => Reasoned'
  BY DEF Reasoned, HasFailed, Reasons
<1> QED
  BY <1>1, <1>2, <1>3, <1>4 DEF Inv, StepOK, ReasonedInv, Unambiguous

LEMMA CancelListsStep ==
    ASSUME Inv, CancelLists
    PROVE  StepOK
<1> USE DEF CancelLists, Listed, record, handle, group
<1>1. TypeOK'
  <2>1. Records' = Records
    BY DEF Records
  <2> QED
    BY <2>1 DEF Inv, TypeOK
<1>2. ASSUME NEW u \in Tasks PROVE TaskOK(u)'
  <2>1. Placed(u)' /\ ResultOK(u)'
    BY DEF Inv, TaskOK, Placed, ResultOK
  <2>2. CompletionOK(u)'
    BY DEF Inv, TaskOK, CompletionOK, Cut
  <2>3. VerdictOK(u)' /\ SyncOK(u)' /\ TimerOK(u)'
    BY DEF Inv, TaskOK, VerdictOK, SyncOK, TimerOK
  <2>4. state[u] = "open" => u \in visiting'
    BY DEF Records
  <2>5. CancelOK(u)'
    BY <2>4 DEF CancelOK
  <2> QED
    BY <2>1, <2>2, <2>3, <2>5 DEF TaskOK
<1>3. FailFastOK' /\ Final
  BY DEF Inv, FailFastOK, HasFailed, Final
<1>4. Reasoned => Reasoned'
  BY DEF Reasoned, HasFailed
<1> QED
  BY <1>1, <1>2, <1>3, <1>4 DEF Inv, StepOK, ReasonedInv, Unambiguous

-----------------------------------------------------------------------------
(***************************************************************************)
(* A deadline that was met stays so.                                       *)
(***************************************************************************)

LEMMA MetUnlessTouched ==
    ASSUME NEW t \in Tasks, Met(t), UNCHANGED <<stamp, published>>, result'[t] = result[t],
           failure'[t] = "deadline" => failure[t] = "deadline",
           \A cut \in BOOLEAN : <<t, TRUE, cut>> \in syncing' => <<t, TRUE, cut>> \in syncing
    PROVE  Met(t)'
BY DEF Met, DeadlineDecided

\* The task's work is over and was handed to the submitter's record.
LEMMA MetPlace ==
    ASSUME Inv, NEW t \in Tasks, Met(t)
    PROVE  /\ raw[t] = "done" /\ submitter[t] \in AcceptedPcs /\ state[t] # "absent"
           /\ failure[t] # "deadline" /\ stamp[t] = "ontime" /\ published[t] /\ result[t] = "value"
           /\ \A cut \in BOOLEAN : <<t, TRUE, cut>> \notin syncing
BY DEF Inv, TaskOK, Placed, CompletionOK, Met, DeadlineDecided, AcceptedPcs

\* A mark with another cause, or on another task, brings no deadline failure.
LEMMA MarkIsNoDeadline ==
    ASSUME TypeOK, NEW t \in Tasks, NEW u \in Tasks, NEW s, NEW cause, Mark(u, s, cause),
           u # t \/ cause # "deadline"
    PROVE  failure'[t] = "deadline" => failure[t] = "deadline"
BY DEF Mark, Settle, TypeOK

LEMMA RevokeSparesTheDone ==
    ASSUME TypeOK, NEW t \in Tasks, raw[t] = "done", NEW u \in Tasks, NEW bound \in BOOLEAN,
           RevokeRaw(u, bound)
    PROVE  result'[t] = result[t]
BY DEF RevokeRaw, Revocable, TypeOK

\* Expiry finds the published time of a task that was bound.
LEMMA MetOnExpiry ==
    ASSUME Inv, NEW t \in Tasks, Met(t), NEW u \in Tasks, Bound(u), Expired(u),
           UNCHANGED <<stamp, published>>
    PROVE  Met(t)'
<1> DEFINE b == Bound(u)
<1>1. TypeOK /\ raw[t] = "done" /\ b \in BOOLEAN
  BY MetPlace DEF Inv, Bound
<1>2. u = t => MetDeadline(t)
  BY MetPlace DEF MetDeadline
<1>3. result'[t] = result[t]
  <2>1. RevokeRaw(u, b) \/ UNCHANGED result
    BY DEF Expired
  <2> HIDE DEF b
  <2> QED
    BY <1>1, <2>1, RevokeSparesTheDone
<1>4. failure'[t] = "deadline" => failure[t] = "deadline"
  <2>1. CASE state[u] = "open" /\ ~MetDeadline(u)
    <3>1. failure' = [failure EXCEPT ![u] = "deadline"] /\ u # t
      BY <1>2, <2>1 DEF Expired
    <3> QED
      BY <1>1, <3>1 DEF TypeOK
  <2>2. CASE ~(state[u] = "open" /\ ~MetDeadline(u))
    BY <2>2 DEF Expired
  <2> QED
    BY <2>1, <2>2
<1>5. \A cut \in BOOLEAN : <<t, TRUE, cut>> \in syncing' => <<t, TRUE, cut>> \in syncing
  <2>1. syncing' = syncing \/ syncing' = syncing \cup {<<u, FALSE, interrupted[u]>>}
    BY DEF Expired
  <2>2. ASSUME NEW cut \in BOOLEAN, <<t, TRUE, cut>> \in syncing', <<t, TRUE, cut>> \notin syncing
        PROVE  FALSE
    <3>1. <<t, TRUE, cut>> = <<u, FALSE, interrupted[u]>>
      BY <2>1, <2>2
    <3> QED
      BY <3>1
  <2> QED
    BY <2>2
<1> QED
  BY <1>3, <1>4, <1>5, MetUnlessTouched

LEMMA MetOnSubmission ==
    ASSUME Inv, NEW t \in Tasks, Met(t), NEW u \in Tasks, Submission(u)
    PROVE  Met(t)'
<1>1. TypeOK
  BY DEF Inv
<1>2. CASE EnterScope(u) \/ BindRaw(u) \/ ArmsNothing(u) \/ ArmsTimer(u) \/ BindTimer(u) \/ LastCheck(u)
  BY <1>2, MetUnlessTouched DEF EnterScope, BindRaw, ArmsNothing, ArmsTimer, BindTimer, LastCheck,
     record, handle, threads
<1>3. CASE Accept(u)
  <2>1. u # t
    BY <1>3, MetPlace DEF Accept, AcceptedPcs
  <2> QED
    BY <1>3, <2>1, MetUnlessTouched DEF Accept, record, threads
<1>4. CASE Reserve(u)
  <2>1. u # t
    BY <1>4, MetPlace DEF Reserve, AcceptedPcs
  <2>2. failure'[t] = failure[t]
    BY <1>1, <1>4, <2>1 DEF Reserve, TypeOK
  <2> QED
    BY <1>4, <2>2, MetUnlessTouched DEF Reserve, handle
<1>5. CASE RefuseCancelled(u)
  BY <1>1, <1>5, MarkIsNoDeadline, MetUnlessTouched DEF RefuseCancelled, handle
<1>6. CASE RefuseFailed(u)
  <2>1. u # t
    BY <1>6, MetPlace DEF RefuseFailed, AcceptedPcs
  <2>2. failure'[t] = failure[t]
    BY <1>1, <1>6, <2>1 DEF RefuseFailed, Mark, Settle, TypeOK
  <2> QED
    BY <1>6, <2>2, MetUnlessTouched DEF RefuseFailed, handle
<1>7. CASE ArmsExpired(u)
  BY <1>7, MetOnExpiry DEF ArmsExpired, Bound
<1>8. CASE ArmFails(u)
  BY <1>1, <1>8, MarkIsNoDeadline, MetUnlessTouched DEF ArmFails, handle
<1> QED
  BY <1>2, <1>3, <1>4, <1>5, <1>6, <1>7, <1>8 DEF Submission

LEMMA MetOnExecution ==
    ASSUME Inv, NEW t \in Tasks, Met(t), NEW u \in Tasks, Execution(u)
    PROVE  Met(t)'
<1>1. TypeOK /\ raw[t] = "done" /\ stamp[t] # "none" /\ published[t]
  BY MetPlace DEF Inv
<1>2. CASE Start(u) \/ PassLastCheckpoint(u) \/ Observe(u)
  BY <1>2, MetUnlessTouched DEF Start, PassLastCheckpoint, Observe, record, handle, threads
<1>3. CASE Finish(u)
  <2>1. u # t
    BY <1>1, <1>3 DEF Finish
  <2>2. result'[t] = result[t]
    BY <1>1, <1>3, <2>1 DEF Finish, TypeOK
  <2> QED
    BY <1>3, <2>2, MetUnlessTouched DEF Finish, record, threads
<1>4. CASE CaptureReads(u) \/ CaptureStores(u)
  <2>1. u # t /\ UNCHANGED <<result, failure, syncing>>
    BY <1>1, <1>4 DEF CaptureReads, CaptureStores, record, threads
  <2>2. stamp'[t] = stamp[t] /\ published'[t] = published[t]
    BY <1>1, <1>4, <2>1 DEF CaptureReads, CaptureStores, TypeOK
  <2> QED
    BY <2>1, <2>2 DEF Met, DeadlineDecided
<1> QED
  BY <1>2, <1>3, <1>4 DEF Execution

LEMMA MetOnSyncing ==
    ASSUME Inv, NEW t \in Tasks, Met(t), NEW u \in Tasks, Syncing(u)
    PROVE  Met(t)'
<1>1. TypeOK
  BY DEF Inv
<1>2. CASE SyncReads(u)
  <2>1. u = t => Missed(u) = FALSE
    BY MetPlace DEF Missed
  <2>2. \A cut \in BOOLEAN : <<t, TRUE, cut>> \in syncing' => <<t, TRUE, cut>> \in syncing
    BY <1>2, <2>1 DEF SyncReads
  <2> QED
    BY <1>2, <2>2, MetUnlessTouched DEF SyncReads, record, handle
<1>3. ASSUME NEW missed \in BOOLEAN, NEW cut \in BOOLEAN, SyncMarks(u, missed, cut)
      PROVE  Met(t)'
  <2>1. UNCHANGED handle /\ syncing' \subseteq syncing
    BY <1>3 DEF SyncMarks
  <2>2. u = t => ~missed /\ result[u] = "value"
    BY <1>3, MetPlace DEF SyncMarks
  <2>3. u = t => \E s \in Verdicts(u, cut) : Mark(u, s, "none")
    BY <1>3, <2>2 DEF SyncMarks
  <2>4. u # t => failure'[t] = failure[t]
    <3>1. PICK s \in Terminal, cause \in Causes \cup {"none"} : Decides(u, s, cause)
      BY <1>3, SyncDecides
    <3> QED
      BY <1>1, <3>1 DEF Decides, Settle, TypeOK
  <2>5. failure'[t] = "deadline" => failure[t] = "deadline"
    BY <1>1, <2>3, <2>4, MarkIsNoDeadline
  <2> QED
    BY <2>1, <2>5, MetUnlessTouched DEF handle
<1> QED
  BY <1>2, <1>3 DEF Syncing

\* While the published time of a value lies before the deadline, nobody comes to fail
\* the task by it.
LEMMA MetKept == Inv /\ [Next]_vars => \A t \in Tasks : Met(t) => Met(t)'
<1> SUFFICES ASSUME Inv, [Next]_vars, NEW t \in Tasks, Met(t) PROVE Met(t)'
  OBVIOUS
<1>1. TypeOK /\ raw[t] = "done"
  BY MetPlace DEF Inv
<1>2. ASSUME NEW u \in Tasks, CancelReads(u) \/ CancelHandle(u) \/ TaskDeadlinePasses(u)
      PROVE  Met(t)'
  BY <1>2, MetUnlessTouched DEF CancelReads, CancelHandle, TaskDeadlinePasses, record, handle, threads
<1>3. ASSUME NEW u \in Tasks, NEW bound \in BOOLEAN, CancelMarks(u, bound)
      PROVE  Met(t)'
  <2>1. RevokeRaw(u, bound) /\ Mark(u, "cancelled", "none") /\ UNCHANGED <<stamp, published, syncing>>
    BY <1>3 DEF CancelMarks
  <2>2. result'[t] = result[t]
    BY <1>1, <2>1, RevokeSparesTheDone
  <2> QED
    BY <1>1, <2>1, <2>2, MarkIsNoDeadline, MetUnlessTouched
<1>4. ASSUME NEW u \in Tasks, TimerFires(u) PROVE Met(t)'
  <2>1. Bound(u)
    BY <1>4 DEF TimerFires, Bound, Inv, TaskOK, TimerOK
  <2> QED
    BY <1>4, <2>1, MetOnExpiry DEF TimerFires
<1>5. ASSUME NEW u \in Tasks, ResultTimesOut(u) PROVE Met(t)'
  <2>1. CASE GroupOwned(u)
    BY <1>5, <2>1, MetUnlessTouched DEF ResultTimesOut
  <2>2. CASE ~GroupOwned(u)
    BY <1>5, <2>2, MetOnExpiry DEF ResultTimesOut, Bound
  <2> QED
    BY <2>1, <2>2
<1>6. CASE GroupCancelling \/ GroupTimerFires \/ GroupDeadlinePasses \/ UNCHANGED vars
  BY <1>6, MetUnlessTouched DEF GroupCancelling, CancelLists, CancelGroup, GroupTimerFires,
     GroupDeadlinePasses, vars, record, handle, threads
<1> QED
  BY <1>2, <1>3, <1>4, <1>5, <1>6, MetOnSubmission, MetOnExecution, MetOnSyncing
     DEF Next, Cancelling

-----------------------------------------------------------------------------
(***************************************************************************)
(* The theorems.                                                           *)
(***************************************************************************)

LEMMA InitInv == Init => Inv /\ ReasonedInv
<1> SUFFICES ASSUME Init PROVE Inv /\ ReasonedInv
  OBVIOUS
<1> USE DEF Init
<1>1. TypeOK
  BY TaskStateAssumption DEF TypeOK, Records, Terminal, Causes, Reasons
<1>2. ASSUME NEW t \in Tasks PROVE TaskOK(t)
  BY DEF TaskOK, Placed, ResultOK, CompletionOK, VerdictOK, SyncOK, TimerOK, CancelOK,
     AcceptedPcs
<1>3. FailFastOK /\ Reasoned
  BY DEF FailFastOK, Reasoned, HasFailed
<1> QED
  BY <1>1, <1>2, <1>3 DEF Inv, ReasonedInv

LEMMA StutterStep ==
    ASSUME Inv, UNCHANGED vars
    PROVE  StepOK
<1> USE DEF vars, record, handle, group, threads
<1>1. TypeOK'
  BY DEF Inv, TypeOK, Records
<1>2. ASSUME NEW u \in Tasks PROVE TaskOK(u)'
  BY OthersKept DEF Same, Inv
<1>3. FailFastOK' /\ Final
  BY DEF Inv, FailFastOK, HasFailed, Final
<1>4. Reasoned => Reasoned'
  BY DEF Reasoned, HasFailed
<1> QED
  BY <1>1, <1>2, <1>3, <1>4 DEF Inv, StepOK, ReasonedInv, Unambiguous

LEMMA NextInv == Inv /\ [Next]_vars => StepOK
<1> SUFFICES ASSUME Inv, [Next]_vars PROVE StepOK
  OBVIOUS
<1>1. ASSUME NEW t \in Tasks, Submission(t) PROVE StepOK
  BY <1>1, EnterScopeStep, ReserveStep, AcceptStep, RefuseCancelledStep, RefuseFailedStep,
     BindRawStep,
     ArmsNothingStep, ArmsTimerStep, ArmsExpiredStep, ArmFailsStep, BindTimerStep, LastCheckStep
     DEF Submission
<1>2. ASSUME NEW t \in Tasks, Execution(t) PROVE StepOK
  BY <1>2, StartStep, PassLastCheckpointStep, FinishStep, ObserveStep, CaptureReadsStep,
     CaptureStoresStep DEF Execution
<1>3. ASSUME NEW t \in Tasks, Syncing(t) PROVE StepOK
  BY <1>3, SyncReadsStep, SyncMarksStep DEF Syncing
<1>4. ASSUME NEW t \in Tasks, Cancelling(t) PROVE StepOK
  BY <1>4, CancelReadsStep, CancelMarksStep DEF Cancelling
<1>5. ASSUME GroupCancelling PROVE StepOK
  BY <1>5, CancelListsStep, CancelGroupStep DEF GroupCancelling
<1> QED
  BY <1>1, <1>2, <1>3, <1>4, <1>5, TimerFiresStep, ResultTimesOutStep, CancelHandleStep,
     TaskDeadlinePassesStep, GroupTimerFiresStep, GroupDeadlinePassesStep, StutterStep DEF Next

\* Every reachable state satisfies the invariant.
THEOREM Invariance == Spec => [](Inv /\ ReasonedInv)
<1>1. Inv /\ ReasonedInv /\ [Next]_vars => Inv' /\ ReasonedInv'
  BY NextInv DEF StepOK
<1> QED
  BY InitInv, <1>1, PTL DEF Spec

\* Each variable keeps its kind, a failure goes with a failed record, and whatever a
\* thread still means to do concerns a task that has a record.
THEOREM TypeCorrect == Spec => []TypeOK
<1>1. Inv => TypeOK
  BY DEF Inv
<1> QED
  BY <1>1, Invariance, PTL

\* The first verdict on a task stands, whoever else still decides on what was read
\* before it (mark_succeeded, mark_failed, mark_cancelled, expire_task).
THEOREM FirstVerdictStands == Spec => VerdictIsFinal
<1> DEFINE Kept == \A t \in Tasks : state[t] \in Terminal =>
                      state'[t] = state[t] /\ failure'[t] = failure[t]
<1>1. Inv /\ [Next]_vars => [Kept]_vars
  BY NextInv DEF StepOK, Final
<1> QED
  BY <1>1, Invariance, PTL DEF Spec, VerdictIsFinal

\* From the moment a value is published with a time before its deadline, no thread
\* comes to fail the task by that deadline (expire_task, sync_terminal_from_raw).
THEOREM DeadlineHonoured == Spec => MetDeadlineIsHonoured
<1> DEFINE Kept == \A t \in Tasks : Met(t) => Met(t)'
<1>1. Inv /\ [Next]_vars => [Kept]_vars
  BY MetKept
<1> QED
  BY <1>1, Invariance, PTL DEF Spec, MetDeadlineIsHonoured

\* What ended after its own deadline, or cancelled, is no success (cancellation_times).
THEOREM SuccessIsTrue == Spec => []NoFalseSuccess
<1>1. Inv => NoFalseSuccess
  BY DEF Inv, TaskOK, VerdictOK, NoFalseSuccess
<1> QED
  BY <1>1, Invariance, PTL

\* Once submit has returned a terminal record has no armed timer, unless the
\* deadline of that timer failed it (bind_task_deadline).
THEOREM TimersAreTaken == Spec => []NoStrayTimer
<1>1. Inv => NoStrayTimer
  BY DEF Inv, TaskOK, TimerOK, NoStrayTimer, Terminal
<1> QED
  BY <1>1, Invariance, PTL

\* In a fail-fast group no task that was handed out outlives the failure of a
\* group-scoped one, once the cancelling threads are done (mark_failed, cancel_all).
THEOREM FailFastEndsTheGroup == Spec => []NobodyOutlivesFailFast
<1>1. Inv => NobodyOutlivesFailFast
  <2> SUFFICES ASSUME Inv, FailFast, HasFailed, owed = {}, ~listing, visiting = {}, aborting = {}
               PROVE  groupToken /\ \A t \in Tasks : state[t] = "open" => submitter[t] \notin {"returned", "raised"}
    BY DEF NobodyOutlivesFailFast, HasFailed
  <2>1. groupToken
    BY DEF Inv, FailFastOK
  <2>2. ASSUME NEW t \in Tasks, state[t] = "open" PROVE submitter[t] \notin {"returned", "raised"}
    BY <2>1, <2>2 DEF Inv, TaskOK, Placed, CancelOK
  <2> QED
    BY <2>1, <2>2
<1> QED
  BY <1>1, Invariance, PTL

\* Where a timeout a function raises cannot be taken for the group deadline, only the
\* failure of a group-scoped task cancels the group before that deadline
\* (mark_failed's cascade, normalize_failure).
THEOREM RequestFailuresAreLocal ==
    ASSUME Unambiguous
    PROVE  Spec => []RequestFailureStaysItsCallers
<1>1. ReasonedInv => RequestFailureStaysItsCallers
  BY DEF ReasonedInv, Reasoned, HasFailed, RequestFailureStaysItsCallers
<1> QED
  BY <1>1, Invariance, PTL
=============================================================================
