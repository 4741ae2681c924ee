------------------------ MODULE EffectRecoveryProofs ------------------------
(***************************************************************************)
(* For any number of effects, crashes and lost answers, and for every      *)
(* workflow and provider the run may be bound to: each effect is executed  *)
(* at most once, completed at most once where the Method can be asked,     *)
(* what the journal finally says is true and final, no work is done on a   *)
(* world that another effect may still have changed, and an intent that no *)
(* retry closes blocks its run for ever.                                   *)
(***************************************************************************)
EXTENDS EffectRecovery, TLAPS

-----------------------------------------------------------------------------
(***************************************************************************)
(* The inductive invariant.                                                *)
(***************************************************************************)

\* A receipt that proves something says what happened to the world; "no
\* effect" covers an effect that was refused.
Truthful(e, w) ==
    /\ e.certainty = "effect_confirmed" => w = "applied"
    /\ e.certainty = "effect_rejected" => w = "rejected"
    /\ e.certainty = "no_effect" => w \in {"untouched", "rejected"}

\* What holds of an intent whatever the controller does: an intent nobody
\* prepared was neither executed nor completed, its record is truthful, and
\* an action is consumed only after its task was completed.
IntentOK(i) ==
    /\ journal[i].phase = "absent" => executions[i] = 0 /\ completions[i] = 0
    /\ executions[i] <= 1
    /\ setup.reconcilable => completions[i] <= 1
    /\ ~IsContextAction => completions[i] = 0
    /\ Truthful(journal[i].effect, world[i])
    /\ IsContextAction /\ journal[i].phase = "consumed" => completions[i] > 0

IntentsOK == \A i \in Intents : IntentOK(i)

RecordSteps == {"committed_record", "record_effect", "record_handle"}

CycleSteps == {"ask_method", "committed_reconcile", "committed_record", "authorize",
               "reconcile_effect", "record_effect", "complete"}

\* The steps on the way to a completion that was not made yet, ...
OpenTaskSteps == {"authorize", "prepare", "execute", "record_result", "reconcile_effect",
                  "record_effect", "reconcile_handle", "record_handle", "complete"}

\* ... and those after one.
DoneTaskSteps == {"committed_reconcile", "committed_record", "consume"}

UnpreparedSteps == {"preflight", "authorize", "prepare"}

\* What the controller knows at step s with intent i and receipt e.  What it
\* holds is as true as the journal, it is before or after the completion of
\* the task, and it has seen that the scope is clear; ...
KnowsTask(i, s, e) ==
    /\ Truthful(e, world[i])
    /\ s \in RecordSteps => IsResolved(e)
    /\ s \in CycleSteps => IsContextAction
    /\ s \in OpenTaskSteps /\ setup.reconcilable => completions[i] = 0
    /\ s \in DoneTaskSteps /\ IsContextAction => completions[i] > 0
    /\ (IsContextAction /\ s # "preflight") \/ s \in {"prepare", "execute"} => ScopeClear(i)

\* ... and it executes only what it has just prepared, for the first time.
KnowsRecord(i, s) ==
    /\ s = "prepare" /\ ~IsContextAction => journal[i] = NoRecord
    /\ s = "execute" => journal[i] = Prepared /\ executions[i] = 0
    /\ s \notin UnpreparedSteps => journal[i].phase # "absent"

Knows(i, s, e) == KnowsTask(i, s, e) /\ KnowsRecord(i, s)

ControlOK == ctl # Idle => Knows(ctl.intent, ctl.at, ctl.result)

Inv == TypeOK /\ IntentsOK /\ ControlOK

-----------------------------------------------------------------------------
(***************************************************************************)
(* How the controller moves.                                               *)
(***************************************************************************)

\* A controller that is at a step is in an attempt.
LEMMA AtAttempt ==
    ASSUME TypeOK, NEW s, s # "idle", At(s)
    PROVE  ctl \in Attempts /\ ctl # Idle
BY DEF TypeOK, At, Idle, Attempts

\* Going to a step keeps the rest of the attempt, ...
LEMMA GotoStep ==
    ASSUME ctl \in Attempts, NEW s \in Steps \ {"idle"}, Goto(s)
    PROVE  /\ ctl' \in Attempts /\ ctl' # Idle
           /\ ctl'.at = s /\ ctl'.intent = ctl.intent /\ ctl'.result = ctl.result
BY DEF Goto, Attempts, Idle

\* ... and holding a receipt changes what it holds.
LEMMA HoldStep ==
    ASSUME ctl \in Attempts, NEW s \in Steps \ {"idle"}, NEW e \in Receipts, Hold(e, s)
    PROVE  /\ ctl' \in Attempts /\ ctl' # Idle
           /\ ctl'.at = s /\ ctl'.intent = ctl.intent /\ ctl'.result = e
BY DEF Hold, Attempts, Idle

\* A controller that gives up knows nothing.
LEMMA GiveUpStep ==
    ASSUME GiveUp
    PROVE  ctl' = Idle /\ ControlOK'
BY DEF GiveUp, ControlOK

\* A step of the controller alone disturbs no intent, ...
LEMMA ControllerStep ==
    ASSUME TypeOK, IntentsOK, ctl' \in Attempts \cup {Idle},
           UNCHANGED <<setup, faults, journal, world, executions, completions>>
    PROVE  TypeOK' /\ IntentsOK'
<1>1. TypeOK'
  BY DEF TypeOK, RecordOK
<1>2. IntentsOK'
  BY DEF IntentsOK, IntentOK, IsContextAction
<1> QED
  BY <1>1, <1>2

\* ... and keeps the invariant when the controller gives up, ...
LEMMA GiveUpInv ==
    ASSUME Inv, GiveUp, UNCHANGED <<setup, faults, journal, world, executions, completions>>
    PROVE  Inv'
BY GiveUpStep, ControllerStep DEF Inv

\* ... or goes to a step at which it knows what it must.
LEMMA MoveInv ==
    ASSUME Inv, NEW c \in Attempts, ctl' = c, Knows(c.intent, c.at, c.result),
           UNCHANGED <<setup, faults, journal, world, executions, completions>>
    PROVE  Inv'
<1>1. Knows(c.intent, c.at, c.result)'
  BY DEF Knows, KnowsTask, KnowsRecord, IsContextAction, ScopeClear, IsOpen
<1> QED
  BY <1>1, ControllerStep DEF Inv, ControlOK

LEMMA GotoInv ==
    ASSUME Inv, ctl \in Attempts, NEW s \in Steps \ {"idle"}, Goto(s),
           Knows(ctl.intent, s, ctl.result),
           UNCHANGED <<setup, faults, journal, world, executions, completions>>
    PROVE  Inv'
BY GotoStep, MoveInv

LEMMA HoldInv ==
    ASSUME Inv, ctl \in Attempts, NEW s \in Steps \ {"idle"}, NEW e \in Receipts, Hold(e, s),
           Knows(ctl.intent, s, e),
           UNCHANGED <<setup, faults, journal, world, executions, completions>>
    PROVE  Inv'
BY HoldStep, MoveInv

\* The records and receipts the journal is written with have their types.
LEMMA RecordTypes ==
    /\ NoReceipt \in Receipts
    /\ Prepared \in Records
    /\ \A r \in Records : Consumed(r) \in Records
    /\ \A e \in Receipts : Reconciled(e) \in Records /\ NotApplied(e) \in Records
    /\ \A r \in Records, e \in Receipts : ResultRecorded(r, e) \in Records
BY DEF Records, Receipts, NoReceipt, Prepared, ResultRecorded, Reconciled, Consumed,
       NotApplied, OpenPhases, TerminalPhases, Final, Givers

\* A write to the journal that leaves its record well formed, truthful and
\* no longer absent, and consumes an action only after its completion.
LEMMA JournalStep ==
    ASSUME TypeOK, IntentsOK, ctl' \in Attempts \cup {Idle},
           NEW i \in Intents, NEW r \in Records,
           RecordOK(r), r.phase # "absent", Truthful(r.effect, world[i]),
           IsContextAction /\ r.phase = "consumed" => completions[i] > 0,
           journal' = [journal EXCEPT ![i] = r],
           UNCHANGED <<setup, faults, world, executions, completions>>
    PROVE  /\ TypeOK' /\ IntentsOK' /\ journal'[i] = r
           /\ ScopeClear(i)' = ScopeClear(i)
<1>1. /\ journal' \in [Intents -> Records]
      /\ journal'[i] = r
      /\ \A j \in Intents \ {i} : journal'[j] = journal[j]
  BY DEF TypeOK
<1>2. TypeOK'
  <2>1. \A j \in Intents : RecordOK(journal'[j])
    BY <1>1 DEF TypeOK
  <2> QED
    BY <1>1, <2>1 DEF TypeOK
<1>3. IntentsOK'
  <2> SUFFICES ASSUME NEW j \in Intents PROVE IntentOK(j)'
    BY DEF IntentsOK
  <2>1. IntentOK(j)
    BY DEF IntentsOK
  <2>2. CASE j = i
    BY <1>1, <2>1, <2>2 DEF IntentOK, IsContextAction
  <2>3. CASE j # i
    BY <1>1, <2>1, <2>3 DEF IntentOK, IsContextAction
  <2> QED
    BY <2>2, <2>3
<1>4. ScopeClear(i)' = ScopeClear(i)
  BY <1>1 DEF ScopeClear, IsOpen
<1> QED
  BY <1>1, <1>2, <1>3, <1>4

-----------------------------------------------------------------------------
(***************************************************************************)
(* The steps of the controller that change nothing else.                   *)
(***************************************************************************)

\* A record that is neither open nor closed is absent: nothing was done yet.
LEMMA AbsentRecord ==
    ASSUME TypeOK, IntentsOK, NEW i \in Intents
    PROVE  /\ ~IsOpen(i) /\ ~IsClosed(i) => journal[i].phase = "absent"
           /\ journal[i].phase = "absent" => /\ journal[i] = NoRecord
                                             /\ executions[i] = 0
                                             /\ completions[i] = 0
           /\ IsOpen(i) => journal[i].phase # "absent"
<1>1. journal[i] \in Records /\ RecordOK(journal[i])
  BY DEF TypeOK
<1>2. IntentOK(i)
  BY DEF IntentsOK
<1>3. ~IsOpen(i) /\ ~IsClosed(i) => journal[i].phase = "absent"
  BY <1>1 DEF Records, IsOpen, IsClosed
<1>4. journal[i].phase = "absent" => journal[i] = NoRecord
  BY <1>1 DEF Records, RecordOK, NoRecord
<1>5. IsOpen(i) => journal[i].phase # "absent"
  BY DEF IsOpen, OpenPhases
<1> QED
  BY <1>2, <1>3, <1>4, <1>5 DEF IntentOK

\* What a controller at a step knows.
LEMMA AtKnows ==
    ASSUME Inv, NEW s, s # "idle", At(s)
    PROVE  /\ ctl \in Attempts /\ ctl.intent \in Intents /\ ctl.result \in Receipts
           /\ journal[ctl.intent] \in Records /\ RecordOK(journal[ctl.intent])
           /\ Knows(ctl.intent, s, ctl.result)
BY AtAttempt DEF Inv, ControlOK, At, Attempts, TypeOK

\* A receipt is made of a certainty and a giver, and the provider's answers
\* are true.
LEMMA ReceiptType ==
    ASSUME NEW c \in Final \cup {"absent", "effect_possible"}, NEW by \in Givers
    PROVE  Receipt(c, by) \in Receipts /\ Receipt(c, by).certainty = c
BY DEF Receipt, Receipts, Givers

LEMMA HandleReceiptTrue ==
    ASSUME TypeOK, NEW i \in Intents, world[i] # "inflight"
    PROVE  /\ HandleReceipt(i) \in Receipts /\ IsResolved(HandleReceipt(i))
           /\ Truthful(HandleReceipt(i), world[i])
           /\ world[i] \in {"applied", "rejected"} <=> IsConsumable(HandleReceipt(i))
<1>1. world[i] \in {"applied", "rejected", "untouched"}
  BY DEF TypeOK, Worlds
<1>2. /\ world[i] = "applied" => HandleCertainty(world[i]) = "effect_confirmed"
      /\ world[i] = "rejected" => HandleCertainty(world[i]) = "effect_rejected"
      /\ world[i] = "untouched" => HandleCertainty(world[i]) = "no_effect"
  BY DEF HandleCertainty
<1>3. HandleCertainty(world[i]) \in Final /\ "handle" \in Givers
  BY <1>1, <1>2 DEF Final, Givers
<1>4. /\ HandleReceipt(i) \in Receipts
      /\ HandleReceipt(i).certainty = HandleCertainty(world[i])
  BY <1>3, ReceiptType DEF HandleReceipt
<1> QED
  BY <1>1, <1>2, <1>3, <1>4 DEF Truthful, IsResolved, IsConsumable

LEMMA StartInv ==
    ASSUME Inv, NEW i \in Intents, Start(i)
    PROVE  Inv'
<1> DEFINE c == [at |-> "preflight", intent |-> i, result |-> NoReceipt]
<1>1. c \in Attempts
  BY RecordTypes DEF Attempts, Steps, Receipts, NoReceipt, Final, Givers
<1>2. Knows(i, "preflight", NoReceipt)
  BY DEF Knows, KnowsTask, KnowsRecord, Truthful, NoReceipt, RecordSteps, CycleSteps,
     OpenTaskSteps, DoneTaskSteps,
         UnpreparedSteps
<1> QED
  BY <1>1, <1>2, MoveInv DEF Start, Memory

LEMMA PreflightSlotInv ==
    ASSUME Inv, PreflightSlot
    PROVE  Inv'
<1> DEFINE i == ctl.intent
<1>1. ctl \in Attempts /\ i \in Intents /\ Knows(i, "preflight", ctl.result)
  BY AtKnows DEF PreflightSlot
<1>2. UNCHANGED <<setup, faults, journal, world, executions, completions>> /\ IsContextAction
  BY DEF PreflightSlot, Memory
<1>3. CASE GiveUp
  BY <1>2, <1>3, GiveUpInv
<1>4. CASE MayPreflight(i) /\ IsOpen(i) /\ Goto("ask_method")
  <2>1. Knows(i, "ask_method", ctl.result)
    BY <1>1, <1>2, <1>4, AbsentRecord DEF Inv, MayPreflight, Knows, KnowsTask, KnowsRecord,
       RecordSteps, CycleSteps, OpenTaskSteps,
       DoneTaskSteps, UnpreparedSteps
  <2> QED
    BY <1>1, <1>2, <1>4, <2>1, GotoInv DEF Steps
<1>5. CASE MayPreflight(i) /\ ~IsOpen(i) /\ Goto("authorize")
  <2>1. Knows(i, "authorize", ctl.result)
    BY <1>1, <1>2, <1>5, AbsentRecord DEF Inv, MayPreflight, Knows, KnowsTask, KnowsRecord,
       RecordSteps, CycleSteps, OpenTaskSteps,
       DoneTaskSteps, UnpreparedSteps
  <2> QED
    BY <1>1, <1>2, <1>5, <2>1, GotoInv DEF Steps
<1> QED
  BY <1>3, <1>4, <1>5 DEF PreflightSlot

LEMMA SelectFlowInv ==
    ASSUME Inv, SelectFlow
    PROVE  Inv'
<1> DEFINE i == ctl.intent
<1>1. ctl \in Attempts /\ i \in Intents /\ Knows(i, "preflight", ctl.result)
  BY AtKnows DEF SelectFlow
<1>2. UNCHANGED <<setup, faults, journal, world, executions, completions>> /\ ~IsContextAction
  BY DEF SelectFlow, Memory
<1>3. completions[i] = 0
  BY <1>1, <1>2 DEF Inv, IntentsOK, IntentOK
<1>4. CASE journal[i] # NoRecord /\ Goto("reconcile_handle")
  <2>1. Knows(i, "reconcile_handle", ctl.result)
    BY <1>1, <1>2, <1>3, <1>4, AbsentRecord DEF Inv, Knows, KnowsTask, KnowsRecord,
       RecordSteps, CycleSteps, OpenTaskSteps,
       DoneTaskSteps, UnpreparedSteps
  <2> QED
    BY <1>1, <1>2, <1>4, <2>1, GotoInv DEF Steps
<1>5. CASE journal[i] = NoRecord /\ ScopeClear(i) /\ Goto("prepare")
  <2>1. Knows(i, "prepare", ctl.result)
    BY <1>1, <1>2, <1>3, <1>5 DEF Knows, KnowsTask, KnowsRecord, RecordSteps, CycleSteps,
       OpenTaskSteps,
       DoneTaskSteps, UnpreparedSteps
  <2> QED
    BY <1>1, <1>2, <1>5, <2>1, GotoInv DEF Steps
<1>6. CASE GiveUp
  BY <1>2, <1>6, GiveUpInv
<1> QED
  BY <1>4, <1>5, <1>6 DEF SelectFlow

LEMMA AskMethodInv ==
    ASSUME Inv, AskMethod
    PROVE  Inv'
<1> DEFINE i == ctl.intent
<1>1. ctl \in Attempts /\ i \in Intents /\ Knows(i, "ask_method", ctl.result)
  BY AtKnows DEF AskMethod
<1>2. UNCHANGED <<setup, faults, journal, world, executions, completions>>
  BY DEF AskMethod, Memory
<1>3. completions[i] \in Nat
  BY <1>1 DEF Inv, TypeOK
<1>4. CASE ~(setup.reconcilable /\ completions[i] > 0) /\ Goto("authorize")
  <2>1. Knows(i, "authorize", ctl.result)
    BY <1>1, <1>3, <1>4 DEF Knows, KnowsTask, KnowsRecord, RecordSteps, CycleSteps,
       OpenTaskSteps,
       DoneTaskSteps, UnpreparedSteps
  <2> QED
    BY <1>1, <1>2, <1>4, <2>1, GotoInv DEF Steps
<1>5. CASE completions[i] > 0 /\ Goto("committed_reconcile")
  <2>1. Knows(i, "committed_reconcile", ctl.result)
    BY <1>1, <1>5 DEF Knows, KnowsTask, KnowsRecord, RecordSteps, CycleSteps, OpenTaskSteps,
       DoneTaskSteps, UnpreparedSteps
  <2> QED
    BY <1>1, <1>2, <1>5, <2>1, GotoInv DEF Steps
<1>6. CASE GiveUp
  BY <1>2, <1>6, GiveUpInv
<1> QED
  BY <1>4, <1>5, <1>6 DEF AskMethod

LEMMA CommittedReconcileInv ==
    ASSUME Inv, CommittedReconcile
    PROVE  Inv'
<1> DEFINE i == ctl.intent
           e == HandleReceipt(i)
<1>1. ctl \in Attempts /\ i \in Intents /\ Knows(i, "committed_reconcile", ctl.result)
  BY AtKnows DEF CommittedReconcile
<1>2. UNCHANGED <<setup, faults, journal, world, executions, completions>>
  BY DEF CommittedReconcile, Memory
<1>3. ASSUME NEW s \in {"consume", "committed_record"},
             world[i] \in {"applied", "rejected"}, Hold(e, s)
      PROVE  Inv'
  <2>1. e \in Receipts /\ IsResolved(e) /\ Truthful(e, world[i])
    BY <1>1, <1>3, HandleReceiptTrue DEF Inv
  <2>2. Knows(i, s, e)
    BY <1>1, <1>3, <2>1 DEF Knows, KnowsTask, KnowsRecord, RecordSteps, CycleSteps,
       OpenTaskSteps,
       DoneTaskSteps, UnpreparedSteps
  <2>3. s \in Steps \ {"idle"}
    BY DEF Steps
  <2> QED
    BY <1>1, <1>2, <1>3, <2>1, <2>2, <2>3, HoldInv
<1>4. CASE GiveUp
  BY <1>2, <1>4, GiveUpInv
<1> QED
  BY <1>3, <1>4 DEF CommittedReconcile

LEMMA AuthorizeInv ==
    ASSUME Inv, Authorize
    PROVE  Inv'
<1> DEFINE i == ctl.intent
<1>1. ctl \in Attempts /\ i \in Intents /\ Knows(i, "authorize", ctl.result)
  BY AtKnows DEF Authorize
<1>2. UNCHANGED <<setup, faults, journal, world, executions, completions>>
  BY DEF Authorize, Memory
<1>3. CASE ScopeClear(i) /\ Goto("prepare")
  <2>1. Knows(i, "prepare", ctl.result)
    BY <1>1, <1>3 DEF Knows, KnowsTask, KnowsRecord, RecordSteps, CycleSteps, OpenTaskSteps,
       DoneTaskSteps, UnpreparedSteps
  <2> QED
    BY <1>1, <1>2, <1>3, <2>1, GotoInv DEF Steps
<1>4. CASE GiveUp
  BY <1>2, <1>4, GiveUpInv
<1> QED
  BY <1>3, <1>4 DEF Authorize

LEMMA ReconcileEffectInv ==
    ASSUME Inv, ReconcileEffect
    PROVE  Inv'
<1> DEFINE i == ctl.intent
<1>1. ctl \in Attempts /\ i \in Intents /\ Knows(i, "reconcile_effect", ctl.result)
  BY AtKnows DEF ReconcileEffect
<1>2. UNCHANGED <<setup, faults, journal, world, executions, completions>>
  BY DEF ReconcileEffect, Memory
<1>3. ASSUME NEW c \in EffectCertainties(world[i]), world[i] # "inflight",
             Hold(Receipt(c, "effect"), "record_effect")
      PROVE  Inv'
  <2>1. world[i] \in {"applied", "rejected", "untouched"}
    BY <1>1, <1>3 DEF Inv, TypeOK, Worlds
  <2>2. /\ world[i] = "applied" => c = "effect_confirmed"
        /\ world[i] = "rejected" => c \in {"effect_rejected", "no_effect"}
        /\ world[i] = "untouched" => c = "no_effect"
    BY DEF EffectCertainties, HandleCertainty
  <2>3. c \in Final /\ "effect" \in Givers
    BY <2>1, <2>2 DEF Final, Givers
  <2>4. Receipt(c, "effect") \in Receipts /\ Receipt(c, "effect").certainty = c
    BY <2>3, ReceiptType
  <2>5. Knows(i, "record_effect", Receipt(c, "effect"))
    BY <1>1, <2>1, <2>2, <2>3, <2>4 DEF Knows, KnowsTask, KnowsRecord, Truthful, IsResolved,
       RecordSteps, CycleSteps, OpenTaskSteps,
       DoneTaskSteps, UnpreparedSteps
  <2> QED
    BY <1>1, <1>2, <1>3, <2>4, <2>5, HoldInv DEF Steps
<1>4. CASE GiveUp
  BY <1>2, <1>4, GiveUpInv
<1> QED
  BY <1>3, <1>4 DEF ReconcileEffect

LEMMA ReconcileHandleInv ==
    ASSUME Inv, ReconcileHandle
    PROVE  Inv'
<1> DEFINE i == ctl.intent
           e == HandleReceipt(i)
<1>1. ctl \in Attempts /\ i \in Intents /\ Knows(i, "reconcile_handle", ctl.result)
  BY AtKnows DEF ReconcileHandle
<1>2. UNCHANGED <<setup, faults, journal, world, executions, completions>>
  BY DEF ReconcileHandle, Memory
<1>3. ASSUME NEW s \in {"mark_not_applied", "record_handle"}, world[i] # "inflight", Hold(e, s)
      PROVE  Inv'
  <2>1. e \in Receipts /\ IsResolved(e) /\ Truthful(e, world[i])
    BY <1>1, <1>3, HandleReceiptTrue DEF Inv
  <2>2. Knows(i, s, e)
    BY <1>1, <1>3, <2>1 DEF Knows, KnowsTask, KnowsRecord, RecordSteps, CycleSteps,
       OpenTaskSteps,
       DoneTaskSteps, UnpreparedSteps
  <2>3. s \in Steps \ {"idle"}
    BY DEF Steps
  <2> QED
    BY <1>1, <1>2, <1>3, <2>1, <2>2, <2>3, HoldInv
<1>4. CASE GiveUp
  BY <1>2, <1>4, GiveUpInv
<1> QED
  BY <1>3, <1>4 DEF ReconcileHandle

-----------------------------------------------------------------------------
(***************************************************************************)
(* The steps that write the journal.                                       *)
(***************************************************************************)

\* A write that is allowed, after which the controller goes to a step at
\* which it knows what it must.
LEMMA WriteInv ==
    ASSUME Inv, ctl \in Attempts, NEW i \in Intents, i = ctl.intent, NEW r \in Records,
           RecordOK(r), r.phase # "absent", Truthful(r.effect, world[i]),
           r.phase # "consumed" \/ journal[i].phase = "consumed",
           journal' = [journal EXCEPT ![i] = r],
           NEW s \in Steps \ {"idle", "prepare"}, Goto(s),
           KnowsTask(i, s, ctl.result),
           s = "execute" => r = Prepared /\ executions[i] = 0,
           UNCHANGED <<setup, faults, world, executions, completions>>
    PROVE  Inv'
<1>1. /\ ctl' \in Attempts /\ ctl' # Idle
      /\ ctl'.at = s /\ ctl'.intent = i /\ ctl'.result = ctl.result
  BY GotoStep
<1>2. IsContextAction /\ r.phase = "consumed" => completions[i] > 0
  BY DEF Inv, IntentsOK, IntentOK
<1>3. /\ TypeOK' /\ IntentsOK' /\ journal'[i] = r
      /\ ScopeClear(i)' = ScopeClear(i)
  BY <1>1, <1>2, JournalStep DEF Inv
<1>4. KnowsTask(i, s, ctl.result)' /\ KnowsRecord(i, s)'
  BY <1>1, <1>3 DEF KnowsTask, KnowsRecord, IsContextAction
<1>5. Knows(ctl.intent, ctl.at, ctl.result)'
  BY <1>1, <1>4 DEF Knows
<1> QED
  BY <1>3, <1>5 DEF Inv, ControlOK

\* A write that ends the attempt.
LEMMA LastWriteInv ==
    ASSUME Inv, ctl.intent \in Intents, NEW r \in Records,
           RecordOK(r), r.phase # "absent", Truthful(r.effect, world[ctl.intent]),
           IsContextAction /\ r.phase = "consumed" => completions[ctl.intent] > 0,
           journal' = [journal EXCEPT ![ctl.intent] = r],
           GiveUp,
           UNCHANGED <<setup, faults, world, executions, completions>>
    PROVE  Inv'
BY GiveUpStep, JournalStep DEF Inv

LEMMA RecordReconciledInv ==
    ASSUME Inv, NEW from \in RecordSteps, NEW to \in {"consume", "complete"},
           from = "committed_record" => to = "consume",
           from = "record_effect" => to = "complete",
           from = "record_handle" => to = IF IsContextAction THEN "complete" ELSE "consume",
           RecordReconciled(from, to)
    PROVE  Inv'
<1> DEFINE i == ctl.intent
           e == ctl.result
<1>1. /\ ctl \in Attempts /\ i \in Intents /\ e \in Receipts
      /\ Knows(i, from, e)
  BY AtKnows DEF RecordReconciled, RecordSteps
<1>2. UNCHANGED <<setup, faults, world, executions, completions>>
  BY DEF RecordReconciled, Memory
<1>3. IsResolved(e) /\ Truthful(e, world[i])
  BY <1>1 DEF Knows, KnowsTask
<1>4. CASE journal' = [journal EXCEPT ![i] = Reconciled(e)] /\ Goto(to)
  <2>1. Reconciled(e) \in Records /\ RecordOK(Reconciled(e))
    BY <1>1, <1>3, RecordTypes DEF Reconciled, RecordOK
  <2>2. Reconciled(e).phase = "reconciled" /\ Reconciled(e).effect = e
    BY DEF Reconciled
  <2>3. KnowsTask(i, to, e)
    BY <1>1 DEF Knows, KnowsTask, RecordSteps, CycleSteps, OpenTaskSteps, DoneTaskSteps
  <2> QED
    BY <1>1, <1>2, <1>3, <1>4, <2>1, <2>2, <2>3, WriteInv DEF Steps
<1>5. CASE UNCHANGED journal /\ GiveUp
  BY <1>2, <1>5, GiveUpInv
<1> QED
  BY <1>4, <1>5 DEF RecordReconciled, Write

LEMMA PrepareInv ==
    ASSUME Inv, Prepare
    PROVE  Inv'
<1> DEFINE i == ctl.intent
           r == journal[i]
<1>1. /\ ctl \in Attempts /\ i \in Intents /\ r \in Records /\ RecordOK(r)
      /\ Knows(i, "prepare", ctl.result)
  BY AtKnows DEF Prepare
<1>2. UNCHANGED <<setup, faults, world, executions, completions>>
  BY DEF Prepare, Memory
<1>3. CASE r = NoRecord /\ journal' = [journal EXCEPT ![i] = Prepared] /\ Goto("execute")
  <2>1. Prepared \in Records /\ RecordOK(Prepared) /\ Prepared.phase = "prepared"
    BY DEF Prepared, Records, RecordOK, NoReceipt, Receipts, Final, Givers, OpenPhases,
       TerminalPhases
  <2>2. Truthful(Prepared.effect, world[i])
    BY DEF Prepared, NoReceipt, Truthful
  <2>3. executions[i] = 0
    BY <1>1, <1>3 DEF Inv, IntentsOK, IntentOK, NoRecord
  <2>4. KnowsTask(i, "execute", ctl.result)
    BY <1>1 DEF Knows, KnowsTask, RecordSteps, CycleSteps, OpenTaskSteps, DoneTaskSteps
  <2> QED
    BY <1>1, <1>2, <1>3, <2>1, <2>2, <2>3, <2>4, WriteInv DEF Steps
<1>4. CASE /\ r # NoRecord /\ IsContextAction /\ r.phase \in OpenPhases
           /\ journal' = [journal EXCEPT ![i] = r] /\ Goto("reconcile_handle")
  <2>1. r.phase \notin {"absent", "consumed"} /\ Truthful(r.effect, world[i])
    BY <1>1, <1>4 DEF OpenPhases, Inv, IntentsOK, IntentOK
  <2>2. KnowsTask(i, "reconcile_handle", ctl.result)
    BY <1>1 DEF Knows, KnowsTask, RecordSteps, CycleSteps, OpenTaskSteps, DoneTaskSteps
  <2> QED
    BY <1>1, <1>2, <1>4, <2>1, <2>2, WriteInv DEF Steps
<1>5. CASE UNCHANGED journal /\ GiveUp
  BY <1>2, <1>5, GiveUpInv
<1>6. ~IsContextAction => r = NoRecord
  BY <1>1 DEF Knows, KnowsRecord
<1> QED
  BY <1>3, <1>4, <1>5, <1>6 DEF Prepare, Write

LEMMA RecordResultInv ==
    ASSUME Inv, RecordResult
    PROVE  Inv'
<1> DEFINE i == ctl.intent
           r == journal[i]
           e == ctl.result
<1>1. /\ ctl \in Attempts /\ i \in Intents /\ e \in Receipts /\ r \in Records /\ RecordOK(r)
      /\ Knows(i, "record_result", e)
  BY AtKnows DEF RecordResult
<1>2. UNCHANGED <<setup, faults, world, executions, completions>>
  BY DEF RecordResult, Memory
<1>3. /\ r.phase # "absent" /\ Truthful(e, world[i])
      /\ Truthful(r.effect, world[i])
  BY <1>1 DEF Knows, KnowsTask, KnowsRecord, UnpreparedSteps, Inv, IntentsOK, IntentOK
<1>4. ASSUME NEW s \in {"complete", "reconcile_handle", "reconcile_effect", "consume",
                        "mark_not_applied"},
             IsContextAction => s \in {"complete", "reconcile_handle", "reconcile_effect"},
             ~IsContextAction => s \in {"consume", "mark_not_applied", "reconcile_handle"},
             journal' = [journal EXCEPT ![i] = ResultRecorded(r, e)],
             Goto(s)
      PROVE  Inv'
  <2>1. ResultRecorded(r, e) \in Records
    BY <1>1, RecordTypes
  <2>2. /\ RecordOK(ResultRecorded(r, e))
        /\ ResultRecorded(r, e).phase # "absent"
        /\ ResultRecorded(r, e).phase # "consumed" \/ r.phase = "consumed"
        /\ Truthful(ResultRecorded(r, e).effect, world[i])
    BY <1>1, <1>3 DEF ResultRecorded, RecordOK
  <2>3. KnowsTask(i, s, e)
    BY <1>1, <1>4 DEF Knows, KnowsTask, RecordSteps, CycleSteps, OpenTaskSteps, DoneTaskSteps
  <2> QED
    BY <1>1, <1>2, <1>4, <2>1, <2>2, <2>3, WriteInv DEF Steps
<1>5. CASE UNCHANGED journal /\ GiveUp
  BY <1>2, <1>5, GiveUpInv
<1> QED
  BY <1>4, <1>5 DEF RecordResult, Write

LEMMA MarkNotAppliedInv ==
    ASSUME Inv, MarkNotApplied
    PROVE  Inv'
<1> DEFINE i == ctl.intent
           e == ctl.result
<1>1. ctl \in Attempts /\ i \in Intents /\ e \in Receipts /\ Knows(i, "mark_not_applied", e)
  BY AtKnows DEF MarkNotApplied
<1>2. UNCHANGED <<setup, faults, world, executions, completions>> /\ GiveUp
  BY DEF MarkNotApplied, Memory
<1>3. CASE e.certainty = "no_effect" /\ journal' = [journal EXCEPT ![i] = NotApplied(e)]
  <2>1. NotApplied(e) \in Records /\ RecordOK(NotApplied(e))
    BY <1>1, <1>3, RecordTypes DEF NotApplied, RecordOK
  <2>2. NotApplied(e).phase = "not_applied" /\ NotApplied(e).effect = e
    BY DEF NotApplied
  <2>3. Truthful(e, world[i])
    BY <1>1 DEF Knows, KnowsTask
  <2> QED
    BY <1>1, <1>2, <1>3, <2>1, <2>2, <2>3, LastWriteInv
<1>4. CASE UNCHANGED journal
  BY <1>2, <1>4, GiveUpInv
<1> QED
  BY <1>3, <1>4 DEF MarkNotApplied, CanMarkNotApplied

LEMMA ConsumeInv ==
    ASSUME Inv, Consume
    PROVE  Inv'
<1> DEFINE i == ctl.intent
           r == journal[i]
<1>1. /\ ctl \in Attempts /\ i \in Intents /\ r \in Records /\ RecordOK(r)
      /\ Knows(i, "consume", ctl.result)
  BY AtKnows DEF Consume
<1>2. UNCHANGED <<setup, faults, world, executions, completions>> /\ GiveUp
  BY DEF Consume, Memory
<1>3. CASE CanConsume(r) /\ journal' = [journal EXCEPT ![i] = Consumed(r)]
  <2>1. Consumed(r) \in Records
    BY <1>1, RecordTypes
  <2>2. Consumed(r).phase = "consumed" /\ Consumed(r).effect = r.effect
    BY <1>1 DEF Consumed, Records
  <2>3. RecordOK(Consumed(r))
    BY <1>1, <1>3, <2>2 DEF CanConsume, RecordOK
  <2>4. Truthful(r.effect, world[i])
    BY <1>1 DEF Inv, IntentsOK, IntentOK
  <2>5. IsContextAction => completions[i] > 0
    BY <1>1 DEF Knows, KnowsTask, DoneTaskSteps
  <2> QED
    BY <1>1, <1>2, <1>3, <2>1, <2>2, <2>3, <2>4, <2>5, LastWriteInv
<1>4. CASE UNCHANGED journal
  BY <1>2, <1>4, GiveUpInv
<1> QED
  BY <1>3, <1>4 DEF Consume

-----------------------------------------------------------------------------
(***************************************************************************)
(* The steps that touch the world or the Method, and the faults.           *)
(***************************************************************************)

\* What may come back from an execution that left the world at w is a
\* receipt, and true.
LEMMA ActReceiptTrue ==
    ASSUME NEW w \in Worlds, NEW e \in ActReceipts(w)
    PROVE  e \in Receipts /\ Truthful(e, w)
<1> DEFINE C == {"effect_possible", "absent", "effect_confirmed", "effect_rejected", "no_effect"}
<1>1. NoReceipt \in Receipts /\ NoReceipt.certainty = "absent"
  BY RecordTypes DEF NoReceipt
<1>2. \A c \in C : Receipt(c, "act") \in Receipts /\ Receipt(c, "act").certainty = c
  BY ReceiptType DEF Final, Givers
<1>3. \/ e = NoReceipt
      \/ e = Receipt("effect_possible", "act")
      \/ w = "applied" /\ e = Receipt("effect_confirmed", "act")
      \/ w = "rejected" /\ e = Receipt("effect_rejected", "act")
      \/ w = "untouched" /\ e = Receipt("no_effect", "act")
  BY DEF ActReceipts, Worlds
<1> QED
  BY <1>1, <1>2, <1>3 DEF Truthful

LEMMA ExecuteInv ==
    ASSUME Inv, Execute
    PROVE  Inv'
<1> DEFINE i == ctl.intent
<1>1. ctl \in Attempts /\ i \in Intents /\ Knows(i, "execute", ctl.result)
  BY AtKnows DEF Execute
<1>2. UNCHANGED <<setup, faults, journal, completions>>
  BY DEF Execute, Memory
<1>3. journal[i] = Prepared /\ executions[i] = 0
  BY <1>1 DEF Knows, KnowsRecord
<1>4. PICK w \in Worlds : \E e \in ActReceipts(w) :
         /\ world' = [world EXCEPT ![i] = w]
         /\ GiveUp \/ Hold(e, "record_result")
  BY <1>1 DEF Execute, Inv, TypeOK
<1>5. world' = [world EXCEPT ![i] = w]
  BY <1>4
<1>6. PICK e \in ActReceipts(w) : GiveUp \/ Hold(e, "record_result")
  BY <1>4
<1>7. e \in Receipts /\ Truthful(e, w)
  BY ActReceiptTrue
<1>8. executions' = [executions EXCEPT ![i] = @ + 1]
  BY DEF Execute
<1>9. ctl' \in Attempts \cup {Idle}
  BY <1>1, <1>6, <1>7, HoldStep DEF Steps, GiveUp
<1>10. TypeOK'
  BY <1>1, <1>2, <1>5, <1>8, <1>9 DEF Inv, TypeOK, RecordOK
<1>11. IntentsOK'
  <2> SUFFICES ASSUME NEW j \in Intents PROVE IntentOK(j)'
    BY DEF IntentsOK
  <2>1. IntentOK(j) /\ executions \in [Intents -> Nat] /\ world \in [Intents -> Worlds]
    BY DEF Inv, IntentsOK, TypeOK
  <2>2. CASE j = i
    <3>1. executions'[j] = 1 /\ journal[j] = Prepared
      BY <1>1, <1>3, <1>8, <2>1, <2>2
    <3>2. Truthful(journal[j].effect, world'[j]) /\ journal[j].phase \notin {"absent", "consumed"}
      BY <3>1 DEF Prepared, NoReceipt, Truthful
    <3> QED
      BY <1>2, <2>1, <3>1, <3>2 DEF IntentOK, IsContextAction
  <2>3. CASE j # i
    BY <1>2, <1>5, <1>8, <2>1, <2>3 DEF IntentOK, IsContextAction
  <2> QED
    BY <2>2, <2>3
<1>12. ControlOK'
  <2>1. CASE GiveUp
    BY <2>1, GiveUpStep
  <2>2. CASE Hold(e, "record_result")
    <3>1. ctl'.at = "record_result" /\ ctl'.intent = i /\ ctl'.result = e
      BY <1>1, <1>7, <2>2, HoldStep DEF Steps
    <3>2. world'[i] = w
      BY <1>1, <1>5 DEF Inv, TypeOK
    <3>3. journal[i].phase = "prepared"
      BY <1>3 DEF Prepared
    <3>4. Knows(ctl.intent, ctl.at, ctl.result)'
      BY <1>1, <1>2, <1>7, <3>1, <3>2, <3>3
         DEF Knows, KnowsTask, KnowsRecord, RecordSteps, CycleSteps, OpenTaskSteps,
             DoneTaskSteps, IsContextAction, ScopeClear, IsOpen
    <3> QED
      BY <3>4 DEF ControlOK
  <2> QED
    BY <1>6, <2>1, <2>2
<1> QED
  BY <1>10, <1>11, <1>12 DEF Inv

LEMMA CompleteInv ==
    ASSUME Inv, Complete
    PROVE  Inv'
<1> DEFINE i == ctl.intent
<1>1. /\ ctl \in Attempts /\ ctl.intent \in Intents
      /\ Knows(i, "complete", ctl.result)
  BY AtKnows DEF Complete
<1>2. UNCHANGED <<setup, faults, journal, world, executions>> /\ Goto("consume")
  BY DEF Complete, Memory
<1>3. /\ ctl' \in Attempts /\ ctl'.at = "consume" /\ ctl'.intent = i
      /\ ctl'.result = ctl.result
  BY <1>1, <1>2, GotoStep DEF Steps
<1>4. /\ completions' \in [Intents -> 0..2]
      /\ completions'[i] > 0
      /\ completions[i] = 0 => completions'[i] = 1
      /\ \A j \in Intents \ {i} : completions'[j] = completions[j]
  BY <1>1 DEF Complete, Inv, TypeOK
<1>5. TypeOK'
  BY <1>2, <1>3, <1>4 DEF Inv, TypeOK, RecordOK
<1>6. IntentsOK'
  <2> SUFFICES ASSUME NEW j \in Intents PROVE IntentOK(j)'
    BY DEF IntentsOK
  <2>1. IntentOK(j)
    BY DEF Inv, IntentsOK
  <2>2. CASE j = i
    <3>1. IsContextAction /\ journal[j].phase # "absent"
      BY <1>1, <2>2 DEF Knows, KnowsTask, KnowsRecord, CycleSteps, UnpreparedSteps
    <3>2. setup.reconcilable => completions'[j] = 1
      BY <1>1, <1>4, <2>2 DEF Knows, KnowsTask, OpenTaskSteps
    <3>3. completions'[j] > 0
      BY <1>4, <2>2
    <3> QED
      BY <1>2, <2>1, <3>1, <3>2, <3>3 DEF IntentOK, IsContextAction
  <2>3. CASE j # i
    BY <1>2, <1>4, <2>1, <2>3 DEF IntentOK, IsContextAction
  <2> QED
    BY <2>2, <2>3
<1>7. ControlOK'
  BY <1>1, <1>2, <1>3, <1>4
     DEF ControlOK, Knows, KnowsTask, KnowsRecord, RecordSteps, CycleSteps, OpenTaskSteps,
         DoneTaskSteps, UnpreparedSteps, IsContextAction, ScopeClear, IsOpen
<1> QED
  BY <1>5, <1>6, <1>7 DEF Inv

\* Nothing that is proved of an effect under way could become untrue.
LEMMA SettleInv ==
    ASSUME Inv, NEW i \in Intents, Settle(i)
    PROVE  Inv'
<1>1. PICK w \in Worlds : world' = [world EXCEPT ![i] = w]
  BY DEF Settle
<1>2. /\ world[i] = "inflight"
      /\ UNCHANGED <<setup, faults, journal, executions, completions, ctl>>
  BY DEF Settle
<1>3. TypeOK'
  BY <1>1, <1>2 DEF Inv, TypeOK, RecordOK
<1>4. \A j \in Intents : \A e : Truthful(e, world[j]) => Truthful(e, world'[j])
  BY <1>1, <1>2 DEF Truthful, Inv, TypeOK
<1>5. IntentsOK'
  BY <1>2, <1>4 DEF Inv, IntentsOK, IntentOK, IsContextAction
<1>6. ControlOK'
  <2> SUFFICES ASSUME ctl # Idle PROVE Knows(ctl.intent, ctl.at, ctl.result)'
    BY <1>2 DEF ControlOK
  <2>1. Knows(ctl.intent, ctl.at, ctl.result) /\ ctl.intent \in Intents
    BY DEF Inv, ControlOK, TypeOK, Attempts
  <2>2. Truthful(ctl.result, world[ctl.intent])'
    BY <1>2, <1>4, <2>1 DEF Knows, KnowsTask
  <2> QED
    BY <1>2, <2>1, <2>2
       DEF Knows, KnowsTask, KnowsRecord, IsContextAction, ScopeClear, IsOpen
<1> QED
  BY <1>3, <1>5, <1>6 DEF Inv

LEMMA FaultInv ==
    ASSUME Inv, Fault
    PROVE  Inv'
<1>1. UNCHANGED <<setup, journal, world, executions, completions>> /\ ctl' = Idle
  BY DEF Fault, GiveUp
<1>2. faults' \in 0..MaxFaults
  BY MaxFaultsAssumption DEF Fault, Inv, TypeOK
<1>3. TypeOK' /\ IntentsOK'
  BY <1>1, <1>2 DEF Inv, TypeOK, RecordOK, IntentsOK, IntentOK, IsContextAction
<1> QED
  BY <1>1, <1>3 DEF Inv, ControlOK

-----------------------------------------------------------------------------
(***************************************************************************)
(* The theorems.                                                           *)
(***************************************************************************)

\* Before the first cycle nothing is recorded, executed or completed.
LEMMA InitInv == Init => Inv
<1> SUFFICES ASSUME Init PROVE Inv
  OBVIOUS
<1>1. NoRecord \in Records /\ NoReceipt \in Receipts
  BY DEF NoRecord, NoReceipt, Records, Receipts, Givers, Final
<1>2. TypeOK
  BY <1>1, MaxFaultsAssumption DEF Init, TypeOK, RecordOK, NoRecord, Worlds
<1>3. IntentsOK
  BY DEF Init, IntentsOK, IntentOK, NoRecord, NoReceipt, Truthful
<1>4. ControlOK
  BY DEF Init, ControlOK
<1> QED
  BY <1>2, <1>3, <1>4 DEF Inv

\* Every step of the controller keeps the invariant.
LEMMA StepInv ==
    ASSUME Inv, Step
    PROVE  Inv'
<1>1. CASE RecordReconciled("committed_record", "consume")
  BY <1>1, RecordReconciledInv DEF RecordSteps
<1>2. CASE RecordReconciled("record_effect", "complete")
  BY <1>2, RecordReconciledInv DEF RecordSteps
<1>3. CASE RecordReconciled("record_handle", IF IsContextAction THEN "complete" ELSE "consume")
  BY <1>3, RecordReconciledInv DEF RecordSteps
<1> QED
  BY <1>1, <1>2, <1>3, PreflightSlotInv, SelectFlowInv, AskMethodInv, CommittedReconcileInv,
     AuthorizeInv, PrepareInv, ExecuteInv, RecordResultInv, ReconcileEffectInv,
     ReconcileHandleInv, MarkNotAppliedInv, CompleteInv, ConsumeInv
     DEF Step

LEMMA NextInv == Inv /\ [Next]_vars => Inv'
<1> SUFFICES ASSUME Inv, [Next]_vars PROVE Inv'
  OBVIOUS
<1>1. CASE Step
  BY <1>1, StepInv
<1>2. CASE \E i \in Intents : Settle(i) \/ Start(i)
  BY <1>2, SettleInv, StartInv
<1>3. CASE Fault
  BY <1>3, FaultInv
<1>4. CASE UNCHANGED vars
  <2>1. TypeOK' /\ IntentsOK'
    BY <1>4 DEF vars, Inv, TypeOK, RecordOK, IntentsOK, IntentOK, IsContextAction
  <2>2. ControlOK'
    BY <1>4 DEF vars, Inv, ControlOK, Knows, KnowsTask, KnowsRecord, IsContextAction,
                ScopeClear, IsOpen
  <2> QED
    BY <2>1, <2>2 DEF Inv
<1> QED
  BY <1>1, <1>2, <1>3, <1>4 DEF Next

\* What the controller knows at its step, and what is true of every intent,
\* is true in every reachable state.
THEOREM Invariance == Spec => []Inv
<1>1. Init => Inv
  BY InitInv
<1>2. Inv /\ [Next]_vars => Inv'
  BY NextInv
<1> QED
  BY <1>1, <1>2, PTL DEF Spec

\* The journal's records are well formed: a consumed one holds a receipt that
\* may be consumed, one that was not applied a proof of it.
THEOREM TypeCorrect == Spec => []TypeOK
BY Invariance, PTL DEF Inv

\* No crash, no lost answer and no retry makes the provider execute an effect
\* twice.
THEOREM AtMostOneExecution == Spec => []ExecutedAtMostOnce
<1>1. Inv => ExecutedAtMostOnce
  BY DEF Inv, IntentsOK, IntentOK, ExecutedAtMostOnce
<1> QED
  BY <1>1, Invariance, PTL

\* A Method that knows what it has completed completes no task twice.
THEOREM AtMostOneCompletion == Spec => []CompletedAtMostOnce
<1>1. Inv => CompletedAtMostOnce
  BY DEF Inv, IntentsOK, IntentOK, CompletedAtMostOnce
<1> QED
  BY <1>1, Invariance, PTL

\* The journal's last word on an effect is what happened in the world, and an
\* action it calls consumed belongs to a completed task.
THEOREM TrueVerdicts == Spec => []VerdictsAreTrue
<1>1. Inv => VerdictsAreTrue
  <2> SUFFICES ASSUME Inv, NEW i \in Intents
               PROVE  /\ journal[i].phase = "not_applied" => world[i] \notin {"applied", "inflight"}
                      /\ journal[i].phase = "consumed" =>
                            /\ world[i] \in {"applied", "rejected"}
                            /\ IsContextAction => completions[i] > 0
    BY DEF VerdictsAreTrue
  <2>1. RecordOK(journal[i]) /\ IntentOK(i)
    BY DEF Inv, TypeOK, IntentsOK
  <2> QED
    BY <2>1 DEF RecordOK, IntentOK, Truthful, IsConsumable, IsResolved, Final
<1> QED
  BY <1>1, Invariance, PTL

\* An execution and a completion happen only when every other effect of the
\* run is closed or was never begun.
THEOREM WorkOnResolvedWorld == Spec => NoWorkOnUnresolvedWorld
<1> DEFINE Quiet(i) == \A j \in Intents \ {i} : ~IsOpen(j)
           Work(i) == executions'[i] # executions[i] \/ completions'[i] # completions[i]
<1>1. ASSUME Inv, [Next]_vars, NEW i \in Intents, Work(i)
      PROVE  Quiet(i)
  <2>1. CASE Execute
    <3>1. Knows(ctl.intent, "execute", ctl.result) /\ ctl.intent \in Intents
      BY <1>1, <2>1, AtKnows DEF Execute
    <3>2. i = ctl.intent
      BY <1>1, <2>1, <3>1 DEF Execute, Inv, TypeOK
    <3> QED
      BY <3>1, <3>2 DEF Knows, KnowsTask, ScopeClear
  <2>2. CASE Complete
    <3>1. Knows(ctl.intent, "complete", ctl.result) /\ ctl.intent \in Intents
      BY <1>1, <2>2, AtKnows DEF Complete
    <3>2. i = ctl.intent
      BY <1>1, <2>2, <3>1 DEF Complete, Inv, TypeOK
    <3> QED
      BY <3>1, <3>2 DEF Knows, KnowsTask, ScopeClear, CycleSteps
  <2>3. CASE ~Execute /\ ~Complete
    <3>1. UNCHANGED <<executions, completions>>
      BY <1>1, <2>3 DEF Next, Step, vars, Memory, PreflightSlot, SelectFlow, AskMethod,
         CommittedReconcile, RecordReconciled, Authorize, Prepare, RecordResult,
         ReconcileEffect, ReconcileHandle, MarkNotApplied, Consume, Settle, Start, Fault
    <3> QED
      BY <1>1, <3>1
  <2> QED
    BY <2>1, <2>2, <2>3
<1>2. Inv /\ [Next]_vars
        => [\A i \in Intents : Work(i) => Quiet(i)]_vars
  BY <1>1
<1> QED
  BY <1>2, Invariance, PTL DEF Spec, NoWorkOnUnresolvedWorld

-----------------------------------------------------------------------------
(***************************************************************************)
(* What is final.                                                          *)
(***************************************************************************)

\* The journal keeps a closed record as it is.
ClosedRecordsStay == [][\A i \in Intents : IsClosed(i) => journal'[i] = journal[i]]_vars

\* The Method has completed the task, and says so.
KnownDone(i) == setup.reconcilable /\ completions[i] > 0

\* Why no retry closes the record of i: a completion contradicts a proof of no
\* effect; without one the handle's receipt is another one, and the record was
\* reconciled or that receipt proves that nothing happened.
NeverCloses(i) ==
    LET e == journal[i].effect IN
    IF KnownDone(i)
      THEN e.certainty = "no_effect"
      ELSE /\ e # HandleReceipt(i)
           /\ journal[i].phase = "reconciled" \/ HandleReceipt(i).certainty = "no_effect"

\* The steps an attempt on such a record can reach, and what it holds there.
RetrySteps(i) ==
    IF KnownDone(i) THEN {"preflight", "ask_method"}
    ELSE {"preflight", "ask_method", "authorize", "prepare", "reconcile_handle",
          "mark_not_applied", "record_handle"}

RetryOK(i) ==
    ctl # Idle /\ ctl.intent = i =>
       /\ ctl.at \in RetrySteps(i)
       /\ ctl.at = "prepare" => IsContextAction
       /\ ctl.at \in {"mark_not_applied", "record_handle"} => ctl.result = HandleReceipt(i)
       /\ ctl.at = "record_handle" => ctl.result.certainty # "no_effect"

Stuck(i) ==
    /\ IsOpen(i) /\ world[i] # "inflight" /\ IsResolved(journal[i].effect)
    /\ NeverCloses(i) /\ RetryOK(i)

LEMMA StuckKept ==
    ASSUME NEW i \in Intents, Stuck(i), setup' = setup, journal'[i] = journal[i],
           world'[i] = world[i], completions'[i] = completions[i], RetryOK(i)'
    PROVE  Stuck(i)'
<1>1. KnownDone(i)' = KnownDone(i) /\ HandleReceipt(i)' = HandleReceipt(i)
  BY DEF KnownDone, HandleReceipt, Receipt
<1> QED
  BY <1>1 DEF Stuck, NeverCloses, IsOpen

\* An attempt on another intent leaves the record alone, ...
LEMMA OthersUntouched ==
    ASSUME Inv, NEW i \in Intents, ctl # Idle, ctl.intent # i, Step
    PROVE  /\ ctl' = Idle \/ ctl'.intent # i
           /\ setup' = setup /\ journal'[i] = journal[i] /\ world'[i] = world[i]
           /\ completions'[i] = completions[i]
<1>1. ctl \in Attempts
  BY DEF Inv, TypeOK
<1>2. ctl' = Idle \/ (ctl' # Idle /\ ctl'.intent = ctl.intent)
  BY <1>1 DEF Step, PreflightSlot, SelectFlow, AskMethod, CommittedReconcile, RecordReconciled,
     Authorize, Prepare, Execute, RecordResult, ReconcileEffect, ReconcileHandle, MarkNotApplied,
     Complete, Consume, Write, Goto, Hold, GiveUp, Attempts, Idle
<1>3. /\ setup' = setup /\ journal'[i] = journal[i] /\ world'[i] = world[i]
      /\ completions'[i] = completions[i]
  BY DEF Step, PreflightSlot, SelectFlow, AskMethod, CommittedReconcile, RecordReconciled,
     Authorize, Prepare, Execute, RecordResult, ReconcileEffect, ReconcileHandle, MarkNotApplied,
     Complete, Consume, Write, Memory, Inv, TypeOK
<1> QED
  BY <1>2, <1>3

LEMMA OtherAttempt ==
    ASSUME Inv, NEW i \in Intents, Stuck(i), ctl # Idle, ctl.intent # i, Step
    PROVE  Stuck(i)'
<1>1. RetryOK(i)'
  BY OthersUntouched DEF RetryOK
<1> QED
  BY <1>1, OthersUntouched, StuckKept

\* ... an attempt on the intent itself reaches no step that would close it, ...
LEMMA OwnAttempt ==
    ASSUME Inv, NEW i \in Intents, Stuck(i), ctl # Idle, ctl.intent = i, Step
    PROVE  Stuck(i)'
<1> DEFINE Same == /\ setup' = setup /\ journal'[i] = journal[i] /\ world'[i] = world[i]
                   /\ completions'[i] = completions[i]
<1>1. ctl \in Attempts /\ RetryOK(i) /\ ctl.at \in RetrySteps(i)
  BY DEF Inv, TypeOK, Stuck, RetryOK
<1>2. IntentOK(i) /\ IsOpen(i) /\ world[i] # "inflight" /\ IsResolved(journal[i].effect) /\ NeverCloses(i)
  BY DEF Inv, IntentsOK, Stuck
<1>3. ASSUME GiveUp, Same PROVE Stuck(i)'
  BY <1>3, StuckKept DEF GiveUp, RetryOK
<1>4. ASSUME NEW s \in RetrySteps(i), Goto(s), Same,
             s = "prepare" => IsContextAction, s \notin {"mark_not_applied", "record_handle"}
      PROVE  Stuck(i)'
  <2>1. s \in Steps \ {"idle"}
    BY DEF RetrySteps, Steps
  <2>2. ctl'.at = s /\ ctl'.intent = i
    BY <1>1, <1>4, <2>1, GotoStep
  <2>3. RetrySteps(i)' = RetrySteps(i) /\ IsContextAction' = IsContextAction
    BY <1>4 DEF RetrySteps, KnownDone, IsContextAction
  <2>4. RetryOK(i)'
    BY <1>4, <2>2, <2>3 DEF RetryOK
  <2> QED
    BY <1>4, <2>4, StuckKept
<1>5. CASE PreflightSlot
  <2>1. Same /\ (GiveUp \/ Goto("ask_method"))
    BY <1>2, <1>5 DEF PreflightSlot, Memory
  <2>2. "ask_method" \in RetrySteps(i)
    BY DEF RetrySteps
  <2> QED
    BY <1>3, <1>4, <2>1, <2>2
<1>6. CASE SelectFlow
  <2>1. ~KnownDone(i)
    BY <1>2, <1>6 DEF SelectFlow, IntentOK, KnownDone
  <2>2. journal[i] # NoRecord
    BY <1>2 DEF IsOpen, NoRecord, OpenPhases
  <2>3. Same /\ Goto("reconcile_handle")
    BY <1>6, <2>2 DEF SelectFlow, Memory
  <2>4. "reconcile_handle" \in RetrySteps(i)
    BY <2>1 DEF RetrySteps
  <2> QED
    BY <1>4, <2>3, <2>4
<1>7. CASE AskMethod
  <2>1. CASE KnownDone(i)
    <3>1. journal[i].effect.certainty = "no_effect"
      BY <1>2, <2>1 DEF NeverCloses
    <3>2. GiveUp /\ Same
      BY <1>7, <2>1, <3>1 DEF AskMethod, KnownDone, Memory
    <3> QED
      BY <1>3, <3>2
  <2>2. CASE ~KnownDone(i)
    <3>1. Goto("authorize") /\ Same
      BY <1>7, <2>2 DEF AskMethod, KnownDone, Memory
    <3>2. "authorize" \in RetrySteps(i)
      BY <2>2 DEF RetrySteps
    <3> QED
      BY <1>4, <3>1, <3>2
  <2> QED
    BY <2>1, <2>2
<1>8. CASE Authorize
  <2>1. ~KnownDone(i) /\ IsContextAction
    <3>1. At("authorize")
      BY <1>8 DEF Authorize
    <3> QED
      BY <1>1, <3>1, AtKnows DEF At, RetrySteps, Knows, KnowsTask, CycleSteps
  <2>2. Same /\ (GiveUp \/ Goto("prepare"))
    BY <1>8 DEF Authorize, Memory
  <2>3. "prepare" \in RetrySteps(i)
    BY <2>1 DEF RetrySteps
  <2> QED
    BY <1>3, <1>4, <2>1, <2>2, <2>3
<1>9. CASE Prepare
  <2>1. At("prepare") /\ ~KnownDone(i) /\ IsContextAction
    BY <1>1, <1>9 DEF Prepare, At, RetrySteps, RetryOK
  <2>2. journal[i] # NoRecord /\ journal[i].phase \in OpenPhases
    BY <1>2 DEF IsOpen, NoRecord, OpenPhases
  <2>3. Same /\ Goto("reconcile_handle")
    BY <1>9, <2>1, <2>2 DEF Prepare, Write, Memory, Inv, TypeOK
  <2>4. "reconcile_handle" \in RetrySteps(i)
    BY <2>1 DEF RetrySteps
  <2> QED
    BY <1>4, <2>3, <2>4
<1>10. CASE ReconcileHandle
  <2> DEFINE s == IF HandleReceipt(i).certainty = "no_effect" THEN "mark_not_applied" ELSE "record_handle"
  <2>1. ~KnownDone(i)
    BY <1>1, <1>10 DEF ReconcileHandle, At, RetrySteps
  <2>2. ~IsClosed(i)
    BY <1>2 DEF IsOpen, IsClosed, OpenPhases, TerminalPhases
  <2>3. Same /\ Hold(HandleReceipt(i), s)
    BY <1>2, <1>10, <2>2 DEF ReconcileHandle, Memory
  <2>4. ctl'.at = s /\ ctl'.intent = i /\ ctl'.result = HandleReceipt(i)
    BY <1>1, <2>3 DEF Hold, Attempts
  <2>5. HandleReceipt(i)' = HandleReceipt(i) /\ KnownDone(i)' = KnownDone(i)
    BY <2>3 DEF HandleReceipt, Receipt, KnownDone
  <2>6. RetryOK(i)'
    BY <2>1, <2>4, <2>5 DEF RetryOK, RetrySteps
  <2> QED
    BY <2>3, <2>6, StuckKept
<1>11. CASE MarkNotApplied
  <2>1. ~KnownDone(i) /\ ctl.result = HandleReceipt(i)
    BY <1>1, <1>11 DEF MarkNotApplied, At, RetrySteps, RetryOK
  <2>2. ~CanMarkNotApplied(journal[i], ctl.result)
    BY <1>2, <2>1 DEF CanMarkNotApplied, NeverCloses, IsOpen, OpenPhases
  <2> QED
    BY <1>3, <1>11, <2>2 DEF MarkNotApplied, Memory
<1>12. CASE At("record_handle") /\ \E to \in Steps : RecordReconciled("record_handle", to)
  <2>1. ~KnownDone(i) /\ ctl.result = HandleReceipt(i) /\ ctl.result.certainty # "no_effect"
    BY <1>1, <1>12 DEF At, RetrySteps, RetryOK
  <2>2. ~CanRecordReconciled(journal[i], ctl.result)
    BY <1>2, <2>1 DEF CanRecordReconciled, NeverCloses
  <2> QED
    BY <1>3, <1>12, <2>2 DEF RecordReconciled, Write, Memory
<1>13. RecordReconciled("record_handle", IF IsContextAction THEN "complete" ELSE "consume")
          => At("record_handle") /\ \E to \in Steps : RecordReconciled("record_handle", to)
  BY DEF RecordReconciled, Steps
<1>14. /\ ~CommittedReconcile /\ ~RecordReconciled("committed_record", "consume") /\ ~Execute
       /\ ~RecordResult /\ ~ReconcileEffect /\ ~RecordReconciled("record_effect", "complete")
       /\ ~Complete /\ ~Consume
  BY <1>1 DEF RetrySteps, CommittedReconcile, RecordReconciled, Execute, RecordResult,
     ReconcileEffect, Complete, Consume, At
<1> QED
  BY <1>5, <1>6, <1>7, <1>8, <1>9, <1>10, <1>11, <1>12, <1>13, <1>14 DEF Step

LEMMA StepOfAttempt ==
    ASSUME Step
    PROVE  ctl # Idle
BY DEF Step, PreflightSlot, SelectFlow, AskMethod, CommittedReconcile, RecordReconciled,
   Authorize, Prepare, Execute, RecordResult, ReconcileEffect, ReconcileHandle,
   MarkNotApplied, Complete, Consume, At, Idle

\* ... and what happens outside attempts cannot touch it.
LEMMA StuckStep == \A i \in Intents : Inv /\ Stuck(i) /\ [Next]_vars => Stuck(i)'
<1> SUFFICES ASSUME NEW i \in Intents, Inv, Stuck(i), [Next]_vars PROVE Stuck(i)'
  OBVIOUS
<1>1. CASE Step
  BY <1>1, StepOfAttempt, OtherAttempt, OwnAttempt
<1>2. ASSUME NEW j \in Intents, Settle(j) PROVE Stuck(i)'
  <2>1. j # i
    BY <1>2 DEF Settle, Stuck
  <2>2. world'[i] = world[i]
    BY <1>2, <2>1 DEF Settle, Inv, TypeOK
  <2>3. RetryOK(i)'
    <3>1. HandleReceipt(i)' = HandleReceipt(i) /\ RetrySteps(i)' = RetrySteps(i)
      BY <1>2, <2>2 DEF Settle, HandleReceipt, Receipt, RetrySteps, KnownDone
    <3> QED
      BY <1>2, <3>1 DEF Settle, Stuck, RetryOK, IsContextAction
  <2> QED
    BY <1>2, <2>2, <2>3, StuckKept DEF Settle
<1>3. ASSUME NEW j \in Intents, Start(j) PROVE Stuck(i)'
  <2>1. ctl'.at = "preflight"
    BY <1>3 DEF Start
  <2>2. RetryOK(i)'
    BY <2>1 DEF RetryOK, RetrySteps
  <2> QED
    BY <1>3, <2>2, StuckKept DEF Start, Memory
<1>4. CASE Fault
  <2>1. RetryOK(i)'
    BY <1>4 DEF Fault, GiveUp, RetryOK
  <2> QED
    BY <1>4, <2>1, StuckKept DEF Fault
<1>5. CASE UNCHANGED vars
  <2>1. RetryOK(i)'
    BY <1>5 DEF vars, Stuck, RetryOK, RetrySteps, KnownDone, IsContextAction, HandleReceipt,
       Receipt
  <2> QED
    BY <1>5, <2>1, StuckKept DEF vars
<1> QED
  BY <1>1, <1>2, <1>3, <1>4, <1>5 DEF Next

\* An action begun without a checkpoint, open and not under way: the guard ends
\* every later attempt on it.
Abandoned(i) ==
    /\ IsUnanchored(i) /\ IsOpen(i)
    /\ ctl # Idle /\ ctl.intent = i => ctl.at = "preflight"

LEMMA AbandonedStep == \A i \in Intents : Inv /\ Abandoned(i) /\ [Next]_vars => Abandoned(i)'
<1> SUFFICES ASSUME NEW i \in Intents, Inv, Abandoned(i), [Next]_vars PROVE Abandoned(i)'
  OBVIOUS
<1>1. ASSUME setup' = setup, journal'[i] = journal[i],
             ctl' # Idle /\ ctl'.intent = i => ctl'.at = "preflight"
      PROVE  Abandoned(i)'
  BY <1>1 DEF Abandoned, IsUnanchored, IsContextAction, IsOpen
<1>2. CASE Step /\ ctl.intent # i
  BY <1>1, <1>2, StepOfAttempt, OthersUntouched
<1>3. CASE Step /\ ctl.intent = i
  <2>1. ctl.at = "preflight" /\ IsContextAction /\ IsOpen(i) /\ i \notin Anchored
    BY <1>3, StepOfAttempt DEF Abandoned, IsUnanchored
  <2>2. PreflightSlot
    BY <1>3, <2>1 DEF Step, SelectFlow, AskMethod, CommittedReconcile, RecordReconciled,
       Authorize, Prepare, Execute, RecordResult, ReconcileEffect, ReconcileHandle,
       MarkNotApplied, Complete, Consume, At
  <2>3. GiveUp /\ setup' = setup /\ journal' = journal
    BY <1>3, <2>1, <2>2 DEF PreflightSlot, MayPreflight, Memory
  <2> QED
    BY <1>1, <2>3 DEF GiveUp
<1>4. ASSUME NEW j \in Intents, Settle(j) \/ Start(j) PROVE Abandoned(i)'
  BY <1>1, <1>4 DEF Settle, Start, Memory, Abandoned
<1>5. CASE Fault \/ UNCHANGED vars
  BY <1>1, <1>5 DEF Fault, GiveUp, vars, Abandoned
<1> QED
  BY <1>2, <1>3, <1>4, <1>5 DEF Next

\* The records that OpenIntentsClose excepts are really lost: whatever is retried,
\* however often and in whichever context, they stay open and block their run.
THEOREM WedgedIntentsStayOpen ==
    ASSUME NEW i \in Intents
    PROVE  Spec => [](IsWedged(i) => []IsOpen(i))
<1>1. Inv /\ IsWedged(i) => Stuck(i) \/ Abandoned(i)
  <2> SUFFICES ASSUME Inv, IsWedged(i) PROVE Stuck(i) \/ Abandoned(i)
    OBVIOUS
  <2>1. ctl = Idle
    BY DEF IsWedged, Inv, TypeOK, Attempts, At
  <2>2. CASE IsUnanchored(i)
    BY <2>1, <2>2 DEF IsWedged, Abandoned
  <2>3. CASE IsContradicted(i)
    <3>1. NeverCloses(i)
      BY <2>3 DEF IsContradicted, NeverCloses, KnownDone
    <3>2. RetryOK(i)
      BY <2>1 DEF RetryOK
    <3> QED
      BY <2>3, <3>1, <3>2 DEF IsWedged, IsContradicted, Stuck
  <2> QED
    BY <2>2, <2>3 DEF IsWedged
<1>2. Inv /\ Stuck(i) /\ [Next]_vars => Stuck(i)'
  BY StuckStep
<1>3. Inv /\ Abandoned(i) /\ [Next]_vars => Abandoned(i)'
  BY AbandonedStep
<1>4. Stuck(i) \/ Abandoned(i) => IsOpen(i)
  BY DEF Stuck, Abandoned
<1> QED
  BY <1>1, <1>2, <1>3, <1>4, Invariance, PTL DEF Spec

\* A consumed or not applied record is never written again: what the journal has
\* said in the end, no later recovery takes back.
THEOREM ClosedRecordsAreFinal == Spec => ClosedRecordsStay
<1>1. ASSUME Inv, Next, NEW i \in Intents, IsClosed(i) PROVE journal'[i] = journal[i]
  <2>1. journal[i].phase \in TerminalPhases /\ journal[i].phase \notin OpenPhases /\ journal[i] # NoRecord
    BY <1>1 DEF IsClosed, TerminalPhases, OpenPhases, NoRecord
  <2>2. CASE UNCHANGED journal
    BY <2>2
  <2>3. CASE Prepare \/ RecordResult
    BY <1>1, <2>1, <2>3 DEF Prepare, RecordResult, Write, CanRecordResult, Inv, TypeOK,
       TerminalPhases
  <2>4. ASSUME NEW f, NEW to, RecordReconciled(f, to) PROVE journal'[i] = journal[i]
    BY <1>1, <2>1, <2>4
       DEF RecordReconciled, Write, CanRecordReconciled, Inv, TypeOK, TerminalPhases
  <2>5. CASE MarkNotApplied
    BY <1>1, <2>1, <2>5 DEF MarkNotApplied, CanMarkNotApplied, NotApplied, Inv, TypeOK,
                            OpenPhases, Records
  <2>6. CASE Consume
    BY <1>1, <2>1, <2>6 DEF Consume, CanConsume, Consumed, Inv, TypeOK, TerminalPhases, Records
  <2> QED
    BY <1>1, <2>2, <2>3, <2>4, <2>5, <2>6
       DEF Next, Step, PreflightSlot, SelectFlow, AskMethod, CommittedReconcile, Authorize,
           Execute, ReconcileEffect, ReconcileHandle, Complete, Settle, Start, Fault
<1> DEFINE F == \A i \in Intents : IsClosed(i) => journal'[i] = journal[i]
<1>2. Inv /\ [Next]_vars => [F]_vars
  BY <1>1
<1> QED
  BY <1>2, Invariance, PTL DEF Spec, ClosedRecordsStay
=============================================================================
