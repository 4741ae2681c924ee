--------------------------- MODULE EffectRecovery ---------------------------
(***************************************************************************)
(* How a run executes external effects through the journal and recovers    *)
(* them after a crash.  One run session executes one cycle at a time, so   *)
(* there is one controller; what it holds in memory is lost at any step.   *)
(* The world (an Environment or capability provider), the Method's         *)
(* completions and the journal survive.                                    *)
(*                                                                         *)
(* Two flows share the journal: the context-action cycle, whose action is  *)
(* consumed when the Method has completed the task, and the agent turn,    *)
(* whose capability effect is consumed by the turn itself.                 *)
(***************************************************************************)
EXTENDS EffectJournal, Naturals

(* The checkpoint of the context belongs to the identity of an intent, so  *)
(* a retry from another checkpoint, or from one where there was none, is   *)
(* another intent of the same run and lifetime.                            *)
CONSTANTS Intents,    \* the effects of one run and lifetime, one per cycle or call
          Anchored,   \* the intents whose identity names a checkpoint
          MaxFaults   \* bound on crashes and on answers that are lost

ASSUME AnchoredAssumption == Anchored \subseteq Intents
ASSUME MaxFaultsAssumption == MaxFaults \in Nat

VARIABLES
    setup,         \* which workflow and providers the run is bound to
    journal,       \* the durable record of each intent
    world,         \* what really happened to each effect
    executions,    \* how often the provider was asked to execute it
    completions,   \* how often the Method was asked to complete its task
    ctl,           \* the controller: its step, its intent and what it holds
    faults         \* crashes and lost answers so far

vars == <<setup, journal, world, executions, completions, ctl, faults>>

Setups ==
    [flow : {"context_action", "agent_turn"},
     reconcilable : BOOLEAN,     \* the Method can say whether it completed a task
     sameReceipt : BOOLEAN]      \* the provider words every receipt of an effect alike

Worlds == {"untouched", "inflight", "applied", "rejected"}

Steps == {"idle", "preflight", "ask_method", "committed_reconcile", "committed_record",
          "authorize", "prepare", "execute", "record_result", "reconcile_effect",
          "record_effect", "reconcile_handle", "record_handle", "complete",
          "consume", "mark_not_applied"}

Idle == [at |-> "idle"]

Attempts == [at : Steps \ {"idle"}, intent : Intents, result : Receipts]

IsContextAction == setup.flow = "context_action"

IsOpen(i) == journal[i].phase \in OpenPhases

IsClosed(i) == journal[i].phase \in TerminalPhases

(* The digest of a receipt depends on the call that gave it, unless the    *)
(* provider fills every receipt of an effect in the same way.              *)
Receipt(certainty, by) ==
    [certainty |-> certainty, by |-> IF setup.sameReceipt THEN "provider" ELSE by]

----------------------------------------------------------------------------
(* The provider, as its callers rely on it: what it says is true.          *)

ActReceipts(w) ==
    {Receipt("effect_possible", "act"), NoReceipt} \cup
    CASE w = "applied"   -> {Receipt("effect_confirmed", "act")}
      [] w = "rejected"  -> {Receipt("effect_rejected", "act")}
      [] w = "untouched" -> {Receipt("no_effect", "act")}
      [] w = "inflight"  -> {}

HandleCertainty(w) ==
    CASE w = "applied"   -> "effect_confirmed"
      [] w = "rejected"  -> "effect_rejected"
      [] w = "untouched" -> "no_effect"

HandleReceipt(i) == Receipt(HandleCertainty(world[i]), "handle")

(* A refused action may come back as rejected or as not applied.           *)
EffectCertainties(w) ==
    IF w = "rejected" THEN {"effect_rejected", "no_effect"} ELSE {HandleCertainty(w)}

----------------------------------------------------------------------------
(* Steps of the controller.                                                *)

At(s) == ctl.at = s

Goto(s) == ctl' = [ctl EXCEPT !.at = s]

Hold(e, s) == ctl' = [ctl EXCEPT !.result = e, !.at = s]

GiveUp == ctl' = Idle

(* One write session on the controller's intent: the transition is allowed *)
(* and committed, or it raises, which ends the attempt.                    *)
Write(allowed, r, s) ==
    IF allowed
      THEN journal' = [journal EXCEPT ![ctl.intent] = r] /\ Goto(s)
      ELSE UNCHANGED journal /\ GiveUp

Memory == <<setup, faults>>

----------------------------------------------------------------------------
(* Faulty forms of the definitions below, for the mutants.                 *)

ScopeClearOfPrepared(i) == \A j \in Intents \ {i} : journal[j].phase # "prepared"

PrepareAndExecute ==
    /\ At("prepare")
    /\ ~IsClosed(ctl.intent)
    /\ LET r == journal[ctl.intent]
           created == (r = NoRecord)
       IN  Write(TRUE, IF created THEN Prepared ELSE r, "execute")
    /\ UNCHANGED <<Memory, world, executions, completions>>

AskNobody ==
    /\ At("ask_method")
    /\ Goto("authorize")
    /\ UNCHANGED <<Memory, journal, world, executions, completions>>

UnknownIsNotApplied ==
    /\ At("reconcile_handle")
    /\ Hold(IF world[ctl.intent] = "inflight"
              THEN Receipt("no_effect", "handle")
              ELSE HandleReceipt(ctl.intent),
            IF IsContextAction THEN "record_handle" ELSE "mark_not_applied")
    /\ UNCHANGED <<Memory, journal, world, executions, completions>>

----------------------------------------------------------------------------
(* require_scope_clear: no other effect of the run and lifetime is open.   *)
ScopeClear(i) == \A j \in Intents \ {i} : ~IsOpen(j)

(* A cycle or a call begins, or begins again after a crash: in the same    *)
(* context, which a run is given again by restoring its checkpoint.        *)
Start(i) ==
    /\ At("idle")
    /\ ctl' = [at |-> "preflight", intent |-> i, result |-> NoReceipt]
    /\ UNCHANGED <<Memory, journal, world, executions, completions>>

(* The slot guard of a cycle, before it observes anything: the scope must  *)
(* be clear, a closed action is not replayed, and an open one is recovered *)
(* only in a context with a checkpoint.                                    *)
MayPreflight(i) == ScopeClear(i) /\ ~IsClosed(i) /\ (IsOpen(i) => i \in Anchored)

PreflightSlot ==
    /\ At("preflight")
    /\ IsContextAction
    /\ \/ ~MayPreflight(ctl.intent) /\ GiveUp
       \/ /\ MayPreflight(ctl.intent)
          /\ Goto(IF IsOpen(ctl.intent) THEN "ask_method" ELSE "authorize")
    /\ UNCHANGED <<Memory, journal, world, executions, completions>>

(* A capability call takes the existing flow when its intent is known, open *)
(* or closed, and the new flow, in a clear scope, when it is not.          *)
SelectFlow ==
    /\ At("preflight")
    /\ ~IsContextAction
    /\ LET known == journal[ctl.intent] # NoRecord IN
       \/ known /\ Goto("reconcile_handle")
       \/ ~known /\ ScopeClear(ctl.intent) /\ Goto("prepare")
       \/ ~known /\ ~ScopeClear(ctl.intent) /\ GiveUp
    /\ UNCHANGED <<Memory, journal, world, executions, completions>>

(* An open intent: has the Method completed its task already?  A proof     *)
(* that nothing was applied contradicts that and stops the recovery.       *)
AskMethod ==
    /\ At("ask_method")
    /\ LET i == ctl.intent
           committed == setup.reconcilable /\ completions[i] > 0
       IN  \/ ~committed /\ Goto("authorize")
           \/ committed /\ journal[i].effect.certainty # "no_effect" /\ Goto("committed_reconcile")
           \/ committed /\ journal[i].effect.certainty = "no_effect" /\ GiveUp
    /\ UNCHANGED <<Memory, journal, world, executions, completions>>

(* The effect of a completed task must have been applied or rejected, and  *)
(* as the journal has it when that is resolved.                            *)
CommittedReconcile ==
    /\ At("committed_reconcile")
    /\ LET i == ctl.intent
           e == journal[i].effect
       IN  \/ /\ world[i] \in {"applied", "rejected"}
              /\ IsResolved(e) => ((e.certainty = "effect_confirmed") = (world[i] = "applied"))
              /\ Hold(HandleReceipt(i), IF IsResolved(e) THEN "consume" ELSE "committed_record")
           \/ /\ \/ world[i] \notin {"applied", "rejected"}
                 \/ IsResolved(e) /\ ((e.certainty = "effect_confirmed") # (world[i] = "applied"))
              /\ GiveUp
    /\ UNCHANGED <<Memory, journal, world, executions, completions>>

(* record_reconciled at three places: a committed cycle's recovery, an     *)
(* uncertain result reconciled by its receipt, one reconciled by handle.   *)
RecordReconciled(from, to) ==
    /\ At(from)
    /\ Write(CanRecordReconciled(journal[ctl.intent], ctl.result), Reconciled(ctl.result), to)
    /\ UNCHANGED <<Memory, world, executions, completions>>

(* The exact intent of the action is frozen: the existing one, or a new    *)
(* one with the provider's recovery handle.                                *)
Authorize ==
    /\ At("authorize")
    /\ \/ ScopeClear(ctl.intent) /\ Goto("prepare")
       \/ ~ScopeClear(ctl.intent) /\ GiveUp
    /\ UNCHANGED <<Memory, journal, world, executions, completions>>

(* journal.prepare.  The cycle executes only the intent this call created, *)
(* reconciles an open one and refuses a closed one; the new flow of a      *)
(* capability does not look at what the call found.                        *)
Prepare ==
    /\ At("prepare")
    /\ LET r == journal[ctl.intent]
           created == (r = NoRecord)
       IN  Write(created \/ r.phase \in OpenPhases \/ ~IsContextAction,
                 IF created THEN Prepared ELSE r,
                 IF created \/ ~IsContextAction THEN "execute" ELSE "reconcile_handle")
    /\ UNCHANGED <<Memory, world, executions, completions>>

(* The one call that touches the world.  It may be answered before the     *)
(* effect has landed, with a receipt that proves nothing, or with none: a  *)
(* capability must give one.                                               *)
Execute ==
    /\ At("execute")
    /\ executions' = [executions EXCEPT ![ctl.intent] = @ + 1]
    /\ \E w \in (IF world[ctl.intent] = "untouched" THEN Worlds ELSE {world[ctl.intent]}) :
          /\ world' = [world EXCEPT ![ctl.intent] = w]
          /\ \E e \in ActReceipts(w) :
                IF e = NoReceipt /\ ~IsContextAction
                  THEN GiveUp
                  ELSE Hold(e, "record_result")
    /\ UNCHANGED <<Memory, journal, completions>>

(* record_result, and the step the result calls for.                       *)
RecordResult ==
    /\ At("record_result")
    /\ LET r == journal[ctl.intent]
           e == ctl.result
       IN  Write(CanRecordResult(r, e), ResultRecorded(r, e),
                 IF IsContextAction
                   THEN CASE IsResolved(e)  -> "complete"
                          [] e = NoReceipt  -> "reconcile_handle"
                          [] OTHER          -> "reconcile_effect"
                   ELSE CASE IsConsumable(e)                -> "consume"
                          [] e.certainty = "no_effect"      -> "mark_not_applied"
                          [] OTHER                          -> "reconcile_handle")
    /\ UNCHANGED <<Memory, world, executions, completions>>

(* The uncertain receipt of an action is taken back to its provider, which *)
(* must resolve it.  What it resolves to is not looked at.                 *)
ReconcileEffect ==
    /\ At("reconcile_effect")
    /\ \/ world[ctl.intent] = "inflight" /\ GiveUp
       \/ /\ world[ctl.intent] # "inflight"
          /\ \E c \in EffectCertainties(world[ctl.intent]) :
                Hold(Receipt(c, "effect"), "record_effect")
    /\ UNCHANGED <<Memory, journal, world, executions, completions>>

(* The recovery handle is taken back to the provider.  UNKNOWN ends the    *)
(* attempt and leaves the intent open; a closed intent's result is only    *)
(* returned, when it agrees.                                               *)
ReconcileHandle ==
    /\ At("reconcile_handle")
    /\ LET i == ctl.intent
           e == HandleReceipt(i)
       IN  \/ (world[i] = "inflight" \/ IsClosed(i)) /\ GiveUp
           \/ /\ world[i] # "inflight" /\ ~IsClosed(i)
              /\ Hold(e, IF e.certainty = "no_effect" THEN "mark_not_applied"
                                                      ELSE "record_handle")
    /\ UNCHANGED <<Memory, journal, world, executions, completions>>

(* record_not_applied: the attempt ends and no task is completed.          *)
MarkNotApplied ==
    /\ At("mark_not_applied")
    /\ IF CanMarkNotApplied(journal[ctl.intent], ctl.result)
         THEN journal' = [journal EXCEPT ![ctl.intent] = NotApplied(ctl.result)]
         ELSE UNCHANGED journal
    /\ GiveUp
    /\ UNCHANGED <<Memory, world, executions, completions>>

(* Method.task_completed, idempotent by its completion key.                *)
Complete ==
    /\ At("complete")
    /\ completions' = [completions EXCEPT ![ctl.intent] = IF @ < 2 THEN @ + 1 ELSE @]
    /\ Goto("consume")
    /\ UNCHANGED <<Memory, journal, world, executions>>

(* record_consumed.                                                        *)
Consume ==
    /\ At("consume")
    /\ IF CanConsume(journal[ctl.intent])
         THEN journal' = [journal EXCEPT ![ctl.intent] = Consumed(@)]
         ELSE UNCHANGED journal
    /\ GiveUp
    /\ UNCHANGED <<Memory, world, executions, completions>>

----------------------------------------------------------------------------
(* The world and the faults.                                               *)

(* An effect that was under way lands, is refused, or was lost.            *)
Settle(i) ==
    /\ world[i] = "inflight"
    /\ \E w \in Worlds \ {"inflight"} : world' = [world EXCEPT ![i] = w]
    /\ UNCHANGED <<setup, journal, executions, completions, ctl, faults>>

(* The process dies, or the call under way raises: the controller forgets. *)
Fault ==
    /\ ~At("idle")
    /\ faults < MaxFaults
    /\ faults' = faults + 1
    /\ GiveUp
    /\ UNCHANGED <<setup, journal, world, executions, completions>>

----------------------------------------------------------------------------
Init ==
    /\ setup \in Setups
    /\ journal = [i \in Intents |-> NoRecord]
    /\ world = [i \in Intents |-> "untouched"]
    /\ executions = [i \in Intents |-> 0]
    /\ completions = [i \in Intents |-> 0]
    /\ ctl = Idle
    /\ faults = 0

Step ==
    \/ PreflightSlot
    \/ SelectFlow
    \/ AskMethod
    \/ CommittedReconcile
    \/ RecordReconciled("committed_record", "consume")
    \/ Authorize
    \/ Prepare
    \/ Execute
    \/ RecordResult
    \/ ReconcileEffect
    \/ RecordReconciled("record_effect", "complete")
    \/ ReconcileHandle
    \/ RecordReconciled("record_handle", IF IsContextAction THEN "complete" ELSE "consume")
    \/ MarkNotApplied
    \/ Complete
    \/ Consume

Next ==
    \/ Step
    \/ \E i \in Intents : Settle(i) \/ Start(i)
    \/ Fault

(* A call returns or raises, an effect under way lands or is lost, and the *)
(* effect that holds the scope is retried in its context until it is       *)
(* closed.                                                                 *)
Fairness ==
    /\ WF_vars(Step)
    /\ \A i \in Intents : WF_vars(Settle(i)) /\ SF_vars(IsOpen(i) /\ Start(i))

Spec == Init /\ [][Next]_vars /\ Fairness

----------------------------------------------------------------------------
(* Type invariant.  A phase says what the record holds: nothing before a   *)
(* result, a proof of no effect when NOT_APPLIED, a consumable receipt     *)
(* when CONSUMED.                                                          *)
RecordOK(r) ==
    /\ r.phase \in {"absent", "prepared"} => r.effect = NoReceipt
    /\ r.phase = "reconciled" => IsResolved(r.effect)
    /\ r.phase = "consumed" => IsConsumable(r.effect)
    /\ r.phase = "not_applied" => r.effect.certainty = "no_effect"

TypeOK ==
    /\ setup \in Setups
    /\ journal \in [Intents -> Records]
    /\ \A i \in Intents : RecordOK(journal[i])
    /\ world \in [Intents -> Worlds]
    /\ executions \in [Intents -> Nat]
    /\ completions \in [Intents -> 0..2]
    /\ faults \in 0..MaxFaults
    /\ ctl \in Attempts \cup {Idle}

(* However often a cycle or a call is begun again, and wherever it was cut *)
(* off, the provider is asked to execute its effect at most once.          *)
ExecutedAtMostOnce == \A i \in Intents : executions[i] <= 1

(* A Method that can say what it has completed is asked to complete a task *)
(* at most once, also when the cycle died between the completion and the   *)
(* record that consumes the action.                                        *)
CompletedAtMostOnce ==
    setup.reconcilable => \A i \in Intents : completions[i] <= 1

(* What the journal finally says is true: an effect it calls NOT_APPLIED   *)
(* neither happened nor is still on its way, one it calls CONSUMED was     *)
(* applied or rejected, and in a cycle the Method has completed its task.  *)
VerdictsAreTrue ==
    \A i \in Intents :
       /\ journal[i].phase = "not_applied" => world[i] \notin {"applied", "inflight"}
       /\ journal[i].phase = "consumed" =>
             /\ world[i] \in {"applied", "rejected"}
             /\ IsContextAction => completions[i] > 0

(* Nothing is executed and no task is completed on a world that another    *)
(* effect of the run may still have changed: whenever one of these calls   *)
(* is made, every other intent is closed or was never prepared.            *)
NoWorkOnUnresolvedWorld ==
    [][\A i \in Intents :
         executions'[i] # executions[i] \/ completions'[i] # completions[i]
            => \A j \in Intents \ {i} : ~IsOpen(j)]_vars

(* The guard lets no cycle recover an action begun without a checkpoint.   *)
IsUnanchored(i) == IsContextAction /\ i \notin Anchored

(* No retry has a receipt this record can take.  When the Method is known  *)
(* to have completed the task, that is so for a proof of no effect; until  *)
(* then, for a proof or a reconciled receipt that differs from the one the *)
(* recovery handle gives.                                                  *)
IsContradicted(i) ==
    LET e == journal[i].effect IN
    /\ world[i] # "inflight"
    /\ IsResolved(e)
    /\ IF setup.reconcilable /\ completions[i] > 0
         THEN e.certainty = "no_effect"
         ELSE /\ e # HandleReceipt(i)
              /\ journal[i].phase = "reconciled" \/ HandleReceipt(i).certainty = "no_effect"

(* The records that no retry can close, once no attempt is under way.      *)
IsWedged(i) == At("idle") /\ IsOpen(i) /\ (IsUnanchored(i) \/ IsContradicted(i))

(* An open intent holds up every other effect of its run, so it must not   *)
(* stay open: retried in its context it is closed, unless it is one that   *)
(* no retry can close, and those do stay open for ever.                    *)
OpenIntentsClose ==
    \A i \in Intents :
       /\ IsOpen(i) ~> (IsClosed(i) \/ IsWedged(i))
       /\ [](IsWedged(i) => []IsOpen(i))

(* A test of the repository: "authoritative NOT_APPLIED never becomes      *)
(* method task completed".                                                 *)
NoEffectNeverCompletes ==
    \A i \in Intents : completions[i] > 0 => journal[i].effect.certainty # "no_effect"

=============================================================================
