--------------------------- MODULE EffectJournal ---------------------------
(***************************************************************************)
(* The effect journal: one durable record for each external effect, and    *)
(* the transitions its write sessions allow.  A session is one SQLite      *)
(* transaction (BEGIN IMMEDIATE), so each transition is one step; a        *)
(* transition that is not allowed raises a conflict and writes nothing.    *)
(*                                                                         *)
(* A receipt is its certainty and who gave it.  A receipt that still       *)
(* requires verification is "effect_possible" whatever certainty it        *)
(* carries: nothing in the journal or its callers tells the two apart.     *)
(* "by" stands for the rest of the receipt (artifacts, provider receipt),  *)
(* which only its digest sees.                                             *)
(***************************************************************************)

OpenPhases == {"prepared", "result_recorded", "reconciled"}

TerminalPhases == {"consumed", "not_applied"}

Final == {"no_effect", "effect_confirmed", "effect_rejected"}

Givers == {"nobody", "provider", "act", "effect", "handle"}

Receipts == [certainty : Final \cup {"absent", "effect_possible"}, by : Givers]

NoReceipt == [certainty |-> "absent", by |-> "nobody"]

Records == [phase : OpenPhases \cup TerminalPhases \cup {"absent"}, effect : Receipts]

NoRecord == [phase |-> "absent", effect |-> NoReceipt]

IsResolved(e) == e.certainty \in Final

IsConsumable(e) == IsResolved(e) /\ e.certainty # "no_effect"

Prepared == [phase |-> "prepared", effect |-> NoReceipt]

----------------------------------------------------------------------------
(* Faulty forms of the definitions below, for the mutants.                 *)

CanConsumeUnresolved(r) ==
    \/ r.phase = "consumed"
    \/ r.phase \in {"result_recorded", "reconciled"}

----------------------------------------------------------------------------
(* effect_transition to RESULT_RECORDED.                                   *)
CanRecordResult(r, e) ==
    \/ r.phase = "prepared"
    \/ r.phase \in {"result_recorded", "reconciled"} /\ r.effect = e

ResultRecorded(r, e) ==
    IF r.phase = "prepared" THEN [phase |-> "result_recorded", effect |-> e] ELSE r

(* effect_transition to RECONCILED: a recorded result is replaced without  *)
(* being compared, a reconciled one must be the same.                      *)
CanRecordReconciled(r, e) ==
    \/ r.phase \in {"prepared", "result_recorded"}
    \/ r.phase = "reconciled" /\ r.effect = e

Reconciled(e) == [phase |-> "reconciled", effect |-> e]

(* consumed_transition; the evidence of one cycle has one digest.          *)
CanConsume(r) ==
    \/ r.phase = "consumed"
    \/ r.phase \in {"result_recorded", "reconciled"} /\ IsConsumable(r.effect)

Consumed(r) == [r EXCEPT !.phase = "consumed"]

(* not_applied_transition.                                                 *)
CanMarkNotApplied(r, e) ==
    /\ e.certainty = "no_effect"
    /\ \/ r.phase = "not_applied" /\ r.effect = e
       \/ r.phase \in OpenPhases /\ (IsResolved(r.effect) => r.effect = e)

NotApplied(e) == [phase |-> "not_applied", effect |-> e]

============================================================================
