------------------------- MODULE MCEffectRecovery -------------------------
(* Instances of EffectRecovery for TLC.                                    *)
EXTENDS EffectRecovery

CONSTANTS i1, i2

TwoIntents == {i1, i2}

(* One intent that may be recovered and one begun without a checkpoint.    *)
OnlyFirst  == {i1}
============================================================================
