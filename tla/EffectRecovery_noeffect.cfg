SPECIFICATION Spec
CONSTANTS
    i1 = i1
    i2 = i2
    Intents <- TwoIntents
    Anchored <- OnlyFirst
    MaxFaults = 0
INVARIANTS
    NoEffectNeverCompletes
