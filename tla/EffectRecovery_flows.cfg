SPECIFICATION Spec
CONSTANTS
    i1 = i1
    i2 = i2
    Intents <- TwoIntents
    Anchored <- OnlyFirst
    MaxFaults = 2
INVARIANTS
    TypeOK
    ExecutedAtMostOnce
    CompletedAtMostOnce
    VerdictsAreTrue
PROPERTIES
    NoWorkOnUnresolvedWorld
    OpenIntentsClose
