\* Two passes work two tasks; one of them may die once, anywhere.
SPECIFICATION Spec
CONSTANTS
    Worker = {w1, w2}
    Task = {t1, t2}
    Nobody = Nobody
    MaxCrashes = 1
INVARIANTS
    OneRunnerUntilEarly
PROPERTIES
    ResultIsFinal
    EveryTaskFinishes
    ClaimsAreSwept
