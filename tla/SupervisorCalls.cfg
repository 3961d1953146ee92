SPECIFICATION AloneSpec
CONSTANTS
    p1 = p1
    c1 = c1
    c2 = c2
    Process = {p1}
    Caller = {c1, c2}
    MaxRestarts = 2
    Window = 1
    MaxTime = 2
    BackoffBase = 1
    BackoffMax = 3
    WordBits = 3
INVARIANTS PolicyKept FailedOnlyWhenExhausted HealthAloneIsCurrent
PROPERTIES TrackersUndisturbed BackoffGrowsWhileItFits HealthConverges
