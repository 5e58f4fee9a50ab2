SPECIFICATION Spec
CONSTANTS
    t1 = t1
    t2 = t2
    t3 = t3
    r1 = r1
    r2 = r2
    r3 = r3
    r4 = r4
    Tests = {t1, t2, t3}
    Goroutines = {r1, r2, r3, r4}
    TestOf <- MCTestOf
    Original = Original
    Nobody = Nobody
    MaxIDs = 3
INVARIANTS
    IdsAreDeterministic
    OriginalRestored
PROPERTIES
    EveryTestEnds
