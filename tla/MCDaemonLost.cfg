SPECIFICATION Spec
CONSTANTS
    t1 = t1
    t2 = t2
    r1 = r1
    r2 = r2
    Slots = {t1, t2}
    Recs = {r1, r2}
    Nobody = Nobody
    MaxTries = 1
    HasMac = TRUE
    StartPanels = {"lit"}
INVARIANTS SuspendEndsRecovery
