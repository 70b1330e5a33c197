SPECIFICATION Spec
CONSTANTS
    t1 = t1
    t2 = t2
    r1 = r1
    r2 = r2
    Slots = {t1, t2}
    Recs = {r1, r2}
    Nobody = Nobody
    MaxTries = 2
    HasMac = TRUE
    StartPanels = {"lit", "dark", "off"}
SYMMETRY Symmetry
CONSTRAINT NoneLost
INVARIANTS TypeOK OneRecovery NoCompetingAttempt StaysDown BeliefSound LockSound
PROPERTIES TvStaysOff RecoveryAdvances
