SPECIFICATION CompanionSpec
CONSTANTS
    poller = poller
    logind = logind
    r1 = r1
    r2 = r2
    Poller = poller
    Logind = logind
    Slots = {poller, logind}
    Recs = {r1, r2}
    Nobody = Nobody
    MaxTries = 2
    HasMac = TRUE
    StartPanels = {"lit"}
INVARIANTS RestsLit RestsDark SleepsDark
PROPERTIES PanelFollows LastEventRules
