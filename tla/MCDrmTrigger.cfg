SPECIFICATION DrmTriggerSpec
CONSTANTS
    card0 = card0
    card1 = card1
    NoPath = NoPath
    NoName = NoName
    Reported = {"On", "Standby", "Off"}
    Connectors <- MCConnectors
    Name <- MCName
    Edids <- MCEdids
INVARIANTS TypeOK
PROPERTIES ChangesTold TvWatched
