SPECIFICATION SetupSpec
CONSTANTS
    Cli = cli
    Daemon = daemon
    Hosts <- MCHosts
    Tvs <- MCTvs
    Answers <- MCAnswers
    Old = 2
    MaxKeys = 2
    NoFile = NoFile
    Empty = Empty
    Mixed = Mixed
INVARIANTS TypeOK SettingsKept PairedKeyKept
PROPERTIES TvAsChosen ServiceSettles
