SPECIFICATION LifeFairSpec
CONSTANTS
    Clis = {c1}
    Daemons = {d1, d2}
    NoDaemon = NoDaemon
INVARIANTS LifeTypeOK FailureExplained
PROPERTIES CallEnds ShutdownAtNextAccept
