SPECIFICATION FairSpec
CONSTANTS
    Paths = {d}
    Procs = {a, b}
    Users = {a}
    Name <- SameName
    Sweepers = {g}
    REAP_LOG_CAPACITY = 1
    MaxRoots = 2
CHECK_DEADLOCK FALSE
INVARIANT TypeOK
PROPERTIES SteadyKeepsRoot UnregisteredFreed
