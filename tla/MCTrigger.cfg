SPECIFICATION FairSpec
CONSTANTS
    Paths = {p1}
    Metas = {m1}
    NoMeta = NoMeta
    NoEntry = NoEntry
    JJ_EVENT_INDEX_MAX_ENTRIES = 1
    Loops = {g1}
    JjTrigger = TRUE
    Modes = {TRUE, FALSE}
    Capacity = 2
    MaxTick = 6
CHECK_DEADLOCK FALSE
INVARIANTS  FreshFires
PROPERTIES  RootFreed
