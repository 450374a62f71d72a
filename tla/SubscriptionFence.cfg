SPECIFICATION Spec
CONSTANTS
    Paths = {p1}
    Metas = {m}
    NoMeta = NoMeta
    NoEntry = NoEntry
    JJ_EVENT_INDEX_MAX_ENTRIES = 2
    Subs = {s1}
    Name <- SameName
    Capacity = 1
    MaxTick = 4
CHECK_DEADLOCK FALSE
INVARIANT FenceBeforeQuery
