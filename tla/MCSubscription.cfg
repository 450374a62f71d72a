SPECIFICATION FairSpec
CONSTANTS
    Paths = {p1, p2}
    Metas = {m}
    NoMeta = NoMeta
    NoEntry = NoEntry
    JJ_EVENT_INDEX_MAX_ENTRIES = 2
    Subs = {s1}
    Name <- SameName
    Capacity = 1
    MaxTick = 4
CHECK_DEADLOCK FALSE
INVARIANTS TypeOK NoLostWakeup PushCovers ClientMirror NoGhost
PROPERTIES EventuallyTold DropEndsTasks
