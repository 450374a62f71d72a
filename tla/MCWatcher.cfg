SPECIFICATION Spec
CONSTANTS
    p = p
    r = r
    d = d
    g = g
    sig = sig
    Paths = {p, r, d, g, sig}
    Metas = {m1}
    NoMeta = NoMeta
    NoEntry = NoEntry
    JJ_EVENT_INDEX_MAX_ENTRIES = 2
    Dir = {d}
    DirPath = d
    DirSignal = sig
    GitIgnore = g
    NoPath = NoPath
    Ignoring = m1
    Read = {r}
    Worlds <- SomeWorlds
    MaxQueue = 2
CHECK_DEADLOCK FALSE
INVARIANTS
    IndexMatchesDisk
    FullClientCoherent
    JjClientCoherent
