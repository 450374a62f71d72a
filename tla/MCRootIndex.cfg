SPECIFICATION Spec
CONSTANTS
    Paths = {p1, p2}
    Metas = {m}
    NoMeta = NoMeta
    NoEntry = NoEntry
    JJ_EVENT_INDEX_MAX_ENTRIES = 2
    Procs = {a, b}
    Cursors = {c}
    MaxTick = 5
SYMMETRY Symmetry
INVARIANTS
    TypeOK
    TreeCounters
    AnswerExact
    JjKeepsAll
    CursorNoLoss
