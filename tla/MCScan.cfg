SPECIFICATION ScanSpec
CONSTANTS
    Names = {"src", "git", "hg", "out"}
    Dirs = {"out"}
    Vcs = {"git", "hg"}
    MaxDepth = 4
    MaxFiles = 5
INVARIANTS EventsMatchWalk
