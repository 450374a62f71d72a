SPECIFICATION FairSpec
CONSTANTS
    Dirs <- MCDirs
    Project <- MCProject
    Options <- MCOptions
    Files = {0, 2}
    MaxPushes = 2
    Capacity = 4
INVARIANTS StreamKept ErrorExits WaitOutput OneRunPerChange
PROPERTIES Ends
CHECK_DEADLOCK FALSE
