SPECIFICATION QuerySpec
CONSTANTS
    DiskPaths <- SomePaths
    Raws <- SomeRaws
    Shapes <- SomeShapes
    DirPaths <- SomeDirs
    Cookies <- SomeCookies
    Fold <- Lower
    Ext <- Extension
    Parse <- parse
    Eval <- eval
    Unset = Unset
INVARIANTS  Complete
