SPECIFICATION StoreSpec
CONSTANTS
    Names = {n1, n2}
    Procs = {t}
    Nodes = {i1, i2}
    NoNode = NoNode
INVARIANTS FileIntact 
PROPERTY Atomic
