CONSTANTS
    NumClusters = 9
    BitsPerByte = 4
    SlotsPerClu = 2
    Names = {"a", "long"}
    NameLen <- MCNameLen
    Root = root
    i1 = i1
    i2 = i2
    Inodes = {root, i1, i2}
    SystemClus = {2}
    RootClu = 3
    Disks <- MCDisks
    MaxSize = 3
    MaxOps = 3
SPECIFICATION Spec
SYMMETRY Symmetry
CHECK_DEADLOCK FALSE
INVARIANTS
    TypeOK
    NoSharedCluster
    UsedIsCount
    NamesResolve
    InodeAgrees
    LeaksAreKnown
PROPERTIES
    KeepsItsPlace
