SPECIFICATION Spec
CONSTANTS
    Nodes <- SmallNodes
    Share = "share"
    Parent <- SmallParent
    Dirs <- SmallDirs
    Target = "d"
    Trimmed <- SmallTrimmed
    Split <- SmallSplit
    Paths <- SmallPaths
    TargetPath <- SmallTarget
    MinEntryLen = 2
    Batch = 2
    Sids = {1, 2}
    Fids = {1, 2}
    Interference = 1
    Calls = 1
CHECK_DEADLOCK FALSE
INVARIANTS
    ListsAll
    NothingLeftOpen
PROPERTIES
    RemovedMeansGone
    StaysInside
    ClosedBeforeTouched
