SPECIFICATION HooksSpec
CONSTANTS
    t1 = t1
    t2 = t2
    Null = Null
    Thread <- Threads
    Size = {1, 2}
    LastPage = 2
    MaxSize = 2
    FileLimit = 2
    Capacity = 3
    Wrap = 16
    LastFile = 1
    MaxFailures = 1
    AnonLastPage = 5
    AnonSize = {1}
    AnonAlignment = {1, 2, 4}
    HugePage = 2
    Start = 3
    AreaSize = 6
    MaxKinds = 2
    FixedSize <- Sizes
    FixedAlignment = {1, 2, 4, 16}
    FixedWrap = 64
SYMMETRY Symmetric
CHECK_DEADLOCK FALSE
INVARIANT ZeroedAsClaimed
