CONSTANTS
    Machines <- EveryMachine
    MaxFaults = 1
    MaxCount = 3
    t1 = t1
    t2 = t2
    Thread <- Threads
    PageSize = {"4KB", "2MB"}
    Null = Null
    SizeEnv <- SizeEnvs
    MemType <- MemTypes
    Size = {3, 6, 20}
    Count = {2}
    Word = 64
    KB = 4
SYMMETRY Symmetric
SPECIFICATION AutoSpec
INVARIANTS
    PlacedAsDocumented
    AvailabilityHolds
    CapacityAsDocumented
    MasksLive
    VerifyAccepts
    WindowRespected
    FallsBack
PROPERTY ImplementsPolicy
CHECK_DEADLOCK FALSE
