SPECIFICATION Spec
CONSTANTS
    t1 = t1
    t2 = t2
    k1 = k1
    k2 = k2
    k3 = k3
    a1 = a1
    Null = Null
    Thread <- Threads
    Object <- Objects
    Fd = {3, 4, 5}
    Addr = {}
    NumStatic = 2
    MaxKind = 5
    Programs <- NoFaults
    MaxAlloc = 1
SYMMETRY Symmetric
CHECK_DEADLOCK FALSE
INVARIANTS
    SizePerKind
