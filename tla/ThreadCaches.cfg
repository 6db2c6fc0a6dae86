SPECIFICATION Spec
CONSTANTS
    t1 = t1
    t2 = t2
    a = a
    b = b
    d = d
    a1 = a1
    a2 = a2
    b1 = b1
    d1 = d1
    Thread = {t1, t2}
    Keyed = {t1}
    StaticKind = {a, b}
    DynamicKind = {d}
    Block = {a1, a2, b1, d1}
    KindOf <- MCKindOf
    MaxCaches = 3
    MaxRounds = 2
    Null = Null
INVARIANTS OneOwner OnePlace CachesOfKind NothingLeftBehind
PROPERTY BlocksComeBack
CHECK_DEADLOCK FALSE
