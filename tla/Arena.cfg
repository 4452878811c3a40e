CONSTANTS
    s1 = s1
    s2 = s2
    r1 = r1
    r2 = r2
    o1 = o1
    o2 = o2
    e1 = e1
    e2 = e2
    Svs = {s1, s2}
    Raws = {r1, r2}
    Objs = {o1, o2}
    Transients = {e1, e2}
    MaxDepth = 2
    RegionSize = 100
    Sizes = {1, 17}
    MaxBlocks = 2
    NULL = NULL
SPECIFICATION ArenaSpec
SYMMETRY ArenaSymmetry
CHECK_DEADLOCK FALSE
INVARIANTS
    OneOwner
    ObjectsKeepArena
    TransientsAccounted
    CorruptionIsFound
