SPECIFICATION Spec
CONSTANTS
    Threads = {t1, t2}
    Objects = {o1, o2, o3}
    NumSlots = 2
    MaxGeneration = 4
    MaxChanges = 3
    None = None
SYMMETRY Symmetry
INVARIANTS
    NoRevival
    ReadsOwnObject
    NullMeansExpired
    EveryObjectOnce
