SPECIFICATION Spec
CONSTANTS
    Threads = {t1}
    Objects = {o1, o2, o3}
    NumSlots = 1
    MaxGeneration = 2
    MaxChanges = 3
    None = None
INVARIANT NoRevival
