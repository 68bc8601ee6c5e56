\* Two fibers and two native threads: safety and liveness.
SPECIFICATION FairSpec
CONSTANTS
    Fibers = {f1, f2}
    Natives = {n1, n2}
INVARIANTS
    Exclusion
    NoStrandedWaiter
PROPERTY WritersGetIn
