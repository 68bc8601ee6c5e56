\* Two fibers and two native threads on a semaphore or a Once: safety and
\* liveness.
SPECIFICATION FairSpec
CONSTANTS
    Fibers = {f1, f2}
    Natives = {n1, n2}
    Maximum = 3
    MaxInt = 3
INVARIANTS
    PermitsInRange
    NoStrandedWaiter
    ReturnsInitialized
PROPERTIES
    PermitIsOffered
    ExactlyOnce
    CallersGoOn
\* Processes may all wait for a permit that nobody releases.
CHECK_DEADLOCK FALSE
