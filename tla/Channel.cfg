\* Two fibers and two native threads on a bounded channel: safety and liveness.
SPECIFICATION ChanFairSpec
CONSTANTS
    Fibers = {f1, f2}
    Natives = {n1, n2}
    Capacity = 2
    MaxCount = 0
INVARIANTS
    NoneStranded
    EndMeansDrained
PROPERTIES
    ValueIsOffered
    CloseReleasesAll
\* Processes may all wait for a value that nobody sends.
CHECK_DEADLOCK FALSE
