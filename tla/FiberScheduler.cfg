\* Three tasks on two workers, one delay or I/O call each: safety.
CONSTANTS
    Tasks = {t1, t2, t3}
    Workers = {w1, w2}
    Main = Main
    None = None
    MaxSuspensions = 1
SPECIFICATION Spec
SYMMETRY Symmetry
INVARIANTS
    NoLostWakeup
    NoSleepingOnWork
    OnePlace
    NoWorkDropped
    StaysOnItsWorker
    NoDanglingReference
    GaugesExact
PROPERTY
    ImplementsContract
