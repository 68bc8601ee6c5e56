\* Main and two tasks.  The system may stop: the program ends.
SPECIFICATION FairSpec
CONSTANTS
    Tasks = {main, t1, t2}
    Main = main
    MaxLate = 1
INVARIANTS
    OneOwner
    GroupOutlivesMembers
    WaitsForCancelled
PROPERTIES
    DestroyReturns
CHECK_DEADLOCK FALSE
