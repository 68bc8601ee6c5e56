\* Two waits that may be for one socket.  The system may stop: the thread ends.
SPECIFICATION FairSpec
CONSTANTS
    Waits = {w1, w2}
    Descriptors = {d1}
INVARIANTS
    OneHolder
    ArmedExactly
PROPERTIES
    EndsInTime
    ReadyIsSeen
CHECK_DEADLOCK FALSE
