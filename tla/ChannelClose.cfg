\* One fiber and one native thread: what the documentation says of closing a
\* transfer channel.
SPECIFICATION ChanSpec
CONSTANTS
    Fibers = {f1}
    Natives = {n1}
    Capacity = 2
    MaxCount = 0
INVARIANT CloseDestroysQueued
CHECK_DEADLOCK FALSE
