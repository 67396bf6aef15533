\* Two instances, a channel that fills up, faults of both. It stops when the
\* bounded writes and faults are used up.
SPECIFICATION FairSpec
CONSTANTS
    i1 = i1
    i2 = i2
    w1 = w1
    w2 = w2
    Instances = {i1, i2}
    Writers = {w1, w2}
    Home <- Apart
    Capacity = 2
    MaxChanges = 2
    MaxFaults = 1
CHECK_DEADLOCK FALSE
INVARIANTS
    TypeOK
    ChangesAccountedFor
PROPERTIES
    Resubscribed
    Delivered
