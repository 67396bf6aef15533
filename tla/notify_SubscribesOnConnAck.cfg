\* One instance, two writers, a channel that fills up before the connection.
SPECIFICATION FairSpec
CONSTANTS
    i1 = i1
    i2 = i2
    w1 = w1
    w2 = w2
    Instances = {i1}
    Writers = {w1, w2}
    Home <- Beside
    Capacity = 2
    MaxChanges = 3
    MaxFaults = 0
CHECK_DEADLOCK FALSE
PROPERTY SubscribesOnConnAck
