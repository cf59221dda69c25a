SPECIFICATION FairSpec
CONSTANTS
    MaxQueue = 2
    Kinds = {"ws", "sse"}
    MaxTicks = 2
    MaxBeats = 1
INVARIANTS
    QueueInv
PROPERTIES
    QueueIsDrained
CHECK_DEADLOCK FALSE
