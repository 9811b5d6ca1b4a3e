\* Three frames, four packets, a socket that is opened twice.
CONSTANTS
    NFrames = 3
    MaxPacket = 4
    MaxOpen = 2
SPECIFICATION FairSpec
INVARIANTS TypeOK NullExplained StatsAgree
PROPERTIES IsFifo HeldIntact Served
\* After the last close nothing is left to do.
CHECK_DEADLOCK FALSE
