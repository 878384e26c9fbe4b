\* Three captured frames overrun the host's queue of one and the task behind
\* it; at the client one place is shared by two senders.
CONSTANTS
    SinkCap = 1
    FrameCap = 1
    None = None
    MaxFrames = 3
    MaxRelayed = 2
SPECIFICATION FairSpec
CHECK_DEADLOCK FALSE
INVARIANT ClientKeepsOrder
PROPERTIES RefinesLossyChannel NobodyIsStuck
