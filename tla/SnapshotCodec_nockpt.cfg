CONSTANTS
    KeyframeInterval = 3
    GenHistory = 3
    DecHistory = 7
    CheckpointInterval = 3
    Checkpointing = FALSE
    MaxTick = 7
    RecHistory = 9
    MaxLead = 2
SPECIFICATION SysSpec
CHECK_DEADLOCK FALSE
INVARIANT SysTypeOK
INVARIANT FreshKeyframeDecodes
\* The codec round trip, checked once the system has sent a frame.
INVARIANT DeltaRoundTrip
INVARIANT RollbackMatchesDrift
