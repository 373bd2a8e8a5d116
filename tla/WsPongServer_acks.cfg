\* Two player connections with one hello and one input each, the metrics
\* client on the third (one input-ack and one tick interval to collect),
\* two game ticks.
CONSTANTS
    s1 = s1
    s2 = s2
    s3 = s3
    None = None
    Session <- MCSession
    MetricsSession = s3
    MaxHellos = 1
    MaxInputs = 1
    MaxTick = 2
    TickSamples = 1
    LatencySamples = 1
SPECIFICATION SysSpec
SYMMETRY MCPlayerSymmetry
\* PongServer::stop ends the game loop, every session may close and the
\* metrics client ends: the system really stops.
CHECK_DEADLOCK FALSE
INVARIANT TypeOK
INVARIANT ClientTypeOK
INVARIANT AwaitedAckNotLost
