\* Two player connections with one hello and two inputs each, the metrics
\* client on the third, two game ticks.
CONSTANTS
    s1 = s1
    s2 = s2
    s3 = s3
    None = None
    Session <- MCSession
    MetricsSession = s3
    TickSamples = 1
    LatencySamples = 1
    MaxHellos = 1
    MaxInputs = 2
    MaxTick = 2
SPECIFICATION SysSpec
\* PongServer::stop ends the game loop and every session may close: the
\* server really stops.
CHECK_DEADLOCK FALSE
INVARIANT AckShowsDirection
