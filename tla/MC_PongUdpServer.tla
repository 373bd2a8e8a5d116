--------------------------- MODULE MC_PongUdpServer ---------------------------
EXTENDS PongUdpServer, ServerMetrics

CONSTANTS c1, c2, c3

\* Three peers: two take the player slots, the third is a spectator.
MCClient == {c1, c2, c3}

\* The tick lambda (TickStep, TickBroadcast) is the handler GameLoop::run
\* calls; its schedule keeps catch-up bounded over every clock trace
\* (CatchUpBounded, a constant formula TLC evaluates once).
LoopCatchUpBounded == tickPc = "broadcast" => CatchUpBounded

\* The tick lambda's record_tick_metrics feeds the PrometheusExporter that
\* the HTTP thread scrapes; its histograms report true order statistics
\* and cumulative buckets for every short sequence of observations
\* (HistogramAgrees, also a constant formula).
ExporterHistogramAgrees == tickPc = "broadcast" => HistogramAgrees

=============================================================================
