---------------------------- MODULE ServerMetrics ----------------------------
(***************************************************************************)
(* The netcode server's metrics feed (C5, "records metrics"): the tick     *)
(* lambda's record_tick_metrics pushes each tick's duration and, once a    *)
(* second has passed since the last update, update_prometheus_metrics      *)
(* copies recent tick durations, the transport's counters and the player   *)
(* count into the PrometheusExporter                                       *)
(* (src/netcode-core/apps/pong_udp/pong_udp_server.cpp).  Both run on the  *)
(* tick thread, one call after the other, so the feed is a function of the *)
(* GameLoop schedule and of what sample_counters returns at each update:   *)
(* it is modelled as an operator over those, like GameLoop itself.         *)
(*                                                                         *)
(* Time is GameLoop's clock unit; Second is one second in those units and  *)
(* SampleWindow the literal 60 of update_prometheus_metrics, which is the  *)
(* server's target rate (loop_(60.0)).  A tick duration is GameLoop's dt.  *)
(* The ms-to-seconds conversion of a duration is a scaling both ways and   *)
(* is left out, as are the constant gauges (tick rate 60, RTT 0).          *)
(***************************************************************************)
EXTENDS PrometheusExporter, GameLoop

CONSTANTS
    Second,         \* one second in clock units
    SampleWindow,   \* the number of recent tick durations each update copies (60)
    Reasons,        \* the dropped_packets_total reasons: duplicates, old, window
    MaxCount        \* bound: the largest transport counter value sampled

ASSUME Second \in Nat \ {0} /\ SampleWindow \in Nat \ {0} /\ MaxCount \in Nat

\* The transport's Counters sample: the three drop totals by reason and
\* reliable_retries_total.
Counters == [dropped : [Reasons -> 0..MaxCount], retries : 0..MaxCount]
NoCounters == [dropped |-> [r \in Reasons |-> 0], retries |-> 0]

\* What the tick thread holds: tick_durations_ms_, last_metrics_update_ and
\* the exporter.  Ghosts: observed counts how often each recorded duration
\* was handed to observe_tick_duration, upTo is the number of durations
\* recorded at the last update and sampled the counters it read.
MetricsStart(t0) ==
    [recorded |-> << >>, lastUpdate |-> t0, exporter |-> ExporterInit,
     observed |-> << >>, upTo |-> 0, sampled |-> NoCounters]

\* update_prometheus_metrics: observe the last min(size, 60) recorded
\* durations in order, then add each sampled transport total to its
\* exporter counter, then publish the player count (left and right keys
\* held) and rooms_active = 1 when there is a player.
update_prometheus_metrics(m, counters, players) ==
    LET n      == Len(m.recorded)
        first  == n - (IF n < SampleWindow THEN n ELSE SampleWindow) + 1
        copied == SubSeq(m.recorded, first, n)
        e1 == [m.exporter EXCEPT !.tickHist = ObserveAll(@, copied)]
        e2 == LET RECURSIVE AddAll(_, _)
                  AddAll(e, rs) ==
                      IF rs = {} THEN e
                      ELSE LET r == CHOOSE x \in rs : TRUE
                           IN AddAll(inc_dropped_packets(e, r, counters.dropped[r]), rs \ {r})
              IN AddAll(e1, Reasons)
        e3 == inc_retransmit_total(e2, counters.retries)
    IN [m EXCEPT !.exporter = set_rooms_active(set_players_active(e3, players),
                                               IF players > 0 THEN 1 ELSE 0),
                 !.observed = [i \in 1..n |-> @[i] + (IF i >= first THEN 1 ELSE 0)],
                 !.upTo = n, !.sampled = counters]

\* record_tick_metrics(dt) at clock reading now, with metrics enabled (the
\* exporter exists only then; otherwise the call returns at once): push
\* the duration; if a whole second (duration_cast to seconds truncates)
\* has passed since last_metrics_update_, update the exporter and reset
\* the mark to now.
record_tick_metrics(m, dt, now, counters, players) ==
    LET r == [m EXCEPT !.recorded = Append(@, dt), !.observed = Append(@, 0)]
    IN IF (now - m.lastUpdate) \div Second >= 1
       THEN [update_prometheus_metrics(r, counters, players) EXCEPT !.lastUpdate = now]
       ELSE r

\* The tick lambda's record_tick_metrics for every handler call of a
\* GameLoop run, with the transport counters sampled at the k-th update
\* being samples[k] (the last one once they run out).
RECURSIVE FeedTicks(_, _, _, _)
FeedTicks(m, calls, samples, players) ==
    IF calls = << >> THEN m
    ELSE LET next == record_tick_metrics(m, Head(calls).dt, Head(calls).at,
                                         Head(samples), players)
             used == next.upTo # m.upTo /\ Len(samples) > 1
         IN FeedTicks(next, Tail(calls), IF used THEN Tail(samples) ELSE samples, players)

-----------------------------------------------------------------------------

\* The transport's totals as successive sample_counters calls can return
\* them: n samples, each counter never below its previous value.
CounterTraces(n) ==
    {t \in [1..n -> Counters] :
        \A i \in 1..(n - 1) : /\ t[i].retries <= t[i + 1].retries
                             /\ \A r \in Reasons : t[i].dropped[r] <= t[i + 1].dropped[r]}

\* Spec 4.5, metrics: the server records every tick's wall duration and
\* exposes it; so record_tick_metrics and update_prometheus_metrics hand
\* each duration recorded up to the last update to the exporter's
\* histogram exactly once, over every GameLoop schedule.
EveryTickObservedOnce ==
    \A r \in Monotone(Readings, 0) :
        LET m == FeedTicks(MetricsStart(0), RunLoop(LoopStart(0), r).calls,
                           <<NoCounters>>, 0)
        IN \A i \in 1..m.upTo : m.observed[i] = 1

\* Spec 4.5, metrics: the server exposes the transport's counters; so
\* after every update_prometheus_metrics, the exporter's
\* dropped_packets_total and retransmit_total equal the totals
\* sample_counters returned, however many updates ran.
ExportedCountersMatchTransport ==
    \A r \in Monotone(Readings, 0), samples \in CounterTraces(2) :
        LET m == FeedTicks(MetricsStart(0), RunLoop(LoopStart(0), r).calls, samples, 0)
        IN m.upTo > 0 =>
               /\ \A x \in Reasons : m.exporter.dropped[x] = m.sampled.dropped[x]
               /\ m.exporter.retransmit = m.sampled.retries

====
