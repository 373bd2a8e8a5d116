-------------------------- MODULE PrometheusExporter --------------------------
(***************************************************************************)
(* metrics::PrometheusExporter (src/netcode-core/metrics/prometheus.cpp):  *)
(* the gauges, counters and histograms the netcode server writes from its  *)
(* tick thread and the HTTP thread reads for every scrape.  Every setter   *)
(* is one atomic store or add, or one critical section under mutex_, so    *)
(* each is modelled as a function of the exporter's state; get_metrics is  *)
(* the record of the values a scrape prints.                               *)
(*                                                                         *)
(* Abstractions.  A histogram value is a small natural standing for a      *)
(* duration; the nine bucket bounds 0.001 .. 10.0 are the set              *)
(* BucketBounds of such values.  percentile's argument p is an integer     *)
(* percent: the code only passes 0.50, 0.90 and 0.99, and for those the    *)
(* double product p * (n - 1) truncates to (100p * (n - 1)) \div 100 for   *)
(* every n below 2^40 (0.99 is stored below 0.99, but by less than half an *)
(* ulp of any product with an integer).  The HTTP accept loop, the         *)
(* response text and the resimulation metrics, which nothing in the        *)
(* repository writes, are left out.                                        *)
(***************************************************************************)
EXTENDS Naturals, Sequences, FiniteSets, TLC

CONSTANTS
    BucketBounds,   \* the histogram's bucket upper bounds
    HistValues,     \* bound: the values a histogram is checked with
    MaxObserved     \* bound: observe calls per checked histogram

ASSUME BucketBounds \subseteq Nat /\ HistValues \subseteq Nat /\ MaxObserved \in Nat

\* The percentiles get_metrics prints: 0.50, 0.90, 0.99.
Quantiles == <<50, 90, 99>>

\* A Histogram: its values vector and its std::map of bucket counts, which
\* only holds a bound once a value has been counted in it.
EmptyHistogram == [values |-> << >>, buckets |-> [b \in {} |-> 0]]

\* Histogram::observe: push the value, then count it in every bucket whose
\* bound it does not exceed (buckets are cumulative, as "le" buckets are).
observe(h, v) ==
    LET counted == DOMAIN h.buckets \cup {b \in BucketBounds : v <= b}
    IN [values  |-> Append(h.values, v),
        buckets |-> [b \in counted |->
                        (IF b \in DOMAIN h.buckets THEN h.buckets[b] ELSE 0)
                        + (IF v <= b THEN 1 ELSE 0)]]

\* Mutant of percentile: the copy is indexed without std::sort.
percentile_NoSort(h, p) ==
    IF h.values = << >> THEN 0
    ELSE h.values[(p * (Len(h.values) - 1)) \div 100 + 1]

\* Histogram::percentile: 0 when empty; otherwise sort a copy of the values
\* and return the one at index (size_t)(p * (size - 1)).
percentile(h, p) ==
    IF h.values = << >> THEN 0
    ELSE LET sorted == SortSeq(h.values, <)
         IN sorted[(p * (Len(sorted) - 1)) \div 100 + 1]

\* The exporter's state after construction: every gauge and counter 0, the
\* dropped_packets_ map empty, the tick histogram empty.
ExporterInit ==
    [players |-> 0, rooms |-> 0, dropped |-> [r \in {} |-> 0],
     retransmit |-> 0, tickHist |-> EmptyHistogram]

\* set_players_active / set_rooms_active: atomic stores.
set_players_active(e, n) == [e EXCEPT !.players = n]
set_rooms_active(e, n) == [e EXCEPT !.rooms = n]

\* inc_dropped_packets: under mutex_, dropped_packets_[reason] += count
\* (operator[] inserts the reason at 0 first).
inc_dropped_packets(e, reason, count) ==
    [e EXCEPT !.dropped =
        [r \in DOMAIN @ \cup {reason} |->
            (IF r \in DOMAIN @ THEN @[r] ELSE 0) + (IF r = reason THEN count ELSE 0)]]

\* inc_retransmit_total: retransmit_total_.fetch_add(count).
inc_retransmit_total(e, count) == [e EXCEPT !.retransmit = @ + count]

\* observe_tick_duration: under mutex_, tick_duration_hist_.observe.
observe_tick_duration(e, v) == [e EXCEPT !.tickHist = observe(@, v)]

\* get_metrics: the values one scrape prints; the three quantile lines
\* only when the tick histogram holds a value.
get_metrics(e) ==
    [players |-> e.players, rooms |-> e.rooms, dropped |-> e.dropped,
     retransmit |-> e.retransmit,
     quantiles |-> IF e.tickHist.values = << >> THEN << >>
                   ELSE [i \in 1..3 |-> percentile(e.tickHist, Quantiles[i])]]

-----------------------------------------------------------------------------

\* The value of rank k (0-based) among the values of vals: at most k values
\* are below it and more than k are not above it.
RankValue(vals, k) ==
    CHOOSE v \in {vals[i] : i \in 1..Len(vals)} :
        /\ Cardinality({i \in 1..Len(vals) : vals[i] < v}) <= k
        /\ k < Cardinality({i \in 1..Len(vals) : vals[i] <= v})

\* The histogram the observe calls of vals, in order, build.
RECURSIVE ObserveAll(_, _)
ObserveAll(h, vals) ==
    IF vals = << >> THEN h ELSE ObserveAll(observe(h, Head(vals)), Tail(vals))

\* Histogram::observe and Histogram::percentile, for every sequence of up to
\* MaxObserved observations: each quantile get_metrics prints is the value
\* of rank (size_t)(p * (n - 1)) of the observations (so the printed 0.5,
\* 0.9 and 0.99 lines are ordered), an empty histogram reports 0, and every
\* bucket the map holds counts exactly the observations at or below its
\* bound, the map holding just the bounds some observation reached.
HistogramAgrees ==
    \A vals \in UNION {[1..n -> HistValues] : n \in 0..MaxObserved} :
        LET h == ObserveAll(EmptyHistogram, vals)
            n == Len(vals)
            below(b) == {i \in 1..n : vals[i] <= b}
        IN /\ \A i \in 1..3 :
                 percentile(h, Quantiles[i]) =
                     IF n = 0 THEN 0 ELSE RankValue(vals, (Quantiles[i] * (n - 1)) \div 100)
           /\ DOMAIN h.buckets = {b \in BucketBounds : below(b) # {}}
           /\ \A b \in DOMAIN h.buckets : h.buckets[b] = Cardinality(below(b))

====
