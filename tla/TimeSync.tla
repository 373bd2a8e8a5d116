------------------------------- MODULE TimeSync -------------------------------
(***************************************************************************)
(* mini::sync::TimeSync (src/game-server/netcode-core/sync/time_sync.cpp), *)
(* the client's clock offset estimator (C6).  observe folds a measured     *)
(* server - local offset into two EMAs; target returns local time plus the *)
(* smoothed offset, after moving it toward the raw one by at most          *)
(* max_slew per local tick.  The client calls both from one thread, so     *)
(* TimeSync is a function of its call sequence, modelled as an operator   *)
(* over call sequences like GameLoop.                                      *)
(*                                                                         *)
(* Arithmetic.  With the defaults alpha = 0.1 and max_slew = 0.5, every    *)
(* value the code computes from integer ticks in at most MaxCalls calls is *)
(* a multiple of 1 / (2 * 10^MaxCalls), so values are kept as integers     *)
(* scaled by Scale and every division below is exact: the model computes  *)
(* the real-number results the doubles approximate.                        *)
(***************************************************************************)
EXTENDS Integers, Sequences

CONSTANTS
    TickValues,  \* bound: the local and server ticks passed in
    MaxCalls     \* bound: calls in one checked sequence

ASSUME TickValues \subseteq Nat /\ MaxCalls \in Nat

Scale == 2 * 10^MaxCalls

\* The constructor with the defaults: has_observation_ false, both offsets
\* and last_target_local_ 0.
TimeSyncInit == [has |-> FALSE, est |-> 0, smoothed |-> 0, lastLocal |-> 0]

\* TimeSync::observe: the first measurement sets both offsets; later ones
\* move each by the same EMA with alpha = 0.1.
ts_observe(ts, local, server) ==
    LET m == (server - local) * Scale
    IN IF ~ts.has
       THEN [ts EXCEPT !.has = TRUE, !.est = m, !.smoothed = m]
       ELSE [ts EXCEPT !.est = (9 * @ + m) \div 10,
                       !.smoothed = (9 * @ + m) \div 10]

\* TimeSync::target(local_now): before any observation, local_now; else
\* move smoothed_offset_ toward offset_estimate_ by at most
\* max_slew * max(0, local_now - last_target_local_), record local_now,
\* and return local_now + smoothed_offset_.  The result is the new state
\* and the returned value.
ts_target(ts, now) ==
    IF ~ts.has THEN [ts |-> ts, out |-> now * Scale]
    ELSE LET deltaLocal == IF now * Scale > ts.lastLocal THEN now * Scale - ts.lastLocal ELSE 0
             maxAdjust  == deltaLocal \div 2
             delta      == ts.est - ts.smoothed
             adjust     == IF delta > maxAdjust THEN maxAdjust
                           ELSE IF delta < -maxAdjust THEN -maxAdjust ELSE delta
             smoothed   == ts.smoothed + adjust
         IN [ts  |-> [ts EXCEPT !.smoothed = smoothed, !.lastLocal = now * Scale],
             out |-> now * Scale + smoothed]

\* A call: observe(local, server) or target(local).
Calls == [kind : {"observe"}, local : TickValues, server : TickValues]
         \cup [kind : {"target"}, local : TickValues]

\* The values the target calls of a call sequence return, in order.
RECURSIVE Targets(_, _)
Targets(ts, calls) ==
    IF calls = << >> THEN << >>
    ELSE LET c == Head(calls)
         IN IF c.kind = "observe"
            THEN Targets(ts_observe(ts, c.local, c.server), Tail(calls))
            ELSE LET r == ts_target(ts, c.local)
                 IN <<r.out>> \o Targets(r.ts, Tail(calls))

\* Monotonic input after a first observation: the sequence starts with an
\* observe, local ticks never decrease along it, and neither do the server
\* ticks observed.  (Before any observation target returns local time
\* itself, and the first observe then sets the offset outright.)
MonotoneCalls ==
    {cs \in UNION {[1..n -> Calls] : n \in 1..MaxCalls} :
        /\ cs[1].kind = "observe"
        /\ \A i, j \in 1..Len(cs) :
               i < j => /\ cs[i].local <= cs[j].local
                        /\ (cs[i].kind = "observe" /\ cs[j].kind = "observe")
                               => cs[i].server <= cs[j].server}

-----------------------------------------------------------------------------

\* Spec 4.6: once TimeSync has an observation, target's output is
\* monotonic under monotonic input, since the smoothed offset it adds
\* moves toward the raw one by at most max_slew per local tick.
TargetMonotonic ==
    \A cs \in MonotoneCalls :
        LET out == Targets(TimeSyncInit, cs)
        IN \A i \in 1..(Len(out) - 1) : out[i] <= out[i + 1]

====
