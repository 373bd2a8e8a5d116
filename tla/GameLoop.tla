------------------------------ MODULE GameLoop ------------------------------
(***************************************************************************)
(* core::GameLoop (src/netcode-core/core/game_loop.cpp), the fixed-rate    *)
(* tick loop (C3) that drives the netcode server's tick lambda.  run() is  *)
(* one thread reading a steady clock: it sleeps until next_tick, calls the *)
(* handler with the tick counter and the time since the last call, and     *)
(* reschedules, jumping next_tick forward instead of catching up when it   *)
(* has fallen too far behind.  Its schedule is a function of the clock     *)
(* readings alone, so it is modelled as an operator over a sequence of     *)
(* readings, checked for every nondecreasing sequence within a bound.      *)
(* Time is counted in integer units; Period is tick_duration_.             *)
(***************************************************************************)
EXTENDS Naturals, Sequences, FiniteSets

CONSTANTS
    Period,      \* tick_duration_, in clock units
    MaxClock,    \* bound: the largest clock reading
    Readings     \* bound: clock readings after the one run() starts with

ASSUME Period \in Nat \ {0} /\ MaxClock \in Nat /\ Readings \in Nat

\* run(), before the loop: next_tick = last_tick = now, tick_counter = 0.
\* calls are the handler invocations: tick, clock reading, dt.
LoopStart(t0) == [next |-> t0, last |-> t0, counter |-> 0, calls |-> << >>]

\* Mutant of the loop body: next_tick only ever advances by one period.
Iterate_NoResync(s, now) ==
    IF now < s.next THEN s
    ELSE [next |-> s.next + Period, last |-> now, counter |-> s.counter + 1,
          calls |-> Append(s.calls, [tick |-> s.counter, at |-> now,
                                     dt |-> IF now - s.last <= 0 THEN Period ELSE now - s.last])]

\* One pass of the while loop at clock reading now: before next_tick it
\* sleeps and continues; otherwise dt is now - last_tick (one period when
\* that is not positive), the handler is called, last_tick = now,
\* next_tick += tick_duration_, and if now is still more than a period past
\* the new next_tick, next_tick = now + tick_duration_.
Iterate(s, now) ==
    IF now < s.next THEN s
    ELSE LET advanced == s.next + Period
         IN [next |-> IF now - advanced > Period THEN now + Period ELSE advanced,
             last |-> now, counter |-> s.counter + 1,
             calls |-> Append(s.calls, [tick |-> s.counter, at |-> now,
                                        dt |-> IF now - s.last <= 0 THEN Period
                                               ELSE now - s.last])]

\* run() over the readings the clock gives, one per pass.
RECURSIVE RunLoop(_, _)
RunLoop(s, readings) ==
    IF readings = << >> THEN s ELSE RunLoop(Iterate(s, Head(readings)), Tail(readings))

\* The nondecreasing sequences of n readings from lo to MaxClock: a
\* steady_clock never goes back.
RECURSIVE Monotone(_, _)
Monotone(n, lo) ==
    IF n = 0 THEN {<< >>}
    ELSE UNION {{<<v>> \o r : r \in Monotone(n - 1, v)} : v \in lo..MaxClock}

\* Handler calls at clock readings in [t, t + Period).
CallsWithin(calls, t) ==
    Cardinality({i \in 1..Len(calls) : t <= calls[i].at /\ calls[i].at < t + Period})

-----------------------------------------------------------------------------

\* Spec 4.3, no frantic catch-up: however long the thread is descheduled
\* or the handler runs, the resync rule bounds the handler calls within
\* any one period to three (two make up for a stall of up to two periods,
\* the third is the tick due at the new next_tick), and the tick counter
\* passed to the handler counts the calls.
CatchUpBounded ==
    \A r \in Monotone(Readings, 0) :
        LET calls == RunLoop(LoopStart(0), r).calls
        IN /\ \A i \in 1..Len(calls) : calls[i].tick = i - 1 /\ calls[i].dt > 0
           /\ \A i \in 1..Len(calls) : CallsWithin(calls, calls[i].at) <= 3

=============================================================================
