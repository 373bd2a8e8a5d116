----------------------------- MODULE Matchmaker -----------------------------
(***************************************************************************)
(* mini::Matchmaker (src/netcode-core/match/matchmaker.cpp) driven by the  *)
(* matcher service's loop (apps/matcher/main.cpp), against the Redis keys  *)
(* it shares with the players' clients:                                    *)
(*   - match:queue, a ZSET of player_id scored by MMR, written by enqueue  *)
(*     (ZADD) and dequeue (ZREM) from any client at any time;              *)
(*   - room_map:{player_id}, written by store_room_assignment (SETEX).     *)
(* process_queue is one Redis command per step: the ZRANGE snapshot, then *)
(* for each matched pair two SETEX and two ZREM, so clients and a restart  *)
(* of the matcher process interleave with it.  A SETEX or ZREM of a pair  *)
(* may fail (a null or error reply, or ensure_connected throwing); both    *)
(* methods catch it and return false, and process_queue ignores the       *)
(* result.  SETEX's 300 s expiry is left out.                              *)
(* Player ids are numbers so that ZRANGE's tie order (by member) is <.     *)
(***************************************************************************)
EXTENDS Naturals, Sequences, SequencesExt

CONSTANTS
    Player,        \* player_id values (numbers)
    MmrValue,      \* the MMRs clients enqueue with
    Tolerance,     \* MMR_TOLERANCE (200)
    RoomId,        \* values generate_room_id can draw
    MaxEnqueues,   \* bound: enqueue calls per player
    MaxRestarts,   \* bound: restarts of the matcher process
    Absent,        \* not a member of match:queue
    NoRoom         \* no room_map key

ASSUME Absent \notin MmrValue /\ NoRoom \notin RoomId

VARIABLES
    score,      \* match:queue: score[p] is p's MMR, or Absent
    roomMap,    \* room_map:{p}: the room id stored for p, or NoRoom
    enqueues,   \* enqueue calls made by each player
    left,       \* ghost: players whose own dequeue removed them
    strays,     \* ghost: players given a room after they left the queue
    mpc,        \* where process_queue is
    requests,   \* the parsed ZRANGE reply: <<player, mmr>>, by MMR
    idx,        \* the loop's i, 1-based: the pair is requests[idx], [idx+1]
    room,       \* the room id generated for the current pair
    restarts    \* restarts of the matcher so far

vars == <<score, roomMap, enqueues, left, strays, mpc, requests, idx, room,
          restarts>>

Queued == {p \in Player : score[p] # Absent}

Init ==
    /\ score = [p \in Player |-> Absent]
    /\ roomMap = [p \in Player |-> NoRoom]
    /\ enqueues = [p \in Player |-> 0]
    /\ left = {}
    /\ strays = {}
    /\ mpc = "idle"
    /\ requests = << >>
    /\ idx = 1
    /\ room = NoRoom
    /\ restarts = 0

\* Matchmaker::enqueue: ZADD match:queue <mmr> <player_id> (adds the
\* player, or moves it to its new score).
Enqueue(p, m) ==
    /\ enqueues[p] < MaxEnqueues
    /\ score' = [score EXCEPT ![p] = m]
    /\ enqueues' = [enqueues EXCEPT ![p] = @ + 1]
    /\ left' = left \ {p}
    /\ UNCHANGED <<roomMap, strays, mpc, requests, idx, room, restarts>>

\* Matchmaker::dequeue called by the player's side (a disconnect): ZREM.
Dequeue(p) ==
    /\ p \in Queued
    /\ score' = [score EXCEPT ![p] = Absent]
    /\ left' = left \cup {p}
    /\ UNCHANGED <<roomMap, enqueues, strays, mpc, requests, idx, room, restarts>>

\* ZRANGE match:queue 0 -1 WITHSCORES: members by score, ties by member.
ByScore(a, b) == a[2] < b[2] \/ (a[2] = b[2] /\ a[1] < b[1])

\* process_queue, up to the parse: the ZRANGE reply as MatchRequests.  (A
\* failed ZRANGE returns no assignments and changes nothing: a stutter.)
ReadQueue ==
    /\ mpc = "idle"
    /\ requests' = SetToSortSeq({<<p, score[p]>> : p \in Queued}, ByScore)
    /\ idx' = 1
    /\ mpc' = "check"
    /\ UNCHANGED <<score, roomMap, enqueues, left, strays, room, restarts>>

Dist(a, b) == IF a >= b THEN a - b ELSE b - a

\* The body of a matched pair, in order: store_room_assignment(p1),
\* store_room_assignment(p2), dequeue(p1), dequeue(p2).
PairSteps == <<"store1", "store2", "deq1", "deq2">>

\* The loop header and the tolerance test: for i, i+1 < size, i += 2; a
\* pair within MMR_TOLERANCE gets a generate_room_id, others are skipped.
\* The loop's end ends process_queue.
CheckPair ==
    /\ mpc = "check"
    /\ IF idx + 1 <= Len(requests)
       THEN IF Dist(requests[idx][2], requests[idx + 1][2]) <= Tolerance
            THEN \E r \in RoomId : /\ room' = r /\ mpc' = PairSteps[1]
                                  /\ UNCHANGED idx
            ELSE /\ idx' = idx + 2
                 /\ UNCHANGED <<mpc, room>>
       ELSE /\ mpc' = "idle"
            /\ UNCHANGED <<idx, room>>
    /\ UNCHANGED <<score, roomMap, enqueues, left, strays, requests, restarts>>

\* The step after step s of the pair's body; after the last, the loop's
\* i += 2 and back to the header.
After(s) ==
    LET k == CHOOSE j \in 1..4 : PairSteps[j] = s
    IN IF k = 4 THEN "check" ELSE PairSteps[k + 1]

\* One Redis command of a matched pair: store_room_assignment's SETEX
\* room_map:{p} or dequeue's ZREM p.  A failed command changes nothing,
\* and the pair's body goes on to its next call either way.
PairStep ==
    /\ mpc \in {"store1", "store2", "deq1", "deq2"}
    /\ \E applied \in BOOLEAN :
       LET p == IF mpc \in {"store1", "deq1"} THEN requests[idx][1]
                ELSE requests[idx + 1][1]
       IN IF ~applied THEN UNCHANGED <<score, roomMap, strays>>
          ELSE IF mpc \in {"store1", "store2"}
          THEN /\ roomMap' = [roomMap EXCEPT ![p] = room]
               /\ strays' = IF p \in left THEN strays \cup {p} ELSE strays
               /\ UNCHANGED score
          ELSE /\ score' = [score EXCEPT ![p] = Absent]
               /\ UNCHANGED <<roomMap, strays>>
    /\ mpc' = After(mpc)
    /\ idx' = IF After(mpc) = "check" THEN idx + 2 ELSE idx
    /\ UNCHANGED <<enqueues, left, requests, room, restarts>>

\* The matcher process dies and is started again: Redis keeps match:queue
\* and room_map, the process loses the pass it was in.
Restart ==
    /\ mpc # "idle"
    /\ restarts < MaxRestarts
    /\ mpc' = "idle"
    /\ requests' = << >>
    /\ idx' = 1
    /\ room' = NoRoom
    /\ restarts' = restarts + 1
    /\ UNCHANGED <<score, roomMap, enqueues, left, strays>>

Next ==
    \/ \E p \in Player : \E m \in MmrValue : Enqueue(p, m)
    \/ \E p \in Player : Dequeue(p)
    \/ ReadQueue \/ CheckPair \/ PairStep
    \/ Restart

Spec == Init /\ [][Next]_vars

-----------------------------------------------------------------------------

\* A player that enqueued and is no longer in match:queue, without having
\* dequeued itself, holds a room assignment: process_queue never removes a
\* player from the queue without telling it where to go (the stores come
\* before the dequeues of a pair).
NoLostPlayer ==
    \A p \in Player :
        (enqueues[p] > 0 /\ p \notin Queued /\ p \notin left)
            => roomMap[p] # NoRoom

\* A player that left the queue (dequeue, "e.g., if they disconnect") is
\* not matched afterwards: process_queue's pairs are made of players still
\* waiting.
NoAssignmentAfterLeave ==
    strays = {}

=============================================================================
