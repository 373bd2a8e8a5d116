---------------------------- MODULE SnapshotCodec ----------------------------
(***************************************************************************)
(* mini::sync::SnapshotGenerator and SnapshotDecoder                       *)
(* (src/netcode-core/sync/snapshot.cpp) as PongUdpServer drives them: the  *)
(* tick thread steps the world, encodes the new state once for             *)
(* broadcast_snapshot and sends it unreliably, and, when a room manager is *)
(* connected, every CheckpointInterval ticks encodes the same state again  *)
(* and forces encode_keyframe for the Redis checkpoint.  One client's      *)
(* decoder applies whatever snapshots the transport hands over, in any     *)
(* order, some lost.                                                       *)
(*                                                                         *)
(* A world state is represented by its tick: the codec's control (which    *)
(* tick is a keyframe, which base a delta names, what each history holds)  *)
(* depends on nothing else, and a delta decodes to the right state exactly *)
(* when its base is found.                                                 *)
(***************************************************************************)
EXTENDS Naturals, Sequences

CONSTANTS
    KeyframeInterval,    \* keyframe_interval_ (20 in the server)
    GenHistory,          \* the generator's history_size_ (256)
    DecHistory,          \* the decoder's history_size_ (120)
    CheckpointInterval,  \* CHECKPOINT_INTERVAL_TICKS (60)
    Checkpointing,       \* room_manager_ is connected
    MaxTick              \* bound: ticks the server runs

ASSUME /\ KeyframeInterval \in Nat \ {0} /\ CheckpointInterval \in Nat \ {0}
       /\ GenHistory \in Nat \ {0} /\ DecHistory \in Nat \ {0}
       /\ Checkpointing \in BOOLEAN /\ MaxTick \in Nat

Ticks == 0..MaxTick
Snapshots == [tick : Ticks, isKeyframe : BOOLEAN, baseTick : Ticks]

VARIABLES
    running,      \* GameLoop::running_
    tick,         \* WorldState::tick of the world
    history,      \* SnapshotGenerator::history_ (ticks, oldest first)
    lastKeyframe, \* SnapshotGenerator::last_keyframe_tick_
    hasKeyframe,  \* SnapshotGenerator::has_keyframe_
    network,      \* snapshots sent and not yet delivered or lost
    decHistory,   \* SnapshotDecoder::history_ (ticks, oldest first)
    keyframesIn,  \* ghost: ticks of the keyframes the decoder applied
    missing       \* ghost: deltas apply rejected with MissingBaseState, each
                  \* with the keyframes the decoder had applied by then

gen == <<history, lastKeyframe, hasKeyframe>>
vars == <<running, tick, gen, network, decHistory, keyframesIn, missing>>

Init ==
    /\ running = TRUE
    /\ tick = 0
    /\ history = << >>
    /\ lastKeyframe = 0
    /\ hasKeyframe = FALSE
    /\ network = {}
    /\ decHistory = << >>
    /\ keyframesIn = {}
    /\ missing = {}

\* Mutant of store_state: the deque is never trimmed to history_size_.
store_state_NoEvict(h, t) ==
    IF \E k \in 1..Len(h) : h[k] = t THEN h ELSE Append(h, t)

\* SnapshotGenerator::store_state: a tick already stored is overwritten in
\* place; otherwise appended, dropping the oldest while over the limit.
store_state(h, t) ==
    IF \E k \in 1..Len(h) : h[k] = t THEN h
    ELSE LET a == Append(h, t)
         IN IF Len(a) > GenHistory THEN SubSeq(a, Len(a) - GenHistory + 1, Len(a))
            ELSE a

\* SnapshotGenerator::prune_history: drop the oldest entries below min_tick.
RECURSIVE prune_history(_, _)
prune_history(h, minTick) ==
    IF h # << >> /\ Head(h) < minTick THEN prune_history(Tail(h), minTick) ELSE h

\* min_tick = tick - history_size_, or 0 while tick < history_size_
MinTick(t) == IF t >= GenHistory THEN t - GenHistory ELSE 0

\* SnapshotGenerator::find_state
Found(h, t) == \E k \in 1..Len(h) : h[k] = t

\* SnapshotGenerator::encode_keyframe, as the result and the generator
\* state it leaves: [snap, history, last, has].
encode_keyframe(g, t) ==
    [snap |-> [tick |-> t, isKeyframe |-> TRUE, baseTick |-> t],
     history |-> prune_history(store_state(g.history, t), MinTick(t)),
     last |-> t, has |-> TRUE]

\* Mutant of encode: the delta is taken against the previous tick.
encode_DeltaAgainstPrevious(g, t) ==
    IF ~g.has \/ t <= g.last \/ t - g.last >= KeyframeInterval \/ ~Found(g.history, t - 1)
    THEN encode_keyframe(g, t)
    ELSE [snap |-> [tick |-> t, isKeyframe |-> FALSE, baseTick |-> t - 1],
          history |-> prune_history(store_state(g.history, t), MinTick(t)),
          last |-> g.last, has |-> g.has]

\* SnapshotGenerator::encode: a keyframe when none was emitted, the tick
\* does not advance past the last keyframe, or keyframe_interval_ ticks
\* passed; a delta against the last keyframe otherwise, falling back to a
\* keyframe when that base is no longer in the history.
encode(g, t) ==
    IF \/ ~g.has \/ t <= g.last \/ t - g.last >= KeyframeInterval
       \/ ~Found(g.history, g.last)
    THEN encode_keyframe(g, t)
    ELSE [snap |-> [tick |-> t, isKeyframe |-> FALSE, baseTick |-> g.last],
          history |-> prune_history(store_state(g.history, t), MinTick(t)),
          last |-> g.last, has |-> g.has]

\* The generator as a record, for encode.
Gen == [history |-> history, last |-> lastKeyframe, has |-> hasKeyframe]

\* The checkpoint block of the tick lambda: encode again, and when that is
\* not a keyframe, encode_keyframe; only the generator state survives.
Checkpoint(g, t) ==
    LET e == encode(g, t)
    IN IF e.snap.isKeyframe THEN e ELSE encode_keyframe(e, t)

\* One pass of the tick lambda: world_.step (tick + 1), broadcast_snapshot
\* (encode and an unreliable send), the checkpoint when room_manager_ is
\* set and tick_counter_ % CHECKPOINT_INTERVAL_TICKS = 0 (tick_counter_ is
\* the number of earlier passes, tick - 1), then transport_->update().
Tick ==
    /\ running
    /\ tick < MaxTick
    /\ LET t  == tick + 1
           e  == encode(Gen, t)
           g2 == IF Checkpointing /\ (t - 1) % CheckpointInterval = 0
                 THEN Checkpoint(e, t) ELSE e
       IN /\ tick' = t
          /\ history' = g2.history
          /\ lastKeyframe' = g2.last
          /\ hasKeyframe' = g2.has
          /\ network' = network \cup {e.snap}
    /\ UNCHANGED <<running, decHistory, keyframesIn, missing>>

\* PongUdpServer::stop: loop_.stop() joins the tick thread.
Stop ==
    /\ running
    /\ running' = FALSE
    /\ UNCHANGED <<tick, gen, network, decHistory, keyframesIn, missing>>

\* The unreliable send is lost.
Lose ==
    \E m \in network :
        /\ network' = network \ {m}
        /\ UNCHANGED <<running, tick, gen, decHistory, keyframesIn, missing>>

\* SnapshotDecoder::store_state: append, drop the oldest while over the limit.
dec_store_state(h, t) ==
    LET a == Append(h, t)
    IN IF Len(a) > DecHistory THEN SubSeq(a, Len(a) - DecHistory + 1, Len(a)) ELSE a

\* SnapshotDecoder::apply on a snapshot the transport delivers: a keyframe
\* is decoded alone, a delta needs its base in the decoder's history and
\* throws MissingBaseState (nothing stored) without it.
Apply ==
    \E m \in network :
        /\ network' = network \ {m}
        /\ IF m.isKeyframe \/ Found(decHistory, m.baseTick)
           THEN /\ decHistory' = dec_store_state(decHistory, m.tick)
                /\ keyframesIn' = IF m.isKeyframe THEN keyframesIn \cup {m.tick}
                                  ELSE keyframesIn
                /\ UNCHANGED missing
           ELSE /\ missing' = missing \cup {<<m, keyframesIn>>}
                /\ UNCHANGED <<decHistory, keyframesIn>>
        /\ UNCHANGED <<running, tick, gen>>

Next == Tick \/ Stop \/ Lose \/ Apply

Spec == Init /\ [][Next]_vars

-----------------------------------------------------------------------------

TypeOK ==
    /\ running \in BOOLEAN
    /\ tick \in Ticks
    /\ history \in Seq(Ticks) /\ Len(history) <= GenHistory
    /\ lastKeyframe \in Ticks /\ hasKeyframe \in BOOLEAN
    /\ network \subseteq Snapshots
    /\ decHistory \in Seq(Ticks) /\ Len(decHistory) <= DecHistory
    /\ keyframesIn \subseteq Ticks
    /\ missing \subseteq Snapshots \X SUBSET Ticks

\* Spec 4.4: a decoder that has already applied a keyframe at most one
\* keyframe_interval older than a delta can apply that delta: apply never
\* throws MissingBaseState for it, whatever else was lost or reordered.
FreshKeyframeDecodes ==
    \A <<d, applied>> \in missing :
        ~\E k \in applied : k <= d.tick /\ d.tick - k <= KeyframeInterval

=============================================================================
