# TLA+ models of the netcode game server

This directory holds TLA+ models of the C++ game server in `src/`, the TLC
configurations that check them, and `PROJECT.json`, which records every run,
the source lines each definition translates (`map`), the mutants that show
each property can fail, the findings and the hazards.

Check a run with `tlc -workers 2 -config <cfg> <MC module>`, for example
`tlc -workers 2 -config UdpTransport_safety.cfg MC_UdpTransport`.

## 1. The system

The repository is an authoritative two-player Pong server.  Its core, the
part `spec.md` specifies, has six components (C1 to C6).  Around the core sit
the collaborators the spec names and some unrelated lab code.

| Component | Source | State | Operations |
|---|---|---|---|
| C1 datagram transport | `src/game-server/netcode-core/net/udp/udp_transport.cpp`, `src/netcode-core/net/udp/udp_transport.h`, `src/netcode-core/net/transport.h` | one `ClientState` per peer address: `next_send_seq`, `receive_state` (last_seq, ack_bits, has_last_seq), `pending` reliable packets (seq → payload, times, retries) | `send`, `update` (expiry and retransmission), the receive path `handle_receive` → `process_packet` → `handle_ack` / `update_receive_state` → handler |
| C2 world and physics | `core/world.*`, `core/physics.cpp` | `WorldState`: ball, paddles, scores, directions, tick | `set_player_input`, `step` (physics, then `tick++`), `snapshot` |
| C3 tick loop | `src/netcode-core/core/game_loop.cpp` | `running_`, the handler, `next_tick` | `start`, `stop`, `run` |
| C4 snapshot codec | `sync/snapshot.cpp`, `sync/delta.cpp` | generator: history deque, `last_keyframe_tick_`, `has_keyframe_`; decoder: history deque | `encode`, `encode_keyframe`, `apply` |
| C5 netcode server | `src/netcode-core/apps/pong_udp/pong_udp_server.cpp` | `clients_` (address → side, last_client_seq), `left_client_key_`, `right_client_key_`, `server_tick_` | `handle_datagram` / `handle_input`, the tick lambda (`step`, `broadcast_snapshot`, checkpoint, `transport.update`) |
| C6 client sync | `sync/prediction.cpp`, `sync/reconciliation.cpp`, `sync/time_sync.cpp` | predicted state, prediction history, offset estimates | `reset`, `predict`, `record_prediction`, `reconcile`, `observe`, `target` |
| WebSocket pong server | `src/gameserver-fundamentals/lab1.4-ws-pong/pong_server.h` | role slots (Empty / Active / Reconnecting, player id, deadline), sessions, pending input acks | `handle_hello`, `handle_input`, `on_close`, `cleanup_reconnect_timeouts`, `broadcast_state` |
| Prometheus exporter | `src/netcode-core/metrics/prometheus.cpp` | gauges, the `dropped_packets_` map and counters, histograms (values, bucket map), `running_` | the setters, `observe`, `percentile`, `get_metrics`, `start`, `stop`, the HTTP accept loop |
| Matchmaker | `src/netcode-core/match/matchmaker.cpp` | a Redis sorted set of (player, mmr) and room assignments | `enqueue`, `dequeue`, `process_queue` |
| Turn-combat lab | `src/gameserver-fundamentals/lab1.2-turn-combat/` | `GameState` (players, health, turn, running, game over, winner), the loop's command queue, `GameServer::running_` | accept, `handle_command` (ATTACK, QUIT), a hang-up, `GameLoop::run`, a signal |
| WebSocket chat lab | `src/game-server/gameserver-fundamentals/lab1.3-ws-chat/` | sessions, their nicknames and joined rooms, the server's `rooms_` and `sessions_`, each session's `write_queue_` | accept, handshake, JOIN / LEAVE / MSG / NICK / LIST commands, a read error, the posted sends, write completion |

Everything else is left out (section 6).

### How the parts interact

- The server's I/O thread runs the transport's receive path.  Each accepted
  datagram calls `PongUdpServer::handle_datagram`, outside the transport
  mutex.  `handle_input` records the sender's `client_seq` under
  `clients_mutex_`.  It then sets the direction on the world under the world
  mutex, and last sends a reliable `ServerAck` through `UdpTransport::send`.
- The tick thread (C3) calls the tick lambda.  The lambda steps the world and
  encodes a snapshot (C4).  It sends the snapshot unreliably to every known
  client.  Every 60 ticks it encodes the state again as a checkpoint keyframe.
  Last, it calls `UdpTransport::update`, which retransmits and expires
  pending packets.  Before all this, `record_tick_metrics` stores the
  tick's duration.  Once a second it copies recent durations, the
  transport's counters and the player count into the Prometheus exporter.
  The exporter's HTTP thread prints them for each scrape.
- The two threads share the world, `clients_` and the transport.  Each of
  these has its own mutex.  Neither thread holds two of them at once.
- There are no standalone acks: a peer's receive window travels only in the
  header of its next data datagram.

### What is hard

- **Transport.**
  - The 16-bit sequence space wraps.
  - The duplicate window is 32 wide.
  - Acks ride on data, and retransmissions carry fresh headers.
  - Datagrams are lost, duplicated and reordered.
  - A refused reliable send still consumes a sequence.
- **Server.**
  - Input handling on the I/O thread interleaves with the tick thread.
  - Inputs arrive out of order.
  - Role slots are assigned on first contact and never released.
  - The metrics feed samples cumulative totals and a fixed window of
    durations once a second.
- **Codec.**
  - The decoder depends on the base it has received.
  - The checkpoint re-encode moves the generator's keyframe base.
- **Client sync.**
  - The time offset must not run backwards.
  - The reconciler's history is pruned by tick.
- **WebSocket server.**
  - Reconnection races timeouts and repeated `hello`s.

`PROJECT.json` lists each of these at its source line.

### Properties that make each part correct

- **C1:**
  - a payload reaches the handler at most once;
  - an ack removes only packets the peer really delivered;
  - no pending packet outlives the 500 ms TTL by more than one update
    (spec §6);
  - the window never exceeds 32.
- **C5:**
  - a `ServerAck` is sent before the snapshot that reflects its input (spec §5);
  - the world sees each peer's inputs in increasing `client_seq` (spec §5);
  - Left and Right go to distinct peers.
- **C4:** a decoder that holds a keyframe at most one interval old decodes
  every later delta (spec §4.4).
- **C6:**
  - `target` is monotonic under monotonic input (spec §4.6);
  - `corrected_ticks` counts the predictions from the authoritative tick on.
- **WebSocket server:** no two slots are bound to one session, and no player id
  is bound to two slots.
- **Matchmaker:**
  - no player is assigned twice;
  - compatible players are eventually paired.

## 2. Plan and status

| Part | Module(s) | Status |
|---|---|---|
| C1 transport | `UdpTransport`, `MC_UdpTransport` | modelled; peer restart and `start`/`stop` open |
| C5 netcode server | `PongUdpServer`, `MC_PongUdpServer` | role assignment, `handle_input`, tick step and broadcast |
| C4 snapshot codec | `SnapshotCodec`, `DeltaCodec`, `MC_SnapshotCodec` | modelled |
| Matchmaker | `Matchmaker`, `MC_Matchmaker` | modelled, with failed SETEX and ZREM commands of a pair |
| WebSocket pong server | `WsPongServer`, `WsPongMetricsClient`, `MC_WsPongServer` | slots, reconnection, acks, timeouts, and the lab's metrics client on one connection |
| Room manager (Redis) | `RoomManager`, `MC_RoomManager` | modelled; its properties fail against the code, and have no run (section 6) |
| Turn-combat lab | `TurnCombat`, `MC_TurnCombat` | modelled |
| TCP echo lab | `EchoServer`, `MC_EchoServer` | modelled; its liveness property fails against the code, and has no run (section 6) |
| WebSocket chat lab | `WsChat`, `JsonCodec`, `MC_WsChat` | modelled |
| C6 client sync | `ClientSync`, `SnapshotClient`, `TimeSync`, `MC_SnapshotCodec` | `Reconciler` and `Predictor`, fed by the decoder; `TimeSync` as operators |
| C3 tick loop | `GameLoop`, `MC_PongUdpServer` | the `run` schedule; `start`/`stop` not modelled |
| C5 metrics and the Prometheus exporter | `PrometheusExporter`, `ServerMetrics`, `MC_PongUdpServer` | histograms, counters, gauges, `get_metrics`, and the server's feed; the HTTP thread not modelled |

Later work: a peer restart in `UdpTransport`.

## 3. Modules

### UdpTransport

`UdpTransport` models the selective-ack transport, one instance of it per
endpoint of a two-endpoint session.

**State.** The variables correspond to the code as follows:

- `nextSendSeq[n]` is `ClientState::next_send_seq`, which starts at 1
  (`ensure_client_locked`).
- `receiveState[n]` is `receive_state`.
- `pending[n]` is the `pending` map: seq → id, `retries`, and the packet's
  `age` (now − `first_sent`) and `sinceLast` (now − `last_sent`) in ms.
  `next_send` is always `last_sent + backoff_for(retries)`, so it needs no
  field of its own.
- `updated` is the set of endpoints whose `update()` ran in this tick.
- `network` holds the datagrams in flight: sender, receiver, seq, ack,
  ack_bits and a payload id.
- The ghosts `sends`, `delivered`, `redelivered` and `ackedIds` record what
  the handler and `handle_ack` did.

**Actions.** Each public operation holds the transport mutex throughout, so
each is one atomic step:

- `Send(n, reliable)` is `send`.  It consumes the sequence even when the
  window is full.
- `Receive(n)` is `handle_receive` + `process_packet`.  It runs `handle_ack`
  first, then the duplicate/old classification (`IsDropped`), then
  `update_receive_state` and the handler.
- `Update(n)` is `update`.  It erases what `expire_pending_locked` returns
  (TTL elapsed since `first_sent`, or the retry cap reached).  Then it
  resends every kept packet whose `next_send` is due, with a fresh
  `compose_packet` header, `last_sent = now` and `retries + 1`.
- `Elapse` advances the clock by `UpdateInterval`, once both endpoints have
  run `update()` since the last advance.  spec.md §3 requires `update()` at
  least once per tick, and the pong server's tick lambda calls it every
  tick.
- `Lose` is the network losing a datagram.  Receiving removes a datagram from
  the network.  A duplicate on the wire is received exactly like a resend of
  the same sequence, and resends are in the model.  The network is a set, so
  it also reorders.

**Abstractions.**

- Sequence numbers live in `0..SeqSpace-1`, not `0..65535`.  The mask has
  `AckBits` bits, not 32.  Every literal 32 of the code becomes `AckBits`, and
  the int16 "is newer" window is `SeqSpace \div 2`.  The arithmetic is the
  code's, done modulo `SeqSpace`.
- Time is kept in ms as ages, with the code's constants: `kBaseRetransmit`
  50, `kTtl` 500 and `kMaxRetries` 5.  `backoff_for` is the code's
  repeated ×1.5 truncated to whole ms.  Those products are exact in a
  double for the retry counts the code reaches.  `UpdateInterval` is 50 ms
  in the run, a 20 Hz caller.  At the pong server's 60 Hz (17 ms), the
  safety run takes 26M states and 12 minutes.  With 5 retries and a 500 ms
  TTL, the TTL is what evicts a packet that is never acknowledged.  At
  50 ms, resends go out at 50, 150 and 300 ms.  The next is due at 468 ms,
  and the update at 500 ms evicts the packet first.  At 17 ms the fourth
  resend goes out at 425 ms, and the fifth would be due at 678 ms.  So the
  retry cap never fires, at either cadence.
- Payloads are ghost ids `<<sender, k>>`.

**No refinement.** An at-most-once `ITransport` interface is not
checked as a refinement.  The transport does not implement it: a jump of
exactly 32 sequences lets a resend through twice (run
`transport_dup_at_window_edge`).  What remains of such an interface is
"acknowledged only if delivered", which `AckImpliesDelivered` states
directly.

**Fairness.** None: the passing run checks only invariants.

### PongUdpServer

`PongUdpServer` models `pong_udp_server.cpp` as two threads over what the
transport hands up.  An input datagram reaches `handle_input` perhaps
never, and in any order.  A second delivery at the window edge
(`transport_dup_at_window_edge`) re-applies the same input and resends its
ack.  It is left out.

- **State.** `side`, `lastClientSeq` and `slotKey` are `clients_`,
  `left_client_key_` and `right_client_key_`.  `latch[side]` is the world's
  direction, kept as the identity `<<client, client_seq>>` of the input
  that set it.  `io` is where the I/O thread is inside `handle_input`, and
  `tickPc` where the tick thread is.  The ghosts `acksSent` and `reflected`
  record the ServerAcks sent and the inputs a broadcast snapshot showed.
- **Actions.**
  - `ClientSend` and `Lose` are the clients and the network.
  - `handle_input` is split where its locks are released: `RecordInput`
    (side and `client_seq` under `clients_mutex_`), `ApplyInput`
    (`set_player_input`), then `SendAck`.
  - `TickStep` is `world_.step`, and `TickBroadcast` is `broadcast_snapshot`.
- **Fairness.** None, because only safety is checked.  That an input is
  eventually acknowledged follows from `handle_input` being straight-line
  code, so it is not stated.

### GameLoop

`GameLoop` models the schedule of `GameLoop::run` (`game_loop.cpp`).
`run` is one thread reading a steady clock, so what it does is a function
of its clock readings.  `RunLoop` folds `Iterate` over a sequence of
readings:

- before `next_tick`, the loop sleeps and continues;
- otherwise it computes `dt` (one period when it is not positive), calls
  the handler, and sets `last_tick`;
- then `next_tick` advances by a period, and jumps to `now + period` when
  `now` is still more than a period past it.

`Monotone` enumerates every nondecreasing sequence of readings within the
bounds.  `CatchUpBounded` checks the schedule over all of them.
`MC_PongUdpServer` extends `GameLoop`, because the tick lambda
(`TickStep`, `TickBroadcast`) is the handler `run` calls.  It checks
`CatchUpBounded` as `LoopCatchUpBounded`.  The formula is constant, so TLC
evaluates it once.

### PrometheusExporter and ServerMetrics

`PrometheusExporter` (`prometheus.cpp`) holds the exporter's state as a
record:
- the player and room gauges;
- the `dropped_packets_` map;
- `retransmit_total_`;
- the tick-duration `Histogram`, with its values and its map of bucket
  counts.

Each setter the server calls is one atomic operation or one `mutex_`
section, so each is an operator on that record:
- `observe` pushes a value and counts it in every bucket whose bound it
  does not exceed;
- `percentile` sorts a copy (`SortSeq`) and indexes it at
  `(size_t)(p * (size - 1))`, with `p` an integer percent.  The header
  comment explains why the truncated double product is the integer
  quotient for 0.50, 0.90 and 0.99;
- `get_metrics` is the record of the values a scrape prints.

`HistogramAgrees` checks these against declarative definitions.  It takes
every sequence of up to four observations of the values 0 to 3, with
bucket bounds 1 and 2.  `RankValue` defines the order statistic without
sorting.

`ServerMetrics` models the server's side of the feed
(`pong_udp_server.cpp`), both on the tick thread:
- `record_tick_metrics` pushes a duration.  Once a whole second has
  passed since `last_metrics_update_`, it calls
  `update_prometheus_metrics`;
- `update_prometheus_metrics` observes the last `min(size, 60)`
  durations, adds each sampled transport counter, and publishes the
  player and room gauges.

`FeedTicks` runs this over the handler calls of a `GameLoop` schedule,
with the totals `sample_counters` returns at each update.  In the
abstraction, `Second` is one second in clock units and `SampleWindow` is
the literal 60, which is the server's tick rate.  The instance uses
`Second = 7`, `Period = 2` and `SampleWindow = 3`: like the real 60
periods of 16666666 ns, three periods fall just short of a second.

`MC_PongUdpServer` extends `ServerMetrics`.  It checks `HistogramAgrees`
as `ExporterHistogramAgrees`, evaluated once like `LoopCatchUpBounded`.
The feed's own two properties fail against the code (section 6).

### SnapshotCodec and DeltaCodec

`SnapshotCodec` models `SnapshotGenerator` and `SnapshotDecoder`
(`snapshot.cpp`) as the tick lambda drives them.

- **Abstraction.** A world state is its tick.  The codec's control
  (which tick is a keyframe, which base a delta names, what each history
  holds) depends on nothing else.
- **Actions.**
  - `Tick` steps the world and encodes, and with `Checkpointing` makes the
    checkpoint's second `encode_keyframe`.
  - `Lose` drops a snapshot.
  - `Apply` is `SnapshotDecoder::apply`, which may throw MissingBaseState;
    the ghost `missing` records each such throw.
  - `Stop` is `GameLoop::stop`.

`DeltaCodec` models the bytes the snapshots carry (`delta.cpp`).

- Buffers are sequences of bytes.  The integer fields are written
  little-endian at their widths.
- A score difference is the int16 cast of a uint32 subtraction.  It is
  added back through int64 and uint32.
- Every read checks for underflow as the code does.
- An f32 keeps its four byte slots but not its IEEE bit pattern.  The
  checked positions are small integers, which float and double hold
  exactly.

`MC_SnapshotCodec` extends both modules.  Its `DeltaRoundTrip` checks
`DeltaCodec!DeltaCodecAgrees` in every state once a keyframe exists.  That
formula is constant, so TLC evaluates it once.  `DeltaCodec::encode_keyframe` is
named `codec_encode_keyframe`, to keep it apart from
`SnapshotGenerator::encode_keyframe`.

### ClientSync and SnapshotClient

`ClientSync` models the client half of C6: `Reconciler`
(`reconciliation.cpp`) and `Predictor` (`prediction.cpp`).  The client
loop that drives them is not in the repository, so its steps follow the
spec (section 4.6, C6).

- **Abstraction.** A predicted state is its tick.  Whether it lies more
  than epsilon from the authoritative state of its tick depends on the
  other player's input.  So `Receive` takes that as a nondeterministic
  input, `drift`.
- **State.** `recHistory` is `history_` (ticks, oldest first).  `seeded`
  says `Predictor::predicted_` holds a state.  `clientTick` is the tick of
  the last prediction.  The ghosts `made`, `latest` and `lastResult` record
  what was predicted, the newest tick reconciled, and the last reconcile.
- **Operators and actions.**
  - `record_prediction` appends and evicts past `history_size_`.
  - `find_index` finds the first entry with the tick.
  - `reconcile` either drops the older predictions (`drop_older`), or
    reports `size - index` on drift and erases through the index.
  - `Predict` is `Predictor::predict` followed by `record_prediction`.  It
    needs a seed, because `predict` throws before `reset`.  The client
    stays at most `MaxLead` ticks ahead of the server.
  - `Receive` is `Predictor::reset` on the first authoritative state,
    then `reconcile`.

`SnapshotClient` composes `SnapshotCodec` with `ClientSync`, following the
data flow of spec section 2.  `Decoded` is `Apply`, and when the decoder
stored a state, `Receive` of that state's tick.  `Predict` interleaves with
every server and network step.  Both snapshot runs use `SysSpec`.

### TimeSync

`TimeSync` models `mini::sync::TimeSync` (`time_sync.cpp`).  The client
calls it from one thread, so it is an operator over call sequences:
- `ts_observe` folds `server - local` into both offsets with alpha = 0.1;
- `ts_target` moves the smoothed offset toward the raw one by at most
  `max_slew * max(0, now - last)`, and returns `now + smoothed`.

The doubles become exact integers, scaled by `Scale = 2 * 10^MaxCalls`.
Every value that sequences of at most `MaxCalls` integer-tick calls
produce is a multiple of `1 / Scale`.  So the model computes the
real-number results that the code's doubles approximate.
`TargetMonotonic` states spec section 4.6's claim over every monotonic call
sequence that starts with an observation.  It fails against the code
(section 6), and no run checks it.

### Matchmaker

`Matchmaker` models `matchmaker.cpp`'s `process_queue` as the sequence of
Redis commands it issues: `ReadQueue` (ZRANGE), `CheckPair` (the tolerance
test and `generate_room_id`), and `PairStep` (the two SETEX and two ZREM
of a matched pair).  These interleave with the clients' `Enqueue` and
`Dequeue` and with a `Restart` of the matcher process.  Each SETEX or ZREM
of a pair is either applied or fails.  A failure may be a null or error
reply, or `ensure_connected` throwing.  `store_room_assignment` and
`dequeue` turn every one into `false`, and `process_queue` goes on to the
next call regardless.  Failures of the clients' own commands change
nothing, so they are left out.  SETEX's 300 s expiry is also left out.

### WsPongServer

`WsPongServer` models lab 1.4's `PongServer` (`pong_server.h`).  Its
state is:

- the two slots (player, session, Empty / Active / Reconnecting);
- each session's role, hellos and input sequence;
- the issued player ids;
- the pending input acks under `session_mutex_`;
- the game's tick and directions.

The actions are:

- `Accept`, `Hello` and `Close` are the session handlers on the I/O
  thread.
- `handle_input` is `InputStart` (set the direction and take a snapshot)
  followed by `InputRecord` (the pending ack, under the lock).  The game
  loop's `Update`, `Broadcast` and `Cleanup` (`cleanup_reconnect_timeouts`)
  can run between the two.

Two simplifications are made:

- `InputStart` takes `set_player_direction` and `snapshot` as one step,
  although they are two sections of the game's mutex
  (`pong_server.h:352-353`).  An `Update` between them makes the
  snapshot's tick, and so the ack's target, one later.  The ack then
  still shows the new direction, so the race that `AckShowsDirection`
  finds is not hidden.
- `Cleanup` may run at any update.  The code calls it only when
  `tick % 60 == 0`, with a 10 s timeout.  This over-approximates: every
  interleaving of the code is in the model.

`pong_server.h` does not compile as written:

- `snapshot` is used before it is declared (554);
- `paddles` is undeclared (384);
- `stop()` names `left_player_` and `right_player_`.

The model follows the evident intent of each line.

`Spec` has no fairness, because only safety is checked.

### WsPongMetricsClient

`WsPongMetricsClient` extends `WsPongServer` with the lab's metrics client
(`metrics_client.cpp`) on one connection, `MetricsSession`.  Its state is
`capture_metrics`'s locals (where the client is, its role, `hello_sent`,
`awaiting_ack`, `input_seq`, and how many intervals and latencies it holds)
and the messages between the two sides:

- `out`, the one message written and not yet handled.  The client writes
  the next input only after the ack of the last, so one slot is enough.
- what the server sent and the client has not read, kept by kind: the
  welcome's role, a count of states, the seqs of input-acks, and the
  metrics reply.  Handling one kind does not depend on how many of another
  were read, so any reading order reaches the same client states as the
  socket's FIFO order.

The client's actions are one pass of each loop: `WriteHello`,
`ReadWelcome`, `ReadState` and `ReadAck`, each ending with
`send_next_command` (`SendNext`).  Then come `WriteRequest`,
`ReadToMetrics`, and `ReadFails` when the server closed the connection.
The server handles the client's messages with `WsPongServer`'s own
actions for that session: `ServeHello` (`Hello`), `ServeInput`
(`InputStart`, after which `InputRecord` runs as for any session) and
`ServeMetrics`.  `BroadcastToClient` is `Broadcast`, and it also delivers
the state and the client's due ack.  Every other session runs `ServerStep`.
"roles" messages are left out: they carry no `role` field, so the client
ignores them.  `SysSpec` composes the two sides without fairness.

### RoomManager

`RoomManager` models `mini::RoomManager` (`room_manager.cpp`) over Redis.
Redis is three functions, one per key family:

- `hash`: `room:{id}`, its fields and whether it has a TTL;
- `ckpt`: `room:{id}:checkpoint`;
- `sess`: `session:{token}`.

A key whose expiry time is not after `now` is gone.  Each method is one
action per Redis command:

- `RegisterHmset` then `RegisterExpire` (`register_room`);
- `UpdateRoomPlayers`;
- `ScanStart` (KEYS), `ScanKey` (one key, with `get_room`'s HGETALL) and
  `ScanEnd` (`get_available_room`);
- `StoreCheckpoint`;
- `CreateSession` and `DeleteSession`.

`Fates` is what can happen to a command:

- it gets a reply;
- the link dies and `redisCommand` returns NULL, with the command either
  applied or not;
- on a dropped link, `ensure_connected` throws before the command is sent.

The pong_udp server of each room calls `register_room` at start, and its
tick loop stores a checkpoint once a second.  `Tick` lets a second pass
only after that second's checkpoint.  `ServerStop` removes nothing from
Redis.  Nothing in the repository calls `update_room_players` or the
session methods.  They are modelled as calls any client may make.
`RoomInfo`'s members are not initialised, so `ScanKey` lets a field
missing from the hash take any value.

### EchoServer

`EchoServer` models lab 1.1's `net::EchoServer` (`echo_server.cpp`), with
`Socket::accept` (`socket.cpp`) and `main.cpp`'s signal handler.  The
main thread runs these actions:

- `Run`: `run()` up to `listen`;
- `LoopTest`, `Accept` and `AcceptFails`: `accept_loop`.  An accept on the
  closed socket throws, and the loop breaks once `running_` is false;
- `WaitSwap`, `Join` and `RunReturns`: `wait_for_clients`.  `Join(c)` is
  enabled only once thread `c` has ended.

Each connection's `handle_client` thread has two actions:

- `ClientLoopTest`: the `while (running_.load())` test;
- `Receive`: one blocking `receive`.  Zero bytes ends the thread.  A stop
  word calls `stop()` (`StopEffect`) and ends it.  Anything else is
  echoed and the loop goes on.

Clients connect, write chunks and hang up freely (`Connect`, `Write`,
`HangUp`).  `Signal` is Ctrl+C.  A chunk is `"stop"` or `"data"`: bytes and
the prefix are left out, since nothing reads them back.  Because of the
typo `"shuwdown\r\n"` at line 82, a telnet `shutdown` line is data; the
model does not need to tell it apart.

Fairness is weak on the main thread and on each client thread, which the
OS schedules.  Clients and signals get none.  `StopEndsRun` says that once
`stop()` has run, `run()` returns.  It is false (section 6), so it has no
run; `EchoServer.cfg` (two connections, two chunks each, 27,351 states)
reproduces it.

### TurnCombat

`TurnCombat` models lab 1.2, which runs four kinds of thread: the main
thread (`GameServer::run`: accept, wait for two players, join), one thread
per client (`handle_client` / `handle_command`), the `GameLoop` thread,
and the signal handler.

- **State.** The `GameState` fields are `connected`, `health`, `turn`,
  `gRunning`, `gameOver` and `winner`.  Alongside them are the loop's
  `commands` queue and the `local` copy it swaps into.  `srvRunning` is
  `GameServer::running_`, and `lpc`, `cpc` and `mainPc` are the threads'
  program counters.  `shown` is the status line of the last
  `broadcast_state`.
- **Actions.** Each `GameState` method holds the state mutex, so each is
  part of one atomic step.  The loop is split at every point where another
  thread can act:
  - `LoopStart` and `LoopHead`;
  - `TakeCommands` (the swap) and `ApplyCommand`;
  - `Update` (`advance_tick`);
  - `TickBroadcast`, then `EndTick` (the sleep and the game-over test);
  - `LoopExit` (the closing `broadcast_tick`).
- **Data.** Damage is drawn from `Damage`, for the random 5 to 15 of the
  code.
- **Fairness.** Weak fairness is given to the main and loop threads, and to
  client threads that are inside `handle_command` or whose socket `stop()`
  shut down.  These threads never block on the environment.  Typing,
  hanging up and signals are left to the environment.
- **Source defects.** The source does not compile as written: it uses
  `runner_`, `start_if_game` and `current_turn_player`, and lacks
  `<random>`.  The model follows the evident intent, and each place is
  commented.
- **Simplifications.**
  - `QuitStop` ends the client thread at once.  The code still handles the
    rest of the same receive buffer after QUIT
    (`game_server.cpp:285-293`).  No property depends on those commands.
  - `Signal` is an atomic step of its own.  A real handler runs on
    whichever thread it interrupts, and `stop()` locks `players_mutex_`
    (`game_server.cpp:232`).  A signal that lands on the loop thread
    inside `broadcast_state` (`:261`) deadlocks that thread on the mutex
    it already holds.  This is not modelled.  The weak fairness of the
    loop thread in `GameOverEndsLoop` assumes the loop thread is not
    interrupted this way.

### WsChat and JsonCodec

`WsChat` models lab 1.3.  `io_context ioc{1}` runs every handler on one
thread, so each handler is one atomic step.  A `send()` posts a lambda,
and the posted lambdas of a session run in order.

- **State.**
  - The session's phase, `nick`, `joined` (`joined_rooms_`) and `writeQ`
    (`write_queue_`).
  - `inflight`, the outstanding `async_write`.
  - The server's `registered` (`sessions_`), `rooms` (`rooms_`) and
    `members` (each `Room`'s members).
  - `posted`, the lambdas not yet run.
  - The ghosts `view` (the rooms a client believes it is in, from the
    JOINED and LEFT it received) and `last` (the last message it got).
- **Actions.**
  - `TcpAccept`, then `Handshake` or `HandshakeFail`.
  - One action per command: `Join`, `Leave`, `Say`, `Nick`, and `Query`
    for the commands that only reply.
  - `ReadError`.
  - `RunSend` (a posted lambda).
  - `WriteDone` and `WriteError`.
- **Data.** Messages are abstracted to their kind and room.

`JsonCodec` models the hand-written `make_payload`, `escape_json` and
`parse_json_object` character by character, because the codec is what
the property is about.  `MC_WsChat`'s `JsonRoundTrip` checks
`JsonCodecAgrees` once a frame has been posted.

## 4. Runs

Each run is an MC module and a `.cfg`.  `PROJECT.json` has the same list.

| Run | Configuration | Checks | Expect |
|---|---|---|---|
| transport_safety | `UdpTransport_safety.cfg` | `TypeOK`, `AckImpliesDelivered`, `PendingLifetimeBounded` | pass |
| transport_dup_at_window_edge | `UdpTransport_dup.cfg` | `NoDuplicateDelivery` | violation |
| server_roles_and_loop | `PongUdpServer.cfg` | `TypeOK`, `SideOwnsLatch`, `LoopCatchUpBounded`, `ExporterHistogramAgrees` | pass |
| server_ack_before_snapshot | `PongUdpServer_ackorder.cfg` | `AckBeforeSnapshot` | violation |
| snapshot_fresh_keyframe | `SnapshotCodec_nockpt.cfg` | `SysTypeOK`, `FreshKeyframeDecodes`, `DeltaRoundTrip`, `RollbackMatchesDrift` | pass |
| snapshot_checkpoint_breaks_cadence | `SnapshotCodec_ckpt.cfg` | `FreshKeyframeDecodes` | violation |
| matchmaker_failed_store_loses_player | `Matchmaker_safety.cfg` | `NoLostPlayer` | violation |
| matchmaker_match_after_leave | `Matchmaker_leave.cfg` | `NoAssignmentAfterLeave` | violation |
| wspong_awaited_ack | `WsPongServer_acks.cfg` | `TypeOK`, `ClientTypeOK`, `AwaitedAckNotLost` | pass |
| wspong_ack_reports_wrong_direction | `WsPongServer_race.cfg` | `AckShowsDirection` | violation |
| turncombat_battle | `TurnCombat.cfg` | `TypeOK`, `BattleBetweenStanding`, `WinnerStillStanding`, `ResultAnnounced`, `GameOverEndsLoop` | pass |
| wschat_rooms_and_writes | `WsChat.cfg` | `TypeOK`, `RoomRegistryAgrees`, `NoMessageOutsideRoom`, `OneWriteAtATime`, `JsonRoundTrip` | pass |

### What the passing runs show

- **Transport.** An ack header only ever covers payloads the peer's handler
  was given.  This holds through loss, reordering, lost acks, and resends
  whose fresh headers ack the other side's packets.  With two sends per
  endpoint the receive window cannot jump by the mask width.  So this run
  says nothing about duplicates, which `transport_dup_at_window_edge`
  shows do happen.  No pending packet stays in the map a whole update
  interval past `kTtl`: the TTL runs from `first_sent`, whatever the resends
  did to `last_sent`.
- **Netcode server.**
  - The world's left or right direction is only ever set by the client
    holding that slot.
  - `LoopCatchUpBounded`: however long the tick thread stalls, the loop
    calls the handler at most three times within one period.  The tick
    numbers count the calls, and every `dt` is positive.  The bound of
    three is tight: a stall of exactly two periods reaches it.
  - `ExporterHistogramAgrees`: the 0.5, 0.9 and 0.99 lines a scrape
    prints are the observations of rank `(size_t)(p * (n - 1))`, so they
    are ordered.  An empty histogram reports 0.  The bucket map counts
    exactly the observations at or below each bound it holds.
- **Snapshot codec.**
  - Without checkpoints, a decoder holding a keyframe at most one interval
    old decodes every later delta, whatever is lost or reordered.
  - `DeltaRoundTrip`: keyframes and deltas decode to the states they
    encode, for scores that need one or two bytes and for every direction.
    A buffer cut short, or a delta read as a keyframe, is refused.
  - `RollbackMatchesDrift`: the client reconciles every state its decoder
    yields while it keeps predicting.  Some authoritative states are newer
    than any reconciled before, for a tick the client predicted.  For each
    of these, `corrected_ticks` is exactly the number of predictions from
    that tick on when the prediction drifted, and 0 when it did not.  This
    holds when snapshots are lost or reordered.  It also holds when the
    client is behind the server, and when older states arrive late and are
    pruned.
- **WebSocket pong.**
  - `AwaitedAckNotLost`: while the metrics client waits for an ack and its
    connection is open, its input is still in flight or being handled, or
    its side's pending ack holds that input, or the ack was sent.  Three
    things could lose it: another session's close (`unregister_session`
    clears the side's ack whoever owns it), another input on the same side,
    or a broadcast that clears the ack before it is due.  None of them
    does, so the client's wait without a timeout is safe.
- **Turn combat.**
  - A running battle is always between two online, living players.
  - A declared winner is alive.
  - A finished game ends the loop thread.
  - `ResultAnnounced`: once the loop has stopped on `is_game_over()`, the
    last status line clients were sent is FINISHED with the real winner.
    This holds even when a player hangs up during the tick's sleep, after
    `RUNNING` was broadcast; only the closing `broadcast_tick` carries it.
- **Chat.**
  - The three room registries agree (`joined_rooms_`, each `Room`'s
    members, `rooms_`).
  - A client never gets a room's message outside the JOINED/LEFT it was
    sent.
  - One `async_write` is outstanding exactly while `write_queue_` is
    non-empty.
  - Every frame `make_payload` builds parses back to its fields.

### What the violations show

These are the findings in `PROJECT.json`:

- **`transport_dup_at_window_edge`: the `diff >= 32` bug**
  (`udp_transport.cpp:305`).  A receive window that jumps by exactly the
  mask width clears `ack_bits` and forgets the old `last_seq`.  A resend of
  it is then delivered twice.
- **`server_ack_before_snapshot`** (`pong_udp_server.cpp:160`).
  `set_player_input` runs before `send_ack`, outside any lock the tick
  thread takes.  So a snapshot reflecting the input can go out before its
  ServerAck, against spec section 5.
- **`snapshot_checkpoint_breaks_cadence`** (`pong_udp_server.cpp:88`).  The
  checkpoint's `encode_keyframe` moves `last_keyframe_tick_` to a tick
  clients only received as a delta.  A client that lost that delta cannot
  decode until the next keyframe, against spec section 4.4.
- **`matchmaker_failed_store_loses_player`** (`matchmaker.cpp:165`).
  `process_queue` ignores `store_room_assignment`'s result.  A pair whose
  SETEX fails is still removed from the queue by the two ZREMs, and the
  player has no `room_map` entry to find (8 states).
- **`matchmaker_match_after_leave`** (`matchmaker.cpp:131`).  A player that
  dequeues after the ZRANGE snapshot is still matched, and so is its
  opponent.
- **`wspong_ack_reports_wrong_direction`** (`pong_server.h:352`).  A tick
  between `handle_input`'s direction update and its pending-ack update
  makes `broadcast_state` ack the previous input with a direction the state
  no longer shows.

### Bounds, and why they are enough

- **Transport.**
  - Two endpoints, because the code keeps one independent `ClientState`
    per peer.
  - `SeqSpace = 8` and `AckBits = 2`, with two sends per endpoint.
    `Window = 1` makes the window-full refusal happen.  The timing
    constants are the code's: `MaxRetries = 5`, a 50 ms base retransmit
    and a 500 ms TTL, with `update()` every 50 ms.
  - These bounds reach loss, a retransmission of a delivered packet, a
    lost ack, reordering inside the window, and a refusal.  They also reach
    three resends of a packet that is lost every time, and its eviction
    at 500 ms.  `AckImpliesDelivered` is not checked past a sequence wrap.
    With four sequence numbers it fails (section 6).
  - The violation run uses three sends, so the window can jump by exactly
    `AckBits`.
- **Netcode server.** Three clients, so one is a spectator, with two
  inputs each, so inputs are reordered.
- **Tick loop.** A period of two clock units, so a reading can fall half a
  period late.  Six readings up to 10, i.e. five periods.  That is enough
  for stalls of one, two and more periods, a resync, and the back-to-back
  calls after them.
- **Exporter histogram.** Up to four observations of 0 to 3 against bounds
  1 and 2, which puts values below, on and above a bound.  Four
  observations reach the index arithmetic's edge cases.  For any n up to
  100, 0.99 picks the second-largest value and not the largest (index 0
  of 2, index 1 of 3).  0.5 lands between two values for an even n.
- **Snapshot codec.**
  - A keyframe every three ticks, seven ticks, and histories of three.
    Keyframes, deltas and history eviction all occur.
  - A checkpoint every two ticks falls both on and between keyframes.
  - The client may run two ticks ahead of the server, so it predicts
    ticks both before and after they are confirmed.  The reconciler's
    history of nine holds every prediction of the run, like the real
    120-entry history holds two seconds of predictions.  Eviction is
    covered in section 6.
  - `DeltaRoundTrip` uses scores {0, 1, 256}.  256 needs the second byte,
    and a drop from 256 gives a negative difference.  It also uses all
    three directions, and two position offsets with a distinct value per
    field, so a swap of two fields would show.
- **Matchmaker.** Three players.  The violation runs need one MMR, one
  room id and no restart.
- **WebSocket pong.**
  - The passing run uses two player connections and the metrics client,
    one hello and one input each, and two ticks.  The client needs one
    interval and one latency.  Two ticks let an input land between
    `Update` and `Broadcast`, where its ack is not yet due.  That is the
    case the `Cleared` mutants need.  Symmetry permutes the two players
    only.
  - The same configuration with two hellos per connection has 29 million
    states and takes seven minutes.  That is over the run budget, so it
    was checked once outside the runs, and all four invariants hold.
  - The violation run gives each player two inputs.
- **Room manager** (`RoomManager.cfg`, not a run).  One room, one token
  and one player.  The TTLs are scaled from 60 s and 30 s to 2 s and 1 s,
  keeping room TTL over checkpoint TTL over the one-second checkpoint
  period.  Three seconds is enough to outlive the room TTL.  One command
  may fail.  The whole space is 61,921 states.
- **Turn combat.**
  - Health 3 and damage 1 or 2, so battles end by death after two to five
    attacks, or by a hang-up.
  - Three ATTACK lines per player, and one signal.
- **Chat.**
  - Two sessions and two rooms, so they can share a room or not.
  - One contested nickname.
  - Two commands per client, so one can leave or close while the other's
    broadcast is still posted or queued.
  - `JsonRoundTrip` draws keys, values and types of up to two characters
    from `a`, `"`, `\` and newline, and includes the key "type".

`CHECK_DEADLOCK FALSE` is set only where the system really stops:

- the codec's `Stop`;
- `PongServer::stop` and closed sessions in the WebSocket pong server;
- `GameServer::run` returning;
- every chat client ceasing to send and every write completing.

## 5. Mutants

Each property of a passing run is broken by a plausible bug in the code it
is about.  The mutant replaces one mapped definition:

| Property | Definition | Mutant |
|---|---|---|
| transport `TypeOK` | `Send` | no `kMaxWindow` test |
| `AckImpliesDelivered` | `is_seq_acked` | `ack_bits` ignored |
| `PendingLifetimeBounded` | `expire_pending_locked` | TTL measured from `last_sent` |
| server `TypeOK`, `SideOwnsLatch` | `AssignSide` | right slot not checked |
| `LoopCatchUpBounded` | `Iterate` | no resync |
| `ExporterHistogramAgrees` | `percentile` | no `std::sort` |
| codec `SysTypeOK` | `store_state` | no eviction |
| `FreshKeyframeDecodes` | `encode` | delta against the previous tick |
| `DeltaRoundTrip` | `read_i16` | bytes read big-endian |
| `RollbackMatchesDrift` | `reconcile` | `corrected_ticks` one short |
| WebSocket pong `TypeOK` | `Register` | no id generated |
| `AwaitedAckNotLost` | `Cleared` | pending ack cleared even when not due |
| `ClientTypeOK` | `SendNext` | `awaiting_ack` not tested |
| combat `TypeOK` | `apply_damage` | health not floored at 0 |
| `WinnerStillStanding` | `apply_attack` | defender named winner |
| `BattleBetweenStanding` | `mark_player_disconnected` | `running_` left set |
| `GameOverEndsLoop` | `EndTick` | no game-over test |
| `ResultAnnounced` | `LoopExit` | no closing `broadcast_tick` |
| chat `TypeOK` | `StartsWrite` | off by one, `size() > 2` |
| `OneWriteAtATime` | `WriteDone` | next write not started |
| `RoomRegistryAgrees` | `LeaveRooms` | member not removed |
| `NoMessageOutsideRoom` | `Enqueue` | pushed to the front |
| `JsonRoundTrip` | `EscapeChar` | `"` not escaped |

## 6. Violations found but not recorded as runs

Fourteen more disagreements with the code's evident intent were found while
modelling.  The project keeps to twelve runs, so they are recorded as
hazards in `PROJECT.json`, and their properties stay in the modules.  For
the same reason, the hazards in `PROJECT.json` that a property would show
violated, rather than holding, have no property a run checks.  Besides
those below, these are:
- a peer restart;
- out-of-order inputs;
- two slots per session;
- pairing liveness;
- a room id collision.

- **`UdpTransport!AckImpliesDelivered` after a sequence wrap**
  (`udp_transport.cpp:351`).  It is checked with `SeqSpace = 4`,
  `AckBits = 1` and four sends, and fails in 7 states.
  1. A sends four packets; the fourth, reliable, gets sequence 0.
  2. B, which has received nothing, sends its first datagram.
     `compose_packet` writes ack = 0 for "nothing received".
  3. A's `handle_ack` takes that as an ack of sequence 0 and drops the
     pending packet, which B never delivered.
  In the code this needs one side to send 65,535 datagrams before the
  other sends anything.  That is unlikely in the pong server, which sends
  snapshots every tick.
- **`TimeSync!TargetMonotonic`** (`time_sync.cpp:18`).  Spec section
  4.6 says target's output is monotonic under monotonic input.  With
  ticks {0, 2, 4} and four calls, TLC finds:
  1. `observe(0, 4)` sets both offsets to 4.
  2. `target(2)` returns 6.
  3. `observe(2, 4)` moves both offsets to 3.8.
  4. `target(2)` returns 5.8, a step back at the same local time.

  `observe` moves `smoothed_offset_` by the same EMA as the estimate, so
  the two are always equal and the slew clamp in `target` never acts.
  With `observe` leaving the smoothed offset alone, the property holds.
- **`ServerMetrics!ExportedCountersMatchTransport`**
  (`pong_udp_server.cpp:325`).  Spec section 4.5 says the server exposes
  the transport's counters.  But `sample_counters` returns cumulative
  totals, and `update_prometheus_metrics` adds them to the exporter's
  counters every second.  TLC's counterexample:
  1. The first update samples a duplicates total of 1.
  2. The second update samples the same total of 1.
  3. `dropped_packets_total{reason="duplicates"}` is now 2.
  `retransmit_total` doubles the same way.
- **`ServerMetrics!EveryTickObservedOnce`** (`pong_udp_server.cpp:314`).
  Every recorded tick duration should reach the exporter's histogram once.
  Each update copies only the last `SampleWindow` durations.  On the
  undisturbed schedule 0, 2, ..., 16, with `Second = 7`:
  - the update at 8 covers five ticks, so those at 0 and 2 are never
    observed;
  - the update at 16 covers the ticks at 10, 12, 14 and 16, one more than
    the window, so the one at 10 is lost.
  In the code, 60 periods of 16666666 ns fall 40 ns short of a second.
  Whenever wake-up jitter makes an update cover 61 ticks, one duration is
  dropped.  After a stall, a second holds fewer ticks than the window, and
  durations are observed twice.

- **The room manager** (`room_manager.cpp`), under `RoomManager.cfg` with
  one property listed at a time:
  - `RoomListedWhileServed` fails in seven states.  The server registers its
    room and then keeps storing checkpoints.  After `RoomTTL` seconds,
    `room:{id}` expires while the server still runs, because nothing
    refreshes the "heartbeat" TTL (`pong_udp_server.cpp:73`).
  - `RoomKeyExpires` fails in two states.  HMSET is applied, but its reply
    is lost.  `register_room` returns false before EXPIRE, and the key has
    no TTL for good (`room_manager.cpp:82`).  EXPIRE's own reply can be
    lost the same way.
  - `AvailableRoomRegistered` fails in four states.
    1. `update_room_players` runs on a missing key, and HSET creates a
       hash holding only `player_count`.
    2. `get_available_room` lists that key.
    3. `get_room` fills a `RoomInfo` whose `max_players` and `is_active`
       were never set.  With garbage that passes the capacity test, the
       room is returned.
- **The metrics client as a spectator** (`metrics_client.cpp:194`).  In
  `WsPongMetricsClient`, TLC reaches this state in nine steps:
  1. Both players say hello first.
  2. The client is welcomed as `spectator`.
  3. It is now in its sampling loop with its connection open.
  `send_next_command` returns for a spectator, so it never writes an
  input, and no input-ack can come.  The loop waits for `latency_samples`
  latencies, so it never ends, and the tool hangs until the server closes
  the connection.
- **The tick loop's catch-up against spec section 4.3** (`game_loop.cpp:58`
  and `:75`).  The spec bounds `dt_observed` below by the period, and it
  resyncs once the loop is more than one period past `next_tick`.  The
  code does neither:
  - It tests the lag after advancing `next_tick`.  So a two-period stall
    gives three back-to-back calls, where the spec's rule gives two.
  - A conjunct `dt >= Period` in `CatchUpBounded` fails on the readings
    0, 3, 4.  The catch-up call at 4 gets a `dt` of half a period.
- **`ClientSync!RollbackMatchesDrift` with a short history**
  (`reconciliation.cpp:13`).  Checked with `RecHistory = 3` instead of 9,
  it fails:
  1. The snapshots after tick 2 are lost.
  2. The client predicts on to tick 5, so tick 2's prediction is evicted.
  3. The late state of tick 2 finds no prediction, and reconcile reports
     0 corrected ticks whatever the drift.
  With the real sizes, a snapshot must arrive 120 predictions late for
  this to happen.

- **`TurnCombat!StopEndsServer`** (`game_loop.h:50`): a liveness
  counterexample of 17 states.
  1. One player hangs up, the other joins, and a signal arrives.
  2. `stop()` clears `GameLoop::running_` before the loop thread's
     `run()` sets it to true.
  3. The loop then runs until a game-over that can never come, and
     `GameServer::run` waits in `join` forever.
- **`WsChat!UniqueNicknames`** (`websocket_session.cpp:26`): six states.
  1. Two connections are accepted.
  2. Session 1 opens and takes the nickname `user-2`.
  3. Session 2 opens with its default name `user-2`, which nobody
     checks, so two registered sessions share a name.
- **`EchoServer!StopEndsRun`** (`echo_server.cpp:119`): a liveness
  counterexample of 23 states under `EchoServer.cfg`.
  1. Two clients connect, and each gets a thread.
  2. Client 1 writes `exit`, and its thread calls `stop()`.  That shuts
     the listening socket and clears `running_`.
  3. The main thread leaves `accept_loop` and joins client 1's thread.
  4. Client 2 stays connected and writes nothing.  Its thread is blocked
     in `recv` and never tests `running_` again, so `join` waits forever
     and the server never exits.  Ctrl+C does no better: `stop()` does
     not touch client sockets.
- **`JsonCodec!TruncatedFrameRefused`** (`websocket_session.cpp:506`):
  `parse_json_object` returns success when the input ends in the
  ExpectCommaOrEnd state.  So a frame missing its closing `}` is accepted.

## 7. Not modelled, and why

- **Out of scope, pure I/O, or observability:**
  - the Prometheus exporter's HTTP thread.  `start` and `stop` are called
    once each (from the server's constructor and `stop`), and the accept
    loop only reads values through `get_metrics`, which is modelled;
  - the load generator (`loadgen`).  Its bots are independent UDP clients
    with timers and random inputs.  They share no state with each other,
    and the server side of each bot is what `PongUdpServer` models.
    What they add is rates and latency statistics, which TLC does not
    measure;
  - `metrics_client.cpp`'s `print_stats`, `percentile` and JSON helpers,
    which only format the results of `capture_metrics`;
  - the server's encode-time and payload-size vectors, which only its
    own accessors read.
- **The client's rollback:** the spec leaves rollback to the caller, and
  the client is not in the repository.  The model records each tick's
  prediction once.  `Reconciler` has no way to replace entries.  So a
  client that re-recorded its re-simulated predictions would hold two per
  tick, and `find_index` would match the stale one.
- **`GameLoop::start` and `stop` (C3):** the only caller, the `pong_udp`
  main thread, calls them one after the other and never concurrently.  So
  their compare-and-swap on `running_` meets no race to model.
- **Not implemented in the repository:** the arena, ray-tracing and
  video-editor files are headers, configuration and tests of code that is
  not here.
- **Transport:**
  - the socket, the counters and `start`/`stop`;
  - the backoff timing, which `Update` chooses freely;
  - a peer restart on the same address, listed as a hazard.
- **Physics:** floating-point physics is beyond TLC.  This includes
  `pong_game.h`, where positions and velocities are doubles and a paddle
  hit recomputes the ball's velocity with `sqrt`.  The models keep only
  its discrete outcomes: a tick, a direction, a score.
- **Float rounding in `DeltaCodec`:** its positions are small integers.
- **Chat:** the `weak_ptr` expiry of sessions, and `stop()`, which nothing
  calls.
- **Turn combat:** player names, the health bar text, and
  `last_action_`.
