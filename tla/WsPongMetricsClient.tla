------------------------- MODULE WsPongMetricsClient -------------------------
(***************************************************************************)
(* The lab 1.4 metrics client (src/game-server/gameserver-fundamentals/    *)
(* lab1.4-ws-pong/metrics_client.cpp) on one connection MetricsSession of  *)
(* the WebSocket pong server.  capture_metrics writes a hello, then loops  *)
(* reading one message at a time until it has TickSamples tick intervals  *)
(* and LatencySamples input latencies; send_next_command writes the next   *)
(* input of the cycle -1, 0, 1, 0 only while no input is awaiting its      *)
(* input-ack.  It then writes a metrics-request, reads until the "metrics" *)
(* reply and closes.                                                       *)
(*                                                                         *)
(* The server's side of the connection is WsPongServer's own actions for   *)
(* this session: its hello, input and metrics-request are handled by      *)
(* Hello, InputStart and send_metrics, one message at a time and in the    *)
(* order written; the client writes the next one only after the reply to  *)
(* the last, so one slot (out) holds what is in flight to the server.      *)
(* What the server sends the client is kept by kind: the welcome's role,  *)
(* the number of state messages and the seqs of input-acks not yet read,  *)
(* and whether the metrics reply was sent.  The client's handling of one  *)
(* kind does not depend on how many of another it has read, so reading    *)
(* them in any order reaches the same client states as FIFO order.  The   *)
(* "roles" notices change nothing in the client (their payload has no      *)
(* role field) and are left out, as are the timestamps.                    *)
(***************************************************************************)
EXTENDS WsPongServer, Sequences

CONSTANTS
    MetricsSession,   \* the connection the metrics client opened
    TickSamples,      \* tick_samples (600 by default)
    LatencySamples    \* latency_samples (20 by default)

ASSUME MetricsSession \in Session /\ TickSamples \in Nat /\ LatencySamples \in Nat

M == MetricsSession

\* command_cycle, indexed by command_index (0-based).
CommandCycle == <<-1, 0, 1, 0>>

NoMsg == [kind |-> "none"]

VARIABLES
    mPc,        \* where capture_metrics is
    mRole,      \* role, "Spectator" until a welcome sets it
    helloSent,  \* hello_sent: a welcome with a role was read
    awaiting,   \* awaiting_ack
    inputSeq,   \* input_seq, also command_index
    latencies,  \* input_latencies_ms.size()
    intervals,  \* tick_intervals_ms.size()
    seenState,  \* last_state_time has a value
    out,        \* the message written to the server and not yet handled
    welcomeIn,  \* the welcome's role, not yet read ("none" if there is none)
    statesIn,   \* state messages sent to the client and not yet read
    acksIn,     \* seqs of input-acks sent to the client and not yet read
    metricsIn   \* the "metrics" reply was sent and not yet read

client == <<mPc, mRole, helloSent, awaiting, inputSeq, latencies, intervals,
            seenState, out, welcomeIn, statesIn, acksIn, metricsIn>>
sysVars == <<vars, client>>

ClientInit ==
    /\ mPc = "connect"
    /\ mRole = "Spectator"
    /\ helloSent = FALSE
    /\ awaiting = FALSE
    /\ inputSeq = 0
    /\ latencies = 0
    /\ intervals = 0
    /\ seenState = FALSE
    /\ out = NoMsg
    /\ welcomeIn = "none"
    /\ statesIn = 0
    /\ acksIn = {}
    /\ metricsIn = FALSE

SysInit == Init /\ ClientInit

\* Mutant of send_next_command: the awaiting_ack check is dropped.
SendNext_NoAwaitCheck(r, hs, aw, seq, lat) ==
    IF hs /\ lat < LatencySamples /\ r # "Spectator"
    THEN [awaiting |-> TRUE, inputSeq |-> seq + 1,
          out |-> [kind |-> "input", seq |-> seq + 1,
                   dir |-> CommandCycle[(seq % 4) + 1]]]
    ELSE [awaiting |-> aw, inputSeq |-> seq, out |-> out]

\* send_next_command as a record of the client variables it sets: with a
\* role, after the welcome, no input awaiting and samples still to take,
\* the next input of the cycle is written and awaited.
SendNext(r, hs, aw, seq, lat) ==
    IF hs /\ ~aw /\ lat < LatencySamples /\ r # "Spectator"
    THEN [awaiting |-> TRUE, inputSeq |-> seq + 1,
          out |-> [kind |-> "input", seq |-> seq + 1,
                   dir |-> CommandCycle[(seq % 4) + 1]]]
    ELSE [awaiting |-> aw, inputSeq |-> seq, out |-> out]

\* The while loop's condition.
Sampling == intervals < TickSamples \/ latencies < LatencySamples

-----------------------------------------------------------------------------
(* The client *)

\* connect and handshake done (the server's Accept), the hello is written.
WriteHello ==
    /\ mPc = "connect" /\ conn[M] = "open"
    /\ mPc' = "loop"
    /\ out' = [kind |-> "hello"]
    /\ UNCHANGED <<vars, mRole, helloSent, awaiting, inputSeq, latencies, intervals,
                   seenState, welcomeIn, statesIn, acksIn, metricsIn>>

\* One pass of the loop reading the welcome: role is set and hello_sent,
\* send_next_command inside the branch (the one after it then does
\* nothing more).
ReadWelcome ==
    /\ mPc = "loop" /\ Sampling /\ welcomeIn # "none"
    /\ LET n == SendNext(welcomeIn, TRUE, awaiting, inputSeq, latencies)
       IN /\ mRole' = welcomeIn /\ helloSent' = TRUE
          /\ awaiting' = n.awaiting /\ inputSeq' = n.inputSeq /\ out' = n.out
    /\ welcomeIn' = "none"
    /\ UNCHANGED <<vars, mPc, latencies, intervals, seenState, statesIn, acksIn,
                   metricsIn>>

\* A pass reading a state: an interval is pushed once a state was seen and
\* while samples are wanted; then send_next_command.
ReadState ==
    /\ mPc = "loop" /\ Sampling /\ statesIn > 0
    /\ statesIn' = statesIn - 1
    /\ intervals' = IF seenState /\ intervals < TickSamples THEN intervals + 1
                    ELSE intervals
    /\ seenState' = TRUE
    /\ LET n == SendNext(mRole, helloSent, awaiting, inputSeq, latencies)
       IN awaiting' = n.awaiting /\ inputSeq' = n.inputSeq /\ out' = n.out
    /\ UNCHANGED <<vars, mPc, mRole, helloSent, latencies, welcomeIn, acksIn,
                   metricsIn>>

\* A pass reading an input-ack: awaiting_ack = false, its latency_ms
\* pushed while samples are wanted, then send_next_command.
ReadAck ==
    /\ mPc = "loop" /\ Sampling
    /\ \E q \in acksIn :
         LET lat == IF latencies < LatencySamples THEN latencies + 1 ELSE latencies
             n   == SendNext(mRole, helloSent, FALSE, inputSeq, lat)
         IN /\ acksIn' = acksIn \ {q}
            /\ latencies' = lat
            /\ awaiting' = n.awaiting /\ inputSeq' = n.inputSeq /\ out' = n.out
    /\ UNCHANGED <<vars, mPc, mRole, helloSent, intervals, seenState, welcomeIn,
                   statesIn, metricsIn>>

\* The loop is done: the metrics-request is written.
WriteRequest ==
    /\ mPc = "loop" /\ ~Sampling
    /\ mPc' = "request"
    /\ out' = [kind |-> "metrics-request"]
    /\ UNCHANGED <<vars, mRole, helloSent, awaiting, inputSeq, latencies, intervals,
                   seenState, welcomeIn, statesIn, acksIn, metricsIn>>

\* The second loop skips every other message until "metrics", then the
\* client closes the connection normally.  Only states can be skipped: the
\* first loop ends with latencies at its target, reached by reading the
\* ack of the last input, and no input is sent after it.
ReadToMetrics ==
    /\ mPc = "request"
    /\ \/ /\ statesIn > 0 /\ statesIn' = statesIn - 1
          /\ UNCHANGED <<acksIn, metricsIn, mPc>>
       \/ /\ metricsIn /\ metricsIn' = FALSE /\ mPc' = "done"
          /\ UNCHANGED <<statesIn, acksIn>>
    /\ UNCHANGED <<vars, mRole, helloSent, awaiting, inputSeq, latencies, intervals,
                   seenState, out, welcomeIn>>

\* The connection closed before the reply: ws.read throws and
\* capture_metrics ends with the exception (main returns 1).
ReadFails ==
    /\ mPc \in {"connect", "loop", "request"} /\ conn[M] = "closed"
    /\ welcomeIn = "none" /\ statesIn = 0 /\ acksIn = {} /\ ~metricsIn
    /\ mPc' = "failed"
    /\ UNCHANGED <<vars, mRole, helloSent, awaiting, inputSeq, latencies, intervals,
                   seenState, out, welcomeIn, statesIn, acksIn, metricsIn>>

-----------------------------------------------------------------------------
(* The server's handling of this connection *)

\* handle_hello for the client's hello, which carries its own player_id
\* ("metrics_client_" + a timestamp): the welcome with the role
\* register_session gave, then the initial state.
ServeHello ==
    /\ out.kind = "hello"
    /\ Hello(M, M)
    /\ out' = NoMsg
    /\ welcomeIn' = Register(M, M).side
    /\ statesIn' = statesIn + 1
    /\ UNCHANGED <<mPc, mRole, helloSent, awaiting, inputSeq, latencies, intervals,
                   seenState, acksIn, metricsIn>>

\* handle_input_command for the client's input.
ServeInput ==
    /\ out.kind = "input"
    /\ InputStart(M, out.dir)
    /\ out' = NoMsg
    /\ UNCHANGED <<mPc, mRole, helloSent, awaiting, inputSeq, latencies, intervals,
                   seenState, welcomeIn, statesIn, acksIn, metricsIn>>

\* send_metrics for the metrics-request: the "metrics" reply.
ServeMetrics ==
    /\ out.kind = "metrics-request"
    /\ ~io.busy /\ running /\ conn[M] = "open"
    /\ out' = NoMsg
    /\ metricsIn' = TRUE
    /\ UNCHANGED <<vars, mPc, mRole, helloSent, awaiting, inputSeq, latencies,
                   intervals, seenState, welcomeIn, statesIn, acksIn>>

\* broadcast_state: the state goes to every session in sessions_ (those
\* whose hello was handled and that have not closed), and the due
\* pending ack of the client's side to the client.
BroadcastToClient ==
    /\ Broadcast
    /\ statesIn' = IF hellos[M] > 0 /\ conn[M] = "open" THEN statesIn + 1 ELSE statesIn
    /\ acksIn' = acksIn \cup {pending[d].seq : d \in {e \in Sides : Due(e)
                                 /\ pending[e].session = M /\ conn[M] = "open"}}
    /\ UNCHANGED <<mPc, mRole, helloSent, awaiting, inputSeq, latencies, intervals,
                   seenState, out, welcomeIn, metricsIn>>

\* The server's actions on everyone else's connections, and the game loop.
Others == Session \ {M}

ServerStep ==
    /\ \/ \E s \in Session : Accept(s) \/ Close(s)
       \/ \E s \in Others : \E pid \in issued \cup {None} : Hello(s, pid)
       \/ \E s \in Others : \E dir \in Direction : InputStart(s, dir)
       \/ InputRecord \/ Update \/ Cleanup \/ Stop
    /\ UNCHANGED client

SysNext ==
    \/ ServerStep
    \/ ServeHello \/ ServeInput \/ ServeMetrics \/ BroadcastToClient
    \/ WriteHello \/ ReadWelcome \/ ReadState \/ ReadAck \/ WriteRequest
    \/ ReadToMetrics \/ ReadFails

SysSpec == SysInit /\ [][SysNext]_sysVars

-----------------------------------------------------------------------------

ClientTypeOK ==
    /\ mPc \in {"connect", "loop", "request", "done", "failed"}
    /\ mRole \in Roles /\ helloSent \in BOOLEAN /\ awaiting \in BOOLEAN
    /\ inputSeq \in 0..MaxInputs /\ latencies \in 0..LatencySamples
    /\ intervals \in 0..TickSamples /\ seenState \in BOOLEAN
    /\ out.kind \in {"none", "hello", "input", "metrics-request"}
    /\ welcomeIn \in Roles \cup {"none"}
    /\ statesIn \in 0..(MaxTick + MaxHellos) /\ acksIn \subseteq 1..MaxInputs
    /\ metricsIn \in BOOLEAN

\* The client waits for an input-ack (awaiting_ack) and writes nothing else
\* until it arrives, so the ack it waits for must never be lost while its
\* connection is open: its input is still on the way, or in handle_input,
\* or the pending ack of its side, or the ack was sent.  pending_left_ack_
\* and pending_right_ack_ are one per side, replaced by every input on
\* that side and dropped by every unregister_session of that side, and
\* broadcast_state clears them.
AwaitedAckNotLost ==
    (mPc = "loop" /\ awaiting /\ conn[M] = "open") =>
        \/ out.kind = "input"
        \/ io.busy /\ io.session = M
        \/ \E d \in Sides : /\ pending[d].on /\ pending[d].session = M
                            /\ pending[d].seq = inputSeq
        \/ inputSeq \in acksIn

=============================================================================
