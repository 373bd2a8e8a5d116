---------------------------- MODULE WsPongServer ----------------------------
(***************************************************************************)
(* pong::PongServer, the WebSocket pong server of lab 1.4                  *)
(* (src/gameserver-fundamentals/lab1.4-ws-pong/pong_server.h).  Two        *)
(* threads share the player slots and the pending input acks under         *)
(* session_mutex_, and the game under its own mutex:                       *)
(*   - the I/O thread (io_context with one thread) runs every Session's    *)
(*     handlers, one at a time: accept, hello, input, close;               *)
(*   - the game loop thread runs update, broadcast_state, and every so     *)
(*     often cleanup_reconnect_timeouts.                                   *)
(* handle_input sets the direction and takes a snapshot before it locks    *)
(* session_mutex_ to record the pending ack, so the game loop can run in   *)
(* between; the I/O thread is then inside that handler (io).  Message      *)
(* payloads, JSON and the ball physics are left out: the model keeps the   *)
(* tick and the directions each snapshot shows.  A generated player_id is  *)
(* the session's own name; a hello carries no id or one issued before.     *)
(***************************************************************************)
EXTENDS Integers, FiniteSets

CONSTANTS
    Session,     \* connections (their Session objects)
    None,        \* no player_id, no session in a slot
    MaxHellos,   \* bound: hello messages per session
    MaxInputs,   \* bound: input messages per session
    MaxTick      \* bound: game ticks

ASSUME None \notin Session

Sides == {"Left", "Right"}
Roles == Sides \cup {"Spectator"}
Direction == {-1, 1}
PlayerId == Session   \* "player_" + counter, one per hello without an id

VARIABLES
    conn,      \* Session::open_, and whether the connection was accepted yet
    role,      \* Session::role_
    hellos,    \* hello messages a session has sent
    seqs,      \* input messages a session has sent (the client's seq)
    slot,      \* left_slot_ and right_slot_: [player, session, status]
    issued,    \* player ids handed out in welcome messages
    input,     \* PongGame left_input_ / right_input_
    tick,      \* PongGame tick_counter_
    shown,     \* directions in the snapshot the last update returned
    pending,   \* pending_left_ack_ / pending_right_ack_
    io,        \* the I/O thread inside handle_input, after its snapshot
    running,   \* PongServer::running_
    loopPc,    \* the game loop: about to update or to broadcast
    acks       \* ghost: input-ack messages sent

vars == <<conn, role, hellos, seqs, slot, issued, input, tick, shown, pending,
          io, running, loopPc, acks>>

EmptySlot == [player |-> None, session |-> None, status |-> "Empty"]
NoAck == [session |-> None, target |-> 0, seq |-> 0, dir |-> 0, on |-> FALSE]
IoIdle == [busy |-> FALSE, session |-> None, side |-> "Left", dir |-> 0,
           seq |-> 0, snapTick |-> 0]

Init ==
    /\ conn = [s \in Session |-> "new"]
    /\ role = [s \in Session |-> "Spectator"]
    /\ hellos = [s \in Session |-> 0]
    /\ seqs = [s \in Session |-> 0]
    /\ slot = [d \in Sides |-> EmptySlot]
    /\ issued = {}
    /\ input = [d \in Sides |-> 0]
    /\ tick = 0
    /\ shown = [d \in Sides |-> 0]
    /\ pending = [d \in Sides |-> NoAck]
    /\ io = IoIdle
    /\ running = TRUE
    /\ loopPc = "update"
    /\ acks = {}

\* Session::on_accept: the handshake finished, open_ = true, first read.
Accept(s) ==
    /\ ~io.busy /\ running
    /\ conn[s] = "new"
    /\ conn' = [conn EXCEPT ![s] = "open"]
    /\ UNCHANGED <<role, hellos, seqs, slot, issued, input, tick, shown, pending,
                   io, running, loopPc, acks>>

\* Mutant of register_session: the player_id is not generated when the
\* hello carries none.
Register_NoGenerate(s, pid) ==
    LET back == {d \in Sides : slot[d].status = "Reconnecting" /\ pid # None
                                /\ slot[d].player = pid}
        free == {d \in Sides : slot[d].status = "Empty"}
        pick(S) == IF "Left" \in S THEN "Left" ELSE "Right"
    IN IF back # {} THEN [side |-> pick(back), id |-> pid]
       ELSE IF free # {} THEN [side |-> pick(free), id |-> pid]
       ELSE [side |-> "Spectator", id |-> pid]

\* register_session: a Reconnecting slot holding the hello's player_id is
\* taken back (left first); otherwise the id (given, or generated) takes
\* the first Empty slot, or the session is a spectator.
Register(s, pid) ==
    LET id == IF pid = None THEN s ELSE pid
        back == {d \in Sides : slot[d].status = "Reconnecting" /\ pid # None
                                /\ slot[d].player = pid}
        free == {d \in Sides : slot[d].status = "Empty"}
        pick(S) == IF "Left" \in S THEN "Left" ELSE "Right"
    IN IF back # {} THEN [side |-> pick(back), id |-> pid]
       ELSE IF free # {} THEN [side |-> pick(free), id |-> id]
       ELSE [side |-> "Spectator", id |-> id]

\* Session::handle_hello: register_session, then the welcome, notify_roles
\* and the initial state (messages, not modelled).
Hello(s, pid) ==
    /\ ~io.busy /\ running
    /\ conn[s] = "open" /\ hellos[s] < MaxHellos
    /\ LET r == Register(s, pid)
       IN /\ role' = [role EXCEPT ![s] = r.side]
          /\ slot' = IF r.side \in Sides
                     THEN [slot EXCEPT ![r.side] = [player |-> r.id, session |-> s,
                                                    status |-> "Active"]]
                     ELSE slot
          /\ issued' = (issued \cup {r.id}) \ {None}
    /\ hellos' = [hellos EXCEPT ![s] = @ + 1]
    /\ UNCHANGED <<conn, seqs, input, tick, shown, pending, io, running, loopPc,
                   acks>>

\* Session::handle_input_command -> PongServer::handle_input, up to the
\* lock: a spectator's input is dropped; a player's direction is set on
\* the game and a snapshot taken.
InputStart(s, dir) ==
    /\ ~io.busy /\ running
    /\ conn[s] = "open" /\ seqs[s] < MaxInputs
    /\ seqs' = [seqs EXCEPT ![s] = @ + 1]
    /\ IF role[s] = "Spectator"
       THEN UNCHANGED <<input, io>>
       ELSE /\ input' = [input EXCEPT ![role[s]] = dir]
            /\ io' = [busy |-> TRUE, session |-> s, side |-> role[s], dir |-> dir,
                      seq |-> seqs[s] + 1, snapTick |-> tick]
    /\ UNCHANGED <<conn, role, hellos, slot, issued, tick, shown, pending, running,
                   loopPc, acks>>

\* Mutant of the pending ack: acked at the tick of the snapshot itself.
AckTarget_SameTick(t) == t

\* pending.target_tick = snapshot.tick + 1
AckTarget(t) == t + 1

\* handle_input, under session_mutex_: the side's pending ack is replaced.
InputRecord ==
    /\ io.busy
    /\ pending' = [pending EXCEPT ![io.side] =
                     [session |-> io.session, target |-> AckTarget(io.snapTick),
                      seq |-> io.seq, dir |-> io.dir, on |-> TRUE]]
    /\ io' = IoIdle
    /\ UNCHANGED <<conn, role, hellos, seqs, slot, issued, input, tick, shown,
                   running, loopPc, acks>>

\* unregister_session(s, role): the slot, if it still holds this session,
\* becomes Reconnecting; the side's pending ack is dropped whoever it
\* belongs to.  The new [slot, pending].
unregister_session(s, d) ==
    [slot |-> IF d \in Sides /\ slot[d].session = s
              THEN [slot EXCEPT ![d] = [@ EXCEPT !.session = None,
                                                 !.status = "Reconnecting"]]
              ELSE slot,
     pending |-> IF d \in Sides THEN [pending EXCEPT ![d] = NoAck] ELSE pending]

\* Session::on_close (a read or write error, or the peer closing): open_ =
\* false, unregister_session with the session's role_, notify_roles.
Close(s) ==
    /\ ~io.busy
    /\ conn[s] = "open"
    /\ conn' = [conn EXCEPT ![s] = "closed"]
    /\ slot' = unregister_session(s, role[s]).slot
    /\ pending' = unregister_session(s, role[s]).pending
    /\ UNCHANGED <<role, hellos, seqs, issued, input, tick, shown, io, running,
                   loopPc, acks>>

\* game_loop: game_.update advances the tick and snapshots the inputs.
Update ==
    /\ running /\ loopPc = "update" /\ tick < MaxTick
    /\ tick' = tick + 1
    /\ shown' = input
    /\ loopPc' = "broadcast"
    /\ UNCHANGED <<conn, role, hellos, seqs, slot, issued, input, pending, io,
                   running, acks>>

\* The pending ack of side d is due in this broadcast.
Due(d) == pending[d].on /\ tick >= pending[d].target

\* Mutant of broadcast_state: pending = false outside the due check, so an
\* ack not yet due is dropped.
Cleared_Always(d) == [pending[d] EXCEPT !.on = FALSE]

\* The side's pending ack after broadcast_state: pending = false once due.
Cleared(d) == IF Due(d) THEN [pending[d] EXCEPT !.on = FALSE] ELSE pending[d]

\* broadcast_state: under session_mutex_, every due pending ack is taken
\* (an input-ack is sent if its session can still be locked) and cleared.
Broadcast ==
    /\ loopPc = "broadcast"
    /\ acks' = acks \cup {[session |-> pending[d].session, seq |-> pending[d].seq,
                           dir |-> pending[d].dir, side |-> d, tick |-> tick,
                           shown |-> shown[d]] :
                          d \in {e \in Sides : Due(e) /\ conn[pending[e].session] = "open"}}
    /\ pending' = [d \in Sides |-> Cleared(d)]
    /\ loopPc' = "update"
    /\ UNCHANGED <<conn, role, hellos, seqs, slot, issued, input, tick, shown, io,
                   running>>

\* cleanup_reconnect_timeouts, called from the game loop: a slot
\* Reconnecting for longer than reconnect_timeout_ (10 s) becomes Empty.
\* Time is not modelled: the timeout may have run out at any call.
Cleanup ==
    /\ running /\ loopPc = "update"
    /\ \E d \in Sides :
         /\ slot[d].status = "Reconnecting"
         /\ slot' = [slot EXCEPT ![d] = EmptySlot]
    /\ UNCHANGED <<conn, role, hellos, seqs, issued, input, tick, shown, pending,
                   io, running, loopPc, acks>>

\* PongServer::stop: running_ = false and the loop thread joined; the
\* sessions are closed afterwards (their on_close is Close).
Stop ==
    /\ running /\ loopPc = "update"
    /\ running' = FALSE
    /\ UNCHANGED <<conn, role, hellos, seqs, slot, issued, input, tick, shown,
                   pending, io, loopPc, acks>>

Next ==
    \/ \E s \in Session : Accept(s) \/ Close(s)
    \/ \E s \in Session : \E pid \in issued \cup {None} : Hello(s, pid)
    \/ \E s \in Session : \E dir \in Direction : InputStart(s, dir)
    \/ InputRecord
    \/ Update \/ Broadcast \/ Cleanup \/ Stop

Spec == Init /\ [][Next]_vars

-----------------------------------------------------------------------------

TypeOK ==
    /\ conn \in [Session -> {"new", "open", "closed"}]
    /\ role \in [Session -> Roles]
    /\ slot \in [Sides -> [player : PlayerId \cup {None}, session : Session \cup {None},
                           status : {"Empty", "Active", "Reconnecting"}]]
    /\ \A d \in Sides :
         /\ (slot[d].player = None) <=> (slot[d].status = "Empty")
         /\ (slot[d].session = None) <=> (slot[d].status # "Active")
    /\ issued \subseteq PlayerId
    /\ input \in [Sides -> Direction \cup {0}] /\ shown \in [Sides -> Direction \cup {0}]
    /\ tick \in 0..MaxTick
    /\ pending \in [Sides -> [session : Session \cup {None}, target : 0..(MaxTick + 1),
                              seq : 0..MaxInputs, dir : Direction \cup {0}, on : BOOLEAN]]
    /\ loopPc \in {"update", "broadcast"}

\* An input-ack tells the client its direction was applied at applied_tick:
\* the state broadcast with that tick shows the acknowledged direction,
\* although handle_input sets the direction, snapshots and records the
\* pending ack in three steps the game loop can run between.
AckShowsDirection ==
    \A a \in acks : a.shown = a.dir

=============================================================================
