---------------------------- MODULE PongUdpServer ----------------------------
(***************************************************************************)
(* apps::pong_udp::PongUdpServer                                           *)
(* (src/netcode-core/apps/pong_udp/pong_udp_server.cpp): the glue between  *)
(* the transport, the world and the tick loop.  Two server threads share   *)
(* the client table (clients_mutex_), the world (its own mutex) and the    *)
(* transport:                                                              *)
(*   - the I/O thread runs the transport's receive path, which calls       *)
(*     handle_datagram -> handle_input for each accepted Input datagram,   *)
(*     one at a time; handle_input is three steps: record client_seq under *)
(*     clients_mutex_, set the direction on the world, send the ServerAck; *)
(*   - the tick thread runs the tick lambda: world_.step, then             *)
(*     broadcast_snapshot (and the checkpoint and transport update, which  *)
(*     do not touch what this module tracks).                              *)
(* The transport hands an input datagram to handle_input maybe never and  *)
(* in any order (a second delivery at the transport's window edge is left  *)
(* out: it repeats the same input and ack).  A direction is                *)
(* the ghost identity <<client, client_seq>> of the input that set it.     *)
(***************************************************************************)
EXTENDS Naturals, FiniteSets

CONSTANTS
    Client,      \* peer addresses (endpoint_key values)
    NoClient,    \* the empty left_client_key_ / right_client_key_
    MaxInputs    \* bound: Input messages each client sends

ASSUME NoClient \notin Client /\ MaxInputs \in Nat \ {0}

Sides == {"Left", "Right"}
Input == Client \X (1..MaxInputs)
NoInput == <<NoClient, 0>>

VARIABLES
    nextSeq,        \* the client's next client_seq
    inFlight,       \* Input datagrams the transport has not handed over yet
    side,           \* clients_[c].side, "Unknown" while c is not in clients_
    lastClientSeq,  \* clients_[c].last_client_seq
    slotKey,        \* left_client_key_ and right_client_key_
    latch,          \* the world's left/right direction: input that set it
    io,             \* the I/O thread inside handle_input
    tickPc,         \* the tick thread: about to step or to broadcast
    stepped,        \* the WorldState the last world_.step returned
    acksSent,       \* ghost: inputs whose ServerAck was sent
    reflected       \* ghost: inputs reflected by a broadcast snapshot

vars == <<nextSeq, inFlight, side, lastClientSeq, slotKey, latch, io, tickPc,
          stepped, acksSent, reflected>>

Init ==
    /\ nextSeq = [c \in Client |-> 1]
    /\ inFlight = {}
    /\ side = [c \in Client |-> "Unknown"]
    /\ lastClientSeq = [c \in Client |-> 0]
    /\ slotKey = [s \in Sides |-> NoClient]
    /\ latch = [s \in Sides |-> NoInput]
    /\ io = [pc |-> "idle", input |-> NoInput, side |-> "Unknown"]
    /\ tickPc = "step"
    /\ stepped = [s \in Sides |-> NoInput]
    /\ acksSent = {}
    /\ reflected = {}

\* A client sends its next Input datagram.
ClientSend(c) ==
    /\ nextSeq[c] <= MaxInputs
    /\ inFlight' = inFlight \cup {<<c, nextSeq[c]>>}
    /\ nextSeq' = [nextSeq EXCEPT ![c] = @ + 1]
    /\ UNCHANGED <<side, lastClientSeq, slotKey, latch, io, tickPc, stepped,
                   acksSent, reflected>>

\* The transport loses an Input datagram (or drops it as old).
Lose ==
    \E i \in inFlight :
        /\ inFlight' = inFlight \ {i}
        /\ UNCHANGED <<nextSeq, side, lastClientSeq, slotKey, latch, io, tickPc,
                       stepped, acksSent, reflected>>

\* Mutant of ensure_client_locked: the right slot is taken without looking.
AssignSide_NoRightCheck(c) ==
    IF side[c] # "Unknown" THEN side[c]
    ELSE IF slotKey["Left"] = NoClient THEN "Left"
    ELSE "Right"

\* ensure_client_locked: a known client keeps its side; a new one takes the
\* left slot, else the right slot, else becomes a spectator.
AssignSide(c) ==
    IF side[c] # "Unknown" THEN side[c]
    ELSE IF slotKey["Left"] = NoClient THEN "Left"
    ELSE IF slotKey["Right"] = NoClient THEN "Right"
    ELSE "Spectator"

\* handle_datagram -> handle_input, first step: under clients_mutex_,
\* ensure_client_locked and last_client_seq = client_seq, then copy the
\* ClientInfo.
RecordInput ==
    /\ io.pc = "idle"
    /\ \E i \in inFlight :
        LET c == i[1]
            s == AssignSide(c)
        IN /\ inFlight' = inFlight \ {i}
           /\ side' = [side EXCEPT ![c] = s]
           /\ slotKey' = IF s \in Sides /\ side[c] = "Unknown"
                         THEN [slotKey EXCEPT ![s] = c] ELSE slotKey
           /\ lastClientSeq' = [lastClientSeq EXCEPT ![c] = i[2]]
           /\ io' = [pc |-> "apply", input |-> i, side |-> s]
    /\ UNCHANGED <<nextSeq, latch, tickPc, stepped, acksSent, reflected>>

\* handle_input, second step: world_.set_player_input for Left or Right.
ApplyInput ==
    /\ io.pc = "apply"
    /\ latch' = IF io.side \in Sides THEN [latch EXCEPT ![io.side] = io.input]
                ELSE latch
    /\ io' = [io EXCEPT !.pc = "ack"]
    /\ UNCHANGED <<nextSeq, inFlight, side, lastClientSeq, slotKey, tickPc,
                   stepped, acksSent, reflected>>

\* handle_input, last step: send_ack sends ServerAck{client_seq} reliably.
SendAck ==
    /\ io.pc = "ack"
    /\ acksSent' = acksSent \cup {io.input}
    /\ io' = [pc |-> "idle", input |-> NoInput, side |-> "Unknown"]
    /\ UNCHANGED <<nextSeq, inFlight, side, lastClientSeq, slotKey, latch,
                   tickPc, stepped, reflected>>

\* Tick lambda, first step: world_.step advances the world with the
\* latched directions and returns the new state.
TickStep ==
    /\ tickPc = "step"
    /\ stepped' = latch
    /\ tickPc' = "broadcast"
    /\ UNCHANGED <<nextSeq, inFlight, side, lastClientSeq, slotKey, latch, io,
                   acksSent, reflected>>

\* Tick lambda, rest: broadcast_snapshot sends the stepped state to every
\* client in clients_ (snapshot_clients), then the checkpoint and
\* transport_->update().
TickBroadcast ==
    /\ tickPc = "broadcast"
    /\ reflected' = IF \E c \in Client : side[c] # "Unknown"
                    THEN reflected \cup ({stepped[s] : s \in Sides} \ {NoInput})
                    ELSE reflected
    /\ tickPc' = "step"
    /\ UNCHANGED <<nextSeq, inFlight, side, lastClientSeq, slotKey, latch, io,
                   stepped, acksSent>>

Next ==
    \/ \E c \in Client : ClientSend(c)
    \/ Lose
    \/ RecordInput \/ ApplyInput \/ SendAck
    \/ TickStep \/ TickBroadcast

Spec == Init /\ [][Next]_vars

-----------------------------------------------------------------------------

TypeOK ==
    /\ nextSeq \in [Client -> 1..(MaxInputs + 1)]
    /\ inFlight \subseteq Input
    /\ side \in [Client -> {"Unknown", "Left", "Right", "Spectator"}]
    /\ lastClientSeq \in [Client -> 0..MaxInputs]
    /\ slotKey \in [Sides -> Client \cup {NoClient}]
    /\ \A s \in Sides : /\ slotKey[s] # NoClient => side[slotKey[s]] = s
                       /\ Cardinality({c \in Client : side[c] = s}) <= 1
    /\ latch \in [Sides -> Input \cup {NoInput}]
    /\ io.pc \in {"idle", "apply", "ack"}
    /\ tickPc \in {"step", "broadcast"}
    /\ stepped \in [Sides -> Input \cup {NoInput}]
    /\ acksSent \subseteq Input /\ reflected \subseteq Input

\* Role exclusivity across both threads: the world's left (right) direction
\* was only ever set by the client holding left_client_key_
\* (right_client_key_), although handle_input reads the side under
\* clients_mutex_ and applies it after releasing it.
SideOwnsLatch ==
    \A s \in Sides : latch[s] # NoInput => latch[s][1] = slotKey[s]

\* Spec section 5: the ServerAck for an input is sent before the snapshot
\* reflecting that input (handle_input's set_player_input / send_ack order
\* against the tick thread's step and broadcast).
AckBeforeSnapshot ==
    reflected \subseteq acksSent

=============================================================================
