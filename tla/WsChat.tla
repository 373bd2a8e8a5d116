------------------------------- MODULE WsChat -------------------------------
(***************************************************************************)
(* The WebSocket chat lab (src/game-server/gameserver-fundamentals/lab1.3- *)
(* ws-chat): ws::WebSocketServer, ws::WebSocketSession and ws::Room.  The *)
(* io_context has one thread (main.cpp: ioc{1}, one ioc.run()), so every  *)
(* completion handler runs alone and whole: the TCP accept, a session's   *)
(* handshake, one read (handle_command and the next do_read), one write   *)
(* completion, and each lambda that send() posts.  What is left to order  *)
(* is which ready handler runs next: the network decides when a read or   *)
(* a write completes, and posted sends run in the order they were posted. *)
(*                                                                         *)
(* Sessions are numbered by next_session_id, and a session's default      *)
(* nickname "user-<n>" is the number n; rooms are numbered in std::set    *)
(* order.  A message is its type and room: JOINED, LEFT and MSG carry a   *)
(* room, every other reply (INFO, ERROR, NICK_OK, ROOM_LIST, MEMBER_LIST) *)
(* is OTHER.  WebSocketServer::stop is not modelled: nothing calls it.    *)
(***************************************************************************)
EXTENDS Naturals, FiniteSets, Sequences, SequencesExt

CONSTANTS
    Session,      \* 1..N: the sessions the acceptor creates, in order
    Room,         \* room ids (numbers, in std::set order)
    NickName,     \* names NICK commands ask for (n is "user-<n>")
    MaxCommands,  \* bound: commands each client sends
    NoRoom        \* the room of an OTHER message

ASSUME NoRoom \notin Room

Msg == [kind : {"JOINED", "LEFT", "MSG", "OTHER"}, room : Room \cup {NoRoom}]
Other == [kind |-> "OTHER", room |-> NoRoom]
RoomMsg(k, r) == [kind |-> k, room |-> r]

VARIABLES
    created,    \* sessions created so far (next_session_id - 1)
    phase,      \* "none", "handshake", "open" (open_), "closed"
    reading,    \* an async_read is outstanding
    nick,       \* nickname_
    registered, \* the live entries of the server's sessions_
    joined,     \* each session's joined_rooms_
    rooms,      \* the keys of the server's rooms_
    members,    \* each Room's members_
    posted,     \* send() lambdas posted to each session, oldest first
    writeQ,     \* each session's write_queue_
    inflight,   \* async_write operations outstanding per session
    view,       \* ghost: rooms the client was told JOINED and not LEFT
    last,       \* ghost: the last message written to each client
    cmds        \* commands each client sent

vars == <<created, phase, reading, nick, registered, joined, rooms, members,
          posted, writeQ, inflight, view, last, cmds>>

Init ==
    /\ created = 0
    /\ phase = [s \in Session |-> "none"]
    /\ reading = [s \in Session |-> FALSE]
    /\ nick = [s \in Session |-> s]
    /\ registered = {}
    /\ joined = [s \in Session |-> {}]
    /\ rooms = {}
    /\ members = [r \in Room |-> {}]
    /\ posted = [s \in Session |-> << >>]
    /\ writeQ = [s \in Session |-> << >>]
    /\ inflight = [s \in Session |-> 0]
    /\ view = [s \in Session |-> {}]
    /\ last = [s \in Session |-> Other]
    /\ cmds = [s \in Session |-> 0]

\* The posted sends after send(m) to every session of `to`: one lambda each.
Post(p, to, m) == [t \in Session |-> IF t \in to THEN Append(p[t], m) ELSE p[t]]

\* The posted sends after one broadcast_to_room per room of `rs`, in
\* std::set order, each to the room's members other than `sender`.
PostRooms(p, rs, mem, sender, kind) ==
    [t \in Session |->
        p[t] \o SetToSortSeq({RoomMsg(kind, r) : r \in {x \in rs : t \in mem[x] \ {sender}}},
                             LAMBDA a, b : a.room < b.room)]

\* WebSocketServer::join_room: get_or_create_room adds the room to rooms_
\* if needed, Room::join puts the session in members_ once.
JoinRoom(mem, s, r) == [mem EXCEPT ![r] = @ \cup {s}]

\* Mutant of Room::leave: the member is not erased.
LeaveRooms_KeepMember(mem, s, rs) == mem

\* WebSocketServer::leave_room for session s and each room of rs:
\* Room::leave, then remove_room_if_empty erases a room left with no
\* members from rooms_.
LeaveRooms(mem, s, rs) == [r \in Room |-> IF r \in rs THEN mem[r] \ {s} ELSE mem[r]]
Emptied(mem, rs) == {r \in rs : mem[r] = {}}

NoSender == 0

\* WebSocketServer::register_session and unregister_session: sessions_
\* gains the session, or loses it (and every expired weak_ptr).
register_session(reg, s) == reg \cup {s}
unregister_session(reg, s) == reg \ {s}

\* WebSocketServer::is_nickname_available: no other live session in
\* sessions_ has the name.
NickAvailable(s, n) == ~\E t \in registered \ {s} : nick[t] = n

\* WebSocketSession::leave_all_rooms: joined_rooms_ is copied and cleared,
\* then per room leave_room (Room::leave, and remove_room_if_empty) and a
\* "left the room" MSG to the members that remain.
leave_all_rooms(s) ==
    LET mem == LeaveRooms(members, s, joined[s])
    IN /\ joined' = [joined EXCEPT ![s] = {}]
       /\ members' = mem
       /\ rooms' = rooms \ Emptied(mem, joined[s])
       /\ posted' = PostRooms(posted, joined[s], mem, s, "MSG")

\* WebSocketSession::on_close on an open session: open_ = false,
\* leave_all_rooms, unregister_session.  On a session no longer open it
\* does nothing.
on_close(s) ==
    IF phase[s] = "open"
    THEN /\ phase' = [phase EXCEPT ![s] = "closed"]
         /\ leave_all_rooms(s)
         /\ registered' = unregister_session(registered, s)
    ELSE UNCHANGED <<phase, joined, members, rooms, posted, registered>>

\* WebSocketServer::on_accept: a TCP connection makes a WebSocketSession
\* (the next session id) and run() starts the WebSocket handshake.
TcpAccept ==
    /\ created < Cardinality(Session)
    /\ LET s == created + 1
       IN phase' = [phase EXCEPT ![s] = "handshake"]
    /\ created' = created + 1
    /\ UNCHANGED <<reading, nick, registered, joined, rooms, members, posted,
                   writeQ, inflight, view, last, cmds>>

\* WebSocketSession::on_accept without error: open_, register_session, the
\* two INFO sends, and the first do_read.
Handshake(s) ==
    /\ phase[s] = "handshake"
    /\ phase' = [phase EXCEPT ![s] = "open"]
    /\ registered' = register_session(registered, s)
    /\ posted' = [posted EXCEPT ![s] = @ \o <<Other, Other>>]
    /\ reading' = [reading EXCEPT ![s] = TRUE]
    /\ UNCHANGED <<created, nick, joined, rooms, members, writeQ, inflight,
                   view, last, cmds>>

\* WebSocketSession::on_accept with an error: fail() and return; the
\* session is dropped.
HandshakeFail(s) ==
    /\ phase[s] = "handshake"
    /\ phase' = [phase EXCEPT ![s] = "closed"]
    /\ UNCHANGED <<created, reading, nick, registered, joined, rooms, members,
                   posted, writeQ, inflight, view, last, cmds>>

\* on_read with a message: the command is handled and do_read re-armed.
Command(s) ==
    /\ phase[s] = "open" /\ reading[s]
    /\ cmds[s] < MaxCommands
    /\ cmds' = [cmds EXCEPT ![s] = @ + 1]

\* handle_join: an empty room id, or one already in joined_rooms_, is an
\* ERROR; otherwise insert it, join_room (get_or_create_room, Room::join),
\* send JOINED, and broadcast "joined the room" to the other members.
Join(s, r) ==
    /\ Command(s)
    /\ IF r \in joined[s]
       THEN /\ posted' = Post(posted, {s}, Other)
            /\ UNCHANGED <<joined, rooms, members>>
       ELSE LET mem == JoinRoom(members, s, r)
            IN /\ joined' = [joined EXCEPT ![s] = @ \cup {r}]
               /\ rooms' = rooms \cup {r}
               /\ members' = mem
               /\ posted' = Post(Post(posted, {s}, RoomMsg("JOINED", r)),
                                 mem[r] \ {s}, RoomMsg("MSG", r))
    /\ UNCHANGED <<created, phase, reading, nick, registered, writeQ, inflight,
                   view, last>>

\* handle_leave: a room not in joined_rooms_ is an ERROR; otherwise erase
\* it, leave_room (Room::leave, remove_room_if_empty), send LEFT, and
\* broadcast "left the room" if the room still exists.
Leave(s, r) ==
    /\ Command(s)
    /\ IF r \notin joined[s]
       THEN /\ posted' = Post(posted, {s}, Other)
            /\ UNCHANGED <<joined, rooms, members>>
       ELSE LET mem == LeaveRooms(members, s, {r})
            IN /\ joined' = [joined EXCEPT ![s] = @ \ {r}]
               /\ members' = mem
               /\ rooms' = rooms \ Emptied(mem, {r})
               /\ posted' = PostRooms(Post(posted, {s}, RoomMsg("LEFT", r)),
                                      {r}, mem, s, "MSG")
    /\ UNCHANGED <<created, phase, reading, nick, registered, writeQ, inflight,
                   view, last>>

\* handle_message: ERROR unless the room is in joined_rooms_; otherwise
\* the MSG is sent to the sender itself and broadcast to the others.
Say(s, r) ==
    /\ Command(s)
    /\ posted' = IF r \notin joined[s] THEN Post(posted, {s}, Other)
                 ELSE PostRooms(Post(posted, {s}, RoomMsg("MSG", r)),
                                {r}, members, s, "MSG")
    /\ UNCHANGED <<created, phase, reading, nick, registered, joined, rooms,
                   members, writeQ, inflight, view, last>>

\* handle_nick: ERROR when another registered session has the name;
\* otherwise nickname_ = name, NICK_OK, and a server MSG to every member
\* (the sender included) of each joined room.
Nick(s, n) ==
    /\ Command(s)
    /\ IF ~NickAvailable(s, n)
       THEN /\ posted' = Post(posted, {s}, Other)
            /\ UNCHANGED nick
       ELSE /\ nick' = [nick EXCEPT ![s] = n]
            /\ posted' = PostRooms(Post(posted, {s}, Other), joined[s],
                                   members, NoSender, "MSG")
    /\ UNCHANGED <<created, phase, reading, registered, joined, rooms, members,
                   writeQ, inflight, view, last>>

\* Every other command: invalid JSON, a missing field, an empty room,
\* LIST_ROOMS, LIST_MEMBERS or an unknown cmd: one reply, nothing changed.
Query(s) ==
    /\ Command(s)
    /\ posted' = Post(posted, {s}, Other)
    /\ UNCHANGED <<created, phase, reading, nick, registered, joined, rooms,
                   members, writeQ, inflight, view, last>>

\* on_read with an error (closed, eof, aborted or another): on_close; no
\* further read.
ReadError(s) ==
    /\ reading[s]
    /\ reading' = [reading EXCEPT ![s] = FALSE]
    /\ on_close(s)
    /\ UNCHANGED <<created, nick, writeQ, inflight, view, last, cmds>>

\* Mutant of the posted send lambda: a write is started while two
\* messages are queued (size() > 2 for size() > 1).
StartsWrite_OffByOne(q) == Len(q) <= 2

\* The posted lambda starts async_write when the message it pushed is
\* alone in write_queue_ (write_queue_.size() > 1 returns early).
StartsWrite(q) == Len(q) = 1

\* Mutant of the posted send lambda: the message goes to the front.
Enqueue_Front(q, m) == <<m>> \o q

\* write_queue_.push_back(message)
Enqueue(q, m) == Append(q, m)

\* A lambda posted by send() runs: dropped when the session is no longer
\* open_, else pushed to write_queue_, and written at once when no write
\* is outstanding.
RunSend(s) ==
    /\ posted[s] # << >>
    /\ posted' = [posted EXCEPT ![s] = Tail(@)]
    /\ IF phase[s] = "open"
       THEN LET q == Enqueue(writeQ[s], Head(posted[s]))
            IN /\ writeQ' = [writeQ EXCEPT ![s] = q]
               /\ inflight' = IF StartsWrite(q) THEN [inflight EXCEPT ![s] = @ + 1]
                              ELSE inflight
       ELSE UNCHANGED <<writeQ, inflight>>
    /\ UNCHANGED <<created, phase, reading, nick, registered, joined, rooms,
                   members, view, last, cmds>>

\* What the client makes of a message it receives.
Seen(v, m) ==
    CASE m.kind = "JOINED" -> v \cup {m.room}
      [] m.kind = "LEFT"   -> v \ {m.room}
      [] OTHER             -> v

\* Mutant of on_write: the next queued message is not written.
WriteDone_NoRestart(s) ==
    /\ inflight[s] > 0
    /\ LET m == Head(writeQ[s])
           q == Tail(writeQ[s])
       IN /\ writeQ' = [writeQ EXCEPT ![s] = q]
          /\ inflight' = [inflight EXCEPT ![s] = @ - 1]
          /\ view' = [view EXCEPT ![s] = Seen(@, m)]
          /\ last' = [last EXCEPT ![s] = m]
    /\ UNCHANGED <<created, phase, reading, nick, registered, joined, rooms,
                   members, posted, cmds>>

\* on_write without error: the front message has reached the client; pop
\* it, and write the next one if the queue is not empty.
WriteDone(s) ==
    /\ inflight[s] > 0
    /\ LET m == Head(writeQ[s])
           q == Tail(writeQ[s])
       IN /\ writeQ' = [writeQ EXCEPT ![s] = q]
          /\ inflight' = [inflight EXCEPT ![s] = @ - 1 + (IF q # << >> THEN 1 ELSE 0)]
          /\ view' = [view EXCEPT ![s] = Seen(@, m)]
          /\ last' = [last EXCEPT ![s] = m]
    /\ UNCHANGED <<created, phase, reading, nick, registered, joined, rooms,
                   members, posted, cmds>>

\* on_write with an error other than operation_aborted: fail and
\* on_close; the queue is left as it is and nothing more is written.
WriteError(s) ==
    /\ inflight[s] > 0
    /\ inflight' = [inflight EXCEPT ![s] = @ - 1]
    /\ on_close(s)
    /\ UNCHANGED <<created, reading, nick, writeQ, view, last, cmds>>

Next ==
    \/ TcpAccept
    \/ \E s \in Session :
        \/ Handshake(s) \/ HandshakeFail(s)
        \/ \E r \in Room : Join(s, r) \/ Leave(s, r) \/ Say(s, r)
        \/ \E n \in NickName : Nick(s, n)
        \/ Query(s) \/ ReadError(s)
        \/ RunSend(s) \/ WriteDone(s) \/ WriteError(s)

Spec == Init /\ [][Next]_vars

-----------------------------------------------------------------------------

TypeOK ==
    /\ created \in 0..Cardinality(Session)
    /\ phase \in [Session -> {"none", "handshake", "open", "closed"}]
    /\ reading \in [Session -> BOOLEAN]
    /\ nick \in [Session -> Session \cup NickName]
    /\ registered \subseteq Session
    /\ joined \in [Session -> SUBSET Room]
    /\ rooms \subseteq Room
    /\ members \in [Room -> SUBSET Session]
    /\ posted \in [Session -> Seq(Msg)]
    /\ writeQ \in [Session -> Seq(Msg)]
    /\ inflight \in [Session -> 0..1]
    /\ view \in [Session -> SUBSET Room] /\ last \in [Session -> Msg]
    /\ cmds \in [Session -> 0..MaxCommands]

\* The three records of who is in which room agree after every handler:
\* a session's joined_rooms_, the Room's members_ and the server's rooms_
\* (a room exists exactly while it has members), through join, leave and
\* the leave_all_rooms of on_close, whichever of read or write fails.
RoomRegistryAgrees ==
    /\ \A s \in Session, r \in Room : s \in members[r] <=> r \in joined[s]
    /\ \A r \in Room : r \in rooms <=> members[r] # {}
    /\ \A r \in Room : members[r] \subseteq registered

\* A client only ever receives a room's MSG while, by the JOINED and LEFT
\* it has received, it is in that room: the posts of broadcast_to_room
\* and of the session's own handlers reach it in order through the
\* posted lambdas and write_queue_.
NoMessageOutsideRoom ==
    \A s \in Session : last[s].kind = "MSG" => last[s].room \in view[s]

\* At most one async_write is outstanding on an open session, and one is
\* outstanding exactly while write_queue_ holds messages: the Beast
\* stream's one-write-at-a-time rule, kept by the size() > 1 test and
\* on_write's restart.
OneWriteAtATime ==
    \A s \in Session : phase[s] = "open" => (inflight[s] = 1 <=> writeQ[s] # << >>)

\* Nicknames of registered sessions are distinct: handle_nick refuses a
\* name another registered session holds.
UniqueNicknames ==
    \A s, t \in registered : s # t => nick[s] # nick[t]

=============================================================================
