------------------------------ MODULE RoomManager ------------------------------
(***************************************************************************)
(* mini::RoomManager (src/game-server/netcode-core/match/room_manager.cpp) *)
(* over Redis.  Each room has one pong_udp server, which calls             *)
(* register_room(room_id, addr, 2, 60) once in PongUdpServer::start and    *)
(* then, from the tick loop, store_checkpoint(room_id, keyframe, 30) every *)
(* CHECKPOINT_INTERVAL_TICKS = 60 ticks, i.e. once a second.  A lookup     *)
(* client runs get_available_room, and any client may call                 *)
(* update_room_players and the session methods, which the repository       *)
(* declares but never calls.                                               *)
(*                                                                         *)
(* Redis is the functions hash, ckpt and sess, one per key family; a key   *)
(* with an expiry time at or before now is gone, as Redis makes it.  Time  *)
(* is whole seconds.  Every command goes through ensure_connected and      *)
(* redisCommand: a dropped link is reconnected (which can throw), and a    *)
(* command can return NULL after the link dies, applied by Redis or not.   *)
(* Addresses, payloads and player ids are model values.                    *)
(***************************************************************************)
EXTENDS Naturals

CONSTANTS
    Rooms,          \* room ids, one server each
    Tokens,         \* session tokens
    Players,        \* player ids
    NoRoom,         \* get_available_room's nullopt
    RoomTTL,        \* register_room's ttl_seconds (60)
    CheckpointTTL,  \* store_checkpoint's ttl_seconds (30)
    SessionTTL,     \* create_session's ttl_seconds (86400)
    MaxPlayers,     \* register_room's max_players (2)
    MaxTime,        \* bound: seconds of the run
    MaxFailures     \* bound: commands that fail

Fields == {"addr", "max_players", "player_count", "is_active"}
\* A room hash; ttl is FALSE while the key has no expiry.
NoHash == [fields |-> {}, count |-> 0, max |-> 0, active |-> FALSE, ttl |-> FALSE, exp |-> 0]
NoSession == [player |-> NoRoom, expires |-> 0, exp |-> 0]

VARIABLES
    now,        \* the clock, in seconds
    link,       \* impl_->ctx: "up", or "down" after an error
    failures,   \* commands that failed so far
    hash,       \* room:{id}
    ckpt,       \* room:{id}:checkpoint, its expiry time (0: absent)
    sess,       \* session:{token}
    srvPc,      \* each room server: "start", "expire", "running", "stopped"
    ckptDue,    \* the tick loop owes this second's store_checkpoint
    regOk,      \* register_room returned true
    cliPc,      \* the lookup client: "idle" or "scan"
    scan,       \* the KEYS room:* reply not yet looked at
    found,      \* the room get_available_room returned last
    foundWhole  \* that room's hash held every field register_room writes

vars == <<now, link, failures, hash, ckpt, sess, srvPc, ckptDue, regOk, cliPc,
          scan, found, foundWhole>>

HashLive(r) == hash[r].fields # {} /\ (~hash[r].ttl \/ now < hash[r].exp)
CkptLive(r) == now < ckpt[r]

\* The fate of one command: a reply; the link dying with the command
\* applied or not (redisCommand returns NULL); or, on a dropped link,
\* ensure_connected throwing before the command is sent.
Fates ==
    IF failures < MaxFailures
    THEN {"reply", "lost_applied", "lost_unapplied"}
         \cup (IF link = "down" THEN {"refused"} ELSE {})
    ELSE {"reply"}
Applied(f) == f \in {"reply", "lost_applied"}
AfterCommand(f) ==
    /\ link' = IF f = "reply" THEN "up" ELSE "down"
    /\ failures' = IF f = "reply" THEN failures ELSE failures + 1

Init ==
    /\ now = 0 /\ link = "up" /\ failures = 0
    /\ hash = [r \in Rooms |-> NoHash]
    /\ ckpt = [r \in Rooms |-> 0]
    /\ sess = [t \in Tokens |-> NoSession]
    /\ srvPc = [r \in Rooms |-> "start"]
    /\ ckptDue = [r \in Rooms |-> TRUE]
    /\ regOk = [r \in Rooms |-> FALSE]
    /\ cliPc = "idle" /\ scan = {} /\ found = NoRoom /\ foundWhole = FALSE

\* HMSET room:{id} with all four fields: an existing key keeps its TTL,
\* a new one has none.
Hmset(r) ==
    [fields |-> Fields, count |-> 0, max |-> MaxPlayers, active |-> TRUE,
     ttl |-> HashLive(r) /\ hash[r].ttl, exp |-> IF HashLive(r) THEN hash[r].exp ELSE 0]

\* register_room, first command: HMSET.  A NULL reply returns false
\* before EXPIRE; start ignores the result and starts the loop.
RegisterHmset(r) ==
    /\ srvPc[r] = "start"
    /\ \E f \in Fates :
         /\ AfterCommand(f)
         /\ hash' = [hash EXCEPT ![r] = IF Applied(f) THEN Hmset(r) ELSE @]
         /\ srvPc' = [srvPc EXCEPT ![r] = IF f = "reply" THEN "expire" ELSE "running"]
    /\ UNCHANGED <<now, ckpt, sess, ckptDue, regOk, cliPc, scan, found, foundWhole>>

\* register_room, second command on the same context: EXPIRE key ttl,
\* a no-op (and no error) when the key is gone; true unless NULL.
RegisterExpire(r) ==
    /\ srvPc[r] = "expire"
    /\ \E f \in Fates :
         /\ AfterCommand(f)
         /\ hash' = IF Applied(f) /\ HashLive(r)
                    THEN [hash EXCEPT ![r].ttl = TRUE, ![r].exp = now + RoomTTL] ELSE hash
         /\ regOk' = [regOk EXCEPT ![r] = (f = "reply")]
    /\ srvPc' = [srvPc EXCEPT ![r] = "running"]
    /\ UNCHANGED <<now, ckpt, sess, ckptDue, cliPc, scan, found, foundWhole>>

\* The tick lambda's store_checkpoint: SETEX room:{id}:checkpoint 30.
StoreCheckpoint(r) ==
    /\ srvPc[r] = "running" /\ ckptDue[r]
    /\ \E f \in Fates :
         /\ AfterCommand(f)
         /\ ckpt' = [ckpt EXCEPT ![r] = IF Applied(f) THEN now + CheckpointTTL ELSE @]
    /\ ckptDue' = [ckptDue EXCEPT ![r] = FALSE]
    /\ UNCHANGED <<now, hash, sess, srvPc, regOk, cliPc, scan, found, foundWhole>>

\* PongUdpServer::stop: the loop ends; nothing is removed from Redis.
ServerStop(r) ==
    /\ srvPc[r] = "running"
    /\ srvPc' = [srvPc EXCEPT ![r] = "stopped"]
    /\ UNCHANGED <<now, link, failures, hash, ckpt, sess, ckptDue, regOk, cliPc,
                   scan, found, foundWhole>>

\* update_room_players: HSET room:{id} player_count n, which on a missing
\* key creates a hash holding that one field, with no TTL.
UpdateRoomPlayers(r, n) ==
    /\ \E f \in Fates :
         /\ AfterCommand(f)
         /\ hash' = [hash EXCEPT ![r] =
                       IF ~Applied(f) THEN @
                       ELSE IF HashLive(r) THEN [@ EXCEPT !.count = n]
                       ELSE [NoHash EXCEPT !.fields = {"player_count"}, !.count = n]]
    /\ UNCHANGED <<now, ckpt, sess, srvPc, ckptDue, regOk, cliPc, scan, found, foundWhole>>

\* get_available_room, first command: KEYS room:*, which lists the live
\* room hashes and checkpoint keys.  A failure returns nullopt.
ScanStart ==
    /\ cliPc = "idle"
    /\ \E f \in Fates :
         /\ AfterCommand(f)
         /\ IF f = "reply"
            THEN /\ scan' = {<<r, "room">> : r \in {x \in Rooms : HashLive(x)}}
                            \cup {<<r, "checkpoint">> : r \in {x \in Rooms : CkptLive(x)}}
                 /\ cliPc' = "scan"
                 /\ UNCHANGED <<found, foundWhole>>
            ELSE /\ found' = NoRoom /\ foundWhole' = FALSE
                 /\ UNCHANGED <<scan, cliPc>>
    /\ UNCHANGED <<now, hash, ckpt, sess, srvPc, ckptDue, regOk>>

\* One key of the reply, in the order KEYS gave: a checkpoint key is
\* skipped; otherwise get_room's HGETALL (nullopt on failure or a missing
\* key).  RoomInfo's members are not initialised, so a field the hash
\* lacks leaves any value.  An active room below max_players is returned.
ScanKey ==
    /\ cliPc = "scan"
    /\ \E k \in scan :
         LET r == k[1] IN
         IF k[2] = "checkpoint"
         THEN /\ scan' = scan \ {k}
              /\ UNCHANGED <<link, failures, cliPc, found, foundWhole>>
         ELSE \E f \in Fates, max \in 0..MaxPlayers, active \in BOOLEAN,
                 count \in 0..MaxPlayers :
              LET h   == hash[r]
                  m   == IF "max_players" \in h.fields THEN h.max ELSE max
                  a   == IF "is_active" \in h.fields THEN h.active ELSE active
                  c   == IF "player_count" \in h.fields THEN h.count ELSE count
                  hit == f = "reply" /\ HashLive(r) /\ a /\ c < m
              IN /\ AfterCommand(f)
                 /\ IF hit
                    THEN /\ found' = r /\ foundWhole' = (h.fields = Fields)
                         /\ cliPc' = "idle" /\ scan' = {}
                    ELSE /\ scan' = scan \ {k}
                         /\ UNCHANGED <<cliPc, found, foundWhole>>
    /\ UNCHANGED <<now, hash, ckpt, sess, srvPc, ckptDue, regOk>>

\* The loop over the keys ends without a room: nullopt.
ScanEnd ==
    /\ cliPc = "scan" /\ scan = {}
    /\ cliPc' = "idle" /\ found' = NoRoom /\ foundWhole' = FALSE
    /\ UNCHANGED <<now, link, failures, hash, ckpt, sess, srvPc, ckptDue, regOk, scan>>

\* create_session: SETEX session:{token} with "player_id:expires".
CreateSession(t, p) ==
    /\ \E f \in Fates :
         /\ AfterCommand(f)
         /\ sess' = [sess EXCEPT ![t] =
                       IF Applied(f)
                       THEN [player |-> p, expires |-> now + SessionTTL,
                             exp |-> now + SessionTTL]
                       ELSE @]
    /\ UNCHANGED <<now, hash, ckpt, srvPc, ckptDue, regOk, cliPc, scan, found, foundWhole>>

\* delete_session: DEL session:{token}.
DeleteSession(t) ==
    /\ \E f \in Fates :
         /\ AfterCommand(f)
         /\ sess' = [sess EXCEPT ![t] = IF Applied(f) THEN NoSession ELSE @]
    /\ UNCHANGED <<now, hash, ckpt, srvPc, ckptDue, regOk, cliPc, scan, found, foundWhole>>

\* get_session: the player of a live key whose expires is not past.
get_session(t) ==
    IF now < sess[t].exp /\ now <= sess[t].expires
    THEN sess[t].player ELSE NoRoom

\* get_checkpoint: the checkpoint, while its key lives.
get_checkpoint(r) == CkptLive(r)

\* A second passes; the tick loop of every running server stores one
\* checkpoint per second, so it has done so before the clock moves on.
Tick ==
    /\ now < MaxTime
    /\ \A r \in Rooms : srvPc[r] = "running" => ~ckptDue[r]
    /\ now' = now + 1
    /\ ckptDue' = [r \in Rooms |-> TRUE]
    /\ UNCHANGED <<link, failures, hash, ckpt, sess, srvPc, regOk, cliPc, scan,
                   found, foundWhole>>

Next ==
    \/ \E r \in Rooms : \/ RegisterHmset(r) \/ RegisterExpire(r)
                        \/ StoreCheckpoint(r) \/ ServerStop(r)
                        \/ \E n \in 0..MaxPlayers : UpdateRoomPlayers(r, n)
    \/ ScanStart \/ ScanKey \/ ScanEnd
    \/ \E t \in Tokens : \/ \E p \in Players : CreateSession(t, p)
                         \/ DeleteSession(t)
    \/ Tick

Spec == Init /\ [][Next]_vars

-----------------------------------------------------------------------------

TypeOK ==
    /\ now \in 0..MaxTime /\ link \in {"up", "down"} /\ failures \in 0..MaxFailures
    /\ \A r \in Rooms : /\ hash[r].fields \subseteq Fields
                        /\ hash[r].ttl \in BOOLEAN /\ hash[r].exp \in Nat
    /\ srvPc \in [Rooms -> {"start", "expire", "running", "stopped"}]
    /\ cliPc \in {"idle", "scan"} /\ found \in Rooms \cup {NoRoom}

\* The header calls register_room's TTL a heartbeat: a room whose server
\* registered it and still runs stays listed in Redis.
RoomListedWhileServed ==
    \A r \in Rooms : srvPc[r] = "running" /\ regOk[r] => HashLive(r)

\* A room hash expires: once register_room has returned, no room:{id}
\* key lives without a TTL, so a room whose server is gone is eventually
\* no longer listed.
RoomKeyExpires ==
    \A r \in Rooms : HashLive(r) /\ srvPc[r] # "expire" => hash[r].ttl

\* get_available_room returns only rooms register_room wrote, never a
\* hash missing max_players or is_active.
AvailableRoomRegistered ==
    found # NoRoom => foundWhole

====
