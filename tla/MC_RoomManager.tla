---------------------------- MODULE MC_RoomManager ----------------------------
(* RoomManager with one room, one session token and one player. *)
EXTENDS RoomManager

CONSTANTS r1, r2, t1, p1

MCRooms == {r1}
====
