\* Two sessions (ids 1 and 2), two rooms, NICK to "user-2", two commands
\* per client: enough for both to share a room, for one to leave or
\* close while the other's broadcast is still posted or queued.
CONSTANTS
    Session = {1, 2}
    Room = {1, 2}
    NickName = {2}
    MaxCommands = 2
    NoRoom = NoRoom
SPECIFICATION Spec
\* Every client eventually stops sending and every write completes.
CHECK_DEADLOCK FALSE
INVARIANT TypeOK RoomRegistryAgrees NoMessageOutsideRoom OneWriteAtATime
\* The codec round trip, checked once the system has sent a frame.
INVARIANT JsonRoundTrip
