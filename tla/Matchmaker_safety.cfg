\* Three players, one MMR, no restart: a failed SETEX followed by the pair's
\* ZREMs removes a player with no room_map entry.
CONSTANTS
    Player = {1, 2, 3}
    MmrValue = {0}
    Tolerance = 2
    RoomId = {r1}
    MaxEnqueues = 1
    MaxRestarts = 0
    Absent = Absent
    NoRoom = NoRoom
SPECIFICATION Spec
INVARIANT NoLostPlayer
