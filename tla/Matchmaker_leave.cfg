CONSTANTS
    Player = {1, 2, 3}
    MmrValue = {0}
    Tolerance = 2
    RoomId = {r1, r2}
    MaxEnqueues = 1
    MaxRestarts = 0
    Absent = Absent
    NoRoom = NoRoom
SPECIFICATION Spec
INVARIANT NoAssignmentAfterLeave
