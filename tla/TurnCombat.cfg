\* Two players, health 3, damage 1 or 2: a battle lasts two to five
\* attacks, so kills, survivals and each ending occur.
CONSTANTS
    MaxHealth = 3
    Damage = {1, 2}
    MaxAttacks = 3
    MaxSignals = 1
SPECIFICATION Spec
\* The server process ends: every thread is joined.
CHECK_DEADLOCK FALSE
INVARIANT TypeOK BattleBetweenStanding WinnerStillStanding ResultAnnounced
PROPERTY GameOverEndsLoop
