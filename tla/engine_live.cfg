CONSTANTS
    u1 = u1
    u2 = u2
    c1 = c1
    c2 = c2
    Users = {u1}
    Cards = {c1}
    Matrix <- LineCard
    EntryFee = 1
    Numbers = {1, 2}
    CardCounts = {1}
    MinPlayers = 1
    StartTimer = 1
    MaxRoom = 1
    MaxReservations = 1
    MaxErrors = 3
    MaxLostAcks = 0
    MaxRestarts = 0
    SyncOvertaken = TRUE
SPECIFICATION FairSpec
PROPERTY ReadyRoomStarts
PROPERTY DealtRoomFinishes
PROPERTY DeactivationReachesTheRow
INVARIANT CompletionIsByNumbers
INVARIANT DealtInOrderOfReservation
