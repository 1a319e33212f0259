CONSTANTS
    u1 = u1
    u2 = u2
    c1 = c1
    c2 = c2
    Users = {u1}
    Cards = {c1}
    Matrix <- LineCard
    EntryFee = 1
    Numbers = {1, 2}
    CardCounts = {1}
    MinPlayers = 1
    StartTimer = 1
    MaxRoom = 2
    MaxReservations = 1
    MaxErrors = 1
    MaxLostAcks = 1
    MaxRestarts = 1
    SyncOvertaken = TRUE
SPECIFICATION Spec
INVARIANT TypeOK
INVARIANT WinnersHoldCompletedCards
INVARIANT FinishedRoomsHaveAWinner
