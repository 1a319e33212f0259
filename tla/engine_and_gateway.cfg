CONSTANTS
    u1 = u1
    c1 = c1
    Users = {u1}
    Cards = {c1}
    Matrix <- TwoLines
    EntryFee = 1
    Numbers = {1, 2}
    CardCounts = {1}
    MinPlayers = 1
    StartTimer = 1
    MaxRoom = 1
    MaxReservations = 1
    MaxErrors = 0
    MaxLostAcks = 0
    MaxRestarts = 1
    MaxCacheFaults = 1
    SyncOvertaken = FALSE
SPECIFICATION System
INVARIANT WinsToldAreWon
INVARIANT NumbersShownAreNotDrawnAgain
PROPERTY ImplementsGateway
