CONSTANTS
    u1 = u1
    u2 = u2
    c1 = c1
    c2 = c2
    Users = {u1, u2}
    Cards = {c1, c2}
    Matrix <- TwinCards
    EntryFee = 1
    Numbers = {1, 2}
    CardCounts = {1}
    MinPlayers = 1
    StartTimer = 1
    MaxRoom = 2
    MaxReservations = 2
    MaxErrors = 0
    MaxLostAcks = 0
    MaxRestarts = 1
    SyncOvertaken = FALSE
SPECIFICATION Spec
SYMMETRY TwinSymmetry
INVARIANT AlwaysAPendingRoom
INVARIANT NoDuplicateDraws
INVARIANT MemoryAgreesWithRows
INVARIANT OnePurchasePerUserAndRoom
INVARIANT CardDealtOnce
INVARIANT PurchasesComeWithCards
PROPERTY NoDrawAfterFullWin
PROPERTY ImplementsRoomRows
