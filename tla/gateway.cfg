CONSTANTS
    r1 = r1
    r2 = r2
    Rooms = {r1, r2}
    Played = {r1}
    Numbers = {1}
    WinTypes = {"full"}
    Seconds = {2}
    MaxReserved = 1
    MaxFaults = 1
SPECIFICATION FairSpec
INVARIANT TypeOK
INVARIANT AnswersTrailTheTables
INVARIANT PendingRoomsShowNoGame
PROPERTY CacheFollowsTheRooms
PROPERTY NumbersArrive
