----------------------------- MODULE GameEngine -----------------------------
(***************************************************************************)
(* The life of the rooms of one GLOBAL game room: AutoTimerService (the    *)
(* main loop, the start transaction, drawing, the five-second sync, errors *)
(* and restarts), the winner checks of RoomsService it calls after every   *)
(* number, and ReservationService.reserve, which runs beside it.           *)
(*                                                                         *)
(* There is one Node process and one Postgres.  A step of this module runs *)
(* from one await to the next: the main loop (main), the sync job (sync),  *)
(* the un-awaited deactivation updates (deactivating) and the HTTP         *)
(* handlers (request) interleave exactly there.                            *)
(*                                                                         *)
(* The drawing interval is left out: at each visit a started room draws or *)
(* is not due yet.  Bounds: MaxRoom (room ids), MaxReservations (over all  *)
(* rooms), MaxErrors, MaxLostAcks and MaxRestarts (faults).                *)
(***************************************************************************)
EXTENDS BingoCards

LOCAL INSTANCE Functions

CONSTANTS
    Users,
    Numbers,          \* 1..90 in the code
    CardCounts,       \* the cardCount values of a reservation
    MinPlayers,       \* game_rooms.minPlayers
    StartTimer,       \* game_rooms.startTimer
    MaxRoom,
    MaxReservations,
    MaxErrors,        \* failed database calls
    MaxLostAcks,      \* database calls that took effect and still failed
    MaxRestarts,      \* crashes of the process
    SyncOvertaken     \* may later statements overtake an UPDATE the sync sent?

ASSUME UsersAssumption == IsFiniteSet(Users)
ASSUME NumbersAssumption == IsFiniteSet(Numbers) /\ Numbers \subseteq Nat \ {0}
ASSUME CardCountsAssumption == CardCounts \subseteq Nat \ {0}
ASSUME GameRoomAssumption == MinPlayers \in Nat \ {0} /\ StartTimer \in Nat \ {0}
ASSUME BoundsAssumption ==
    /\ MaxRoom \in Nat \ {0}
    /\ MaxReservations \in Nat
    /\ MaxErrors \in Nat /\ MaxLostAcks \in Nat /\ MaxRestarts \in Nat
    /\ SyncOvertaken \in BOOLEAN

Rooms == 1..MaxRoom
NoRoom == 0
NoNumber == 0
RoomStatus == {"pending", "started", "finished", "deactivated"}

VARIABLES
    \* the database
    rowStatus,      \* active_rooms.status, "absent" before the INSERT
    rowSeconds,     \* active_rooms.remainingSeconds
    reservations,   \* reservations of a room in insertion order
    reservedCards,  \* user_reserved_cards of a room
    purchases,      \* CARD_PURCHASE amounts of a room and a user
    drawnRows,      \* how many drawn_numbers rows hold a number of a room
    winnerRows,     \* active_room_winners, one set for each call that saved some
    \* the process
    roomStates,     \* AutoTimerService.roomStates
    main,           \* the main loop: where it awaits, for which room
    tx,             \* what the open start transaction has written
    sync,           \* the sync job
    deactivating,   \* rooms whose DEACTIVATED update is on its way
    request,        \* the room a user's reserve call has found pending
    \* the faults that have happened
    faults

database == <<rowStatus, rowSeconds, reservations, reservedCards, purchases,
              drawnRows, winnerRows>>
game == <<reservedCards, purchases, drawnRows, winnerRows>>
vars == <<rowStatus, rowSeconds, reservations, reservedCards, purchases, drawnRows,
          winnerRows, roomStates, main, tx, sync, deactivating, request, faults>>

-----------------------------------------------------------------------------
RoomState == [status : RoomStatus \cup {"unloaded"}, remainingSeconds : Int,
              drawnNumbers : SUBSET Numbers, remainingNumbers : SUBSET Numbers,
              errorCount : Nat]

Unloaded == [status |-> "unloaded", remainingSeconds |-> 0, drawnNumbers |-> {},
             remainingNumbers |-> {}, errorCount |-> 0]

NoTx == [charges |-> [u \in Users |-> <<>>], cards |-> {}]

Booting == {"cleanup", "recover", "ensure"}
InTransaction == {"purchase", "distribute", "commit"}
MainSteps == Booting \cup InTransaction \cup
    {"loop", "expired", "begin", "findPending", "insertPending",
     "saveNumber", "checkLine", "checkFull", "finishRow", "report"}

Reservation == [user : Users, cardCount : CardCounts]
CardsHeld == SUBSET (Users \X Cards)
WinType == {"line", "full"}

MainState ==
    {m \in [at : MainSteps, room : Rooms \cup {NoRoom}, visited : SUBSET Rooms,
            number : Numbers \cup {NoNumber}] :
        m.at = "saveNumber" => m.number \in Numbers}

SyncState ==
    {s \in [at : {"loop", "sent"}, room : Rooms \cup {NoRoom}, visited : SUBSET Rooms,
            status : RoomStatus \cup {"unloaded"}, seconds : Int] :
        s.at = "sent" => s.status \in RoomStatus}

TxState == [charges : [Users -> Seq(Nat)], cards : CardsHeld]
FaultCounts == [errors : Nat, lostAcks : Nat, restarts : Nat]

\* Types of the fourteen variables.
TypeOK ==
    /\ rowStatus \in [Rooms -> RoomStatus \cup {"absent"}]
    /\ rowSeconds \in [Rooms -> Int]
    /\ reservations \in [Rooms -> Seq(Reservation)]
    /\ reservedCards \in [Rooms -> CardsHeld]
    /\ purchases \in [Rooms -> [Users -> Seq(Nat)]]
    /\ drawnRows \in [Rooms -> [Numbers -> Nat]]
    /\ winnerRows \in [Rooms -> [WinType -> Seq(CardsHeld)]]
    /\ roomStates \in [Rooms -> RoomState]
    /\ main \in MainState
    /\ tx \in TxState
    /\ sync \in SyncState
    /\ deactivating \subseteq Rooms
    /\ request \in [Users -> Rooms \cup {NoRoom}]
    /\ faults \in FaultCounts

Idle(step) == [at |-> step, room |-> NoRoom, visited |-> {}, number |-> NoNumber]
SyncIdle == [at |-> "loop", room |-> NoRoom, visited |-> {}, status |-> "unloaded",
             seconds |-> 0]

\* An empty database and a process about to run onModuleInit.
Init ==
    /\ rowStatus = [r \in Rooms |-> "absent"]
    /\ rowSeconds = [r \in Rooms |-> 0]
    /\ reservations = [r \in Rooms |-> <<>>]
    /\ reservedCards = [r \in Rooms |-> {}]
    /\ purchases = [r \in Rooms |-> [u \in Users |-> <<>>]]
    /\ drawnRows = [r \in Rooms |-> [n \in Numbers |-> 0]]
    /\ winnerRows = [r \in Rooms |-> [t \in WinType |-> <<>>]]
    /\ roomStates = [r \in Rooms |-> Unloaded]
    /\ main = Idle("cleanup")
    /\ tx = NoTx
    /\ sync = SyncIdle
    /\ deactivating = {}
    /\ request = [u \in Users |-> NoRoom]
    /\ faults = [errors |-> 0, lostAcks |-> 0, restarts |-> 0]

-----------------------------------------------------------------------------
\* Mutant: every id counts as loaded.
Loaded_Everything == Rooms

Loaded == {r \in Rooms : roomStates[r].status # "unloaded"}
Drawn(r) == {n \in Numbers : drawnRows[r][n] > 0}
Held(r) == reservedCards[r]
Absent == {r \in Rooms : rowStatus[r] = "absent"}
NextId == CHOOSE r \in Absent : \A q \in Absent : r <= q
PendingRows == {r \in Rooms : rowStatus[r] = "pending"}
OutOfIds == Absent = {} /\ PendingRows = {}   \* the bound MaxRoom is reached
RowLocked(r) == main.at \in InTransaction /\ main.room = r

\* A database call that fails without effect, or takes effect and fails.
Fails == /\ faults.errors < MaxErrors
         /\ faults' = [faults EXCEPT !.errors = @ + 1]
AckLost == /\ faults.lostAcks < MaxLostAcks
           /\ faults' = [faults EXCEPT !.lostAcks = @ + 1]

\* The main loop turns to the next room, or goes on to another await.
LeaveRoom == main' = [main EXCEPT !.at = "loop", !.room = NoRoom, !.number = NoNumber]
GoTo(step) == main' = [main EXCEPT !.at = step]

\* Mutant: the wrong final status.
ErrorCounted_Finishes(state) ==
    [state EXCEPT !.errorCount = @ + 1,
                  !.status = IF state.errorCount + 1 >= 3 THEN "finished" ELSE @]

ErrorCounted(state) ==
    [state EXCEPT !.errorCount = @ + 1,
                  !.status = IF state.errorCount + 1 >= 3 THEN "deactivated" ELSE @]

\* handleRoomError: the third error deactivates the room, in memory at once
\* and in the database by an update nobody waits for.
handleRoomError(r, state) ==
    LET counted == ErrorCounted(state)
    IN  /\ roomStates' = [roomStates EXCEPT ![r] = counted]
        /\ deactivating' = IF counted.errorCount >= 3 THEN deactivating \cup {r}
                           ELSE deactivating

\* addRoomToState for a row of active_rooms.
addRoomToState(status, seconds) ==
    [Unloaded EXCEPT !.status = status, !.remainingSeconds = seconds]

-----------------------------------------------------------------------------
(***************************************************************************)
(* onModuleInit.  Each stage swallows its errors and the next one runs.    *)
(***************************************************************************)
\* The rows a room keeps: the first of each number.
Cleaned(r) == [n \in Numbers |-> Smaller(drawnRows[r][n], 1)]

cleanupAllDuplicateNumbers ==
    LET started == {r \in Rooms : rowStatus[r] = "started"}
    IN  /\ main.at = "cleanup"
        /\ \E done \in SUBSET started :
            /\ IF done = started THEN UNCHANGED faults ELSE Fails
            /\ drawnRows' = [r \in Rooms |-> IF r \in done THEN Cleaned(r)
                                             ELSE drawnRows[r]]
        /\ GoTo("recover")
        /\ UNCHANGED <<rowStatus, rowSeconds, reservations, reservedCards, purchases,
                       winnerRows, roomStates, tx, sync, deactivating, request>>

\* Mutants: recovery that forgets one half of what was drawn.
Recovered_AllRemain(r) ==
    [status |-> "started", remainingSeconds |-> rowSeconds[r], drawnNumbers |-> Drawn(r),
     remainingNumbers |-> Numbers, errorCount |-> 0]

Recovered_NoneDrawn(r) ==
    [status |-> "started", remainingSeconds |-> rowSeconds[r], drawnNumbers |-> {},
     remainingNumbers |-> Numbers \ Drawn(r), errorCount |-> 0]

Recovered(r) ==
    [status |-> "started", remainingSeconds |-> rowSeconds[r], drawnNumbers |-> Drawn(r),
     remainingNumbers |-> Numbers \ Drawn(r), errorCount |-> 0]

recoverActiveRooms ==
    LET started == {r \in Rooms : rowStatus[r] = "started"}
    IN  /\ main.at = "recover"
        /\ \E found \in SUBSET started :
            /\ IF found = started THEN UNCHANGED faults ELSE Fails
            /\ roomStates' = [r \in Rooms |-> IF r \in found THEN Recovered(r)
                                              ELSE roomStates[r]]
        /\ GoTo("ensure")
        /\ UNCHANGED <<database, tx, sync, deactivating, request>>

InsertPendingRow(r) ==
    /\ rowStatus' = [rowStatus EXCEPT ![r] = "pending"]
    /\ rowSeconds' = [rowSeconds EXCEPT ![r] = StartTimer]

\* Mutant: the new row is not added to roomStates.
LoadRoom_Forgotten(r, seconds) == UNCHANGED roomStates

LoadRoom(r, seconds) ==
    roomStates' = [roomStates EXCEPT ![r] = addRoomToState("pending", seconds)]

\* findOne returns some pending row of the game room; the others stay unloaded.
ensurePendingRooms ==
    /\ main.at = "ensure"
    /\ \/ /\ \E r \in PendingRows : LoadRoom(r, rowSeconds[r])
          /\ UNCHANGED <<rowStatus, rowSeconds, faults>>
       \/ /\ PendingRows = {}
          /\ Absent # {}
          /\ InsertPendingRow(NextId) /\ LoadRoom(NextId, StartTimer)
          /\ UNCHANGED faults
       \/ /\ \/ Fails
             \/ OutOfIds /\ UNCHANGED faults
          /\ UNCHANGED <<rowStatus, rowSeconds, roomStates>>
    /\ GoTo("loop")
    /\ UNCHANGED <<reservations, game, tx, sync, deactivating, request>>

-----------------------------------------------------------------------------
(***************************************************************************)
(* processMainLoop.  An iteration visits every loaded room, those that are *)
(* added while it runs included; the order is the order of the Map.        *)
(***************************************************************************)
Unvisited(r) == main.at = "loop" /\ r \in Loaded \ main.visited

EndIteration ==
    /\ main.at = "loop" /\ Loaded \subseteq main.visited
    /\ main' = Idle("loop")
    /\ UNCHANGED <<database, roomStates, tx, sync, deactivating, request, faults>>

\* processRoomTimer: one second less; at zero handleTimerExpired takes over.
processRoomTimer(r) ==
    LET seconds == roomStates[r].remainingSeconds - 1
    IN  /\ Unvisited(r) /\ roomStates[r].status = "pending"
        /\ roomStates' = [roomStates EXCEPT ![r].remainingSeconds = seconds]
        /\ main' = [main EXCEPT !.visited = @ \cup {r},
                                !.at = IF seconds <= 0 THEN "expired" ELSE "loop",
                                !.room = IF seconds <= 0 THEN r ELSE NoRoom]
        /\ UNCHANGED <<database, tx, sync, deactivating, request, faults>>

\* A started room whose interval has not elapsed or that has no number left,
\* and a room that is finished or deactivated.
PassRoom(r) ==
    /\ Unvisited(r) /\ roomStates[r].status # "pending"
    /\ main' = [main EXCEPT !.visited = @ \cup {r}]
    /\ UNCHANGED <<database, roomStates, tx, sync, deactivating, request, faults>>

\* Mutant: the drawn number stays among the remaining ones.
DrawNumber_KeepsNumber(r) ==
    /\ Unvisited(r) /\ roomStates[r].status = "started"
    /\ \E n \in roomStates[r].remainingNumbers :
        /\ roomStates' = [roomStates EXCEPT ![r].drawnNumbers = @ \cup {n}]
        /\ main' = [at |-> "saveNumber", room |-> r, visited |-> main.visited \cup {r},
                    number |-> n]
    /\ UNCHANGED <<database, tx, sync, deactivating, request, faults>>

\* processNumberDrawing up to its first await: the number moves in memory.
DrawNumber(r) ==
    /\ Unvisited(r) /\ roomStates[r].status = "started"
    /\ \E n \in roomStates[r].remainingNumbers :
        /\ roomStates' = [roomStates EXCEPT ![r].remainingNumbers = @ \ {n},
                                            ![r].drawnNumbers = @ \cup {n}]
        /\ main' = [at |-> "saveNumber", room |-> r, visited |-> main.visited \cup {r},
                    number |-> n]
    /\ UNCHANGED <<database, tx, sync, deactivating, request, faults>>

-----------------------------------------------------------------------------
(***************************************************************************)
(* handleTimerExpired, checkPlayerCountAndProceed.  The game room is found, *)
(* as nothing deletes a row of game_rooms while the program runs.          *)
(***************************************************************************)
PlayerCount(r) == Cardinality(Buyers(reservations[r]))

\* Mutant: the timer is reset whatever the players are.
resetRoomTimer_Always(r) ==
    /\ main.at = "expired" /\ main.room = r
    /\ roomStates' = [roomStates EXCEPT ![r].remainingSeconds = StartTimer]
    /\ LeaveRoom
    /\ UNCHANGED <<database, tx, sync, deactivating, request, faults>>

resetRoomTimer(r) ==
    /\ main.at = "expired" /\ main.room = r
    /\ PlayerCount(r) < MinPlayers
    /\ roomStates' = [roomStates EXCEPT ![r].remainingSeconds = StartTimer,
                                        ![r].status = "pending"]
    /\ LeaveRoom
    /\ UNCHANGED <<database, tx, sync, deactivating, request, faults>>

EnoughPlayers(r) ==
    /\ main.at = "expired" /\ main.room = r
    /\ PlayerCount(r) >= MinPlayers
    /\ GoTo("begin")
    /\ UNCHANGED <<database, roomStates, tx, sync, deactivating, request, faults>>

\* The reads of the game room and of the players, or BEGIN, failed.
TimerExpiredFails(r) ==
    /\ main.at \in {"expired", "begin"} /\ main.room = r
    /\ Fails
    /\ handleRoomError(r, roomStates[r])
    /\ LeaveRoom
    /\ UNCHANGED <<database, tx, sync, request>>

-----------------------------------------------------------------------------
(***************************************************************************)
(* startGame: memory first, then one transaction that holds the lock of    *)
(* the room's row from its UPDATE to its end and whose every SELECT sees   *)
(* what is committed at that moment (READ COMMITTED).                      *)
(***************************************************************************)
startGame(r) ==
    /\ main.at = "begin" /\ main.room = r
    /\ roomStates' = [roomStates EXCEPT ![r].status = "started",
                                        ![r].remainingNumbers = Numbers,
                                        ![r].drawnNumbers = {}]
    /\ tx' = NoTx
    /\ GoTo("purchase")
    /\ UNCHANGED <<database, sync, deactivating, request, faults>>

processCardPurchases(r) ==
    /\ main.at = "purchase" /\ main.room = r
    /\ tx' = [tx EXCEPT !.charges = [u \in Users |->
                IF u \in Buyers(reservations[r])
                THEN <<PurchaseAmount(reservations[r], u)>> ELSE <<>>]]
    /\ GoTo("distribute")
    /\ UNCHANGED <<database, roomStates, sync, deactivating, request, faults>>

\* A pair already in the table violates its unique key: see AbortStart.  With
\* no cards in the table there is a warning, and the transaction goes on.
distributeCardsToUsers(r) ==
    /\ main.at = "distribute" /\ main.room = r
    /\ \E deck \in Shuffles, rs \in Orders(reservations[r]) :
        /\ Dealt(rs, deck) \cap Held(r) = {}
        /\ tx' = [tx EXCEPT !.cards = Dealt(rs, deck)]
    /\ GoTo("commit")
    /\ UNCHANGED <<database, roomStates, sync, deactivating, request, faults>>

\* Mutant: the status is left to the next sync.
Commit_WithoutStatus(r) ==
    /\ purchases' = [purchases EXCEPT ![r] = [u \in Users |-> @[u] \o tx.charges[u]]]
    /\ reservedCards' = [reservedCards EXCEPT ![r] = @ \cup tx.cards]
    /\ UNCHANGED <<rowStatus, rowSeconds, reservations, drawnRows, winnerRows>>

Commit(r) ==
    /\ rowStatus' = [rowStatus EXCEPT ![r] = "started"]
    /\ purchases' = [purchases EXCEPT ![r] = [u \in Users |-> @[u] \o tx.charges[u]]]
    /\ reservedCards' = [reservedCards EXCEPT ![r] = @ \cup tx.cards]
    /\ UNCHANGED <<rowSeconds, reservations, drawnRows, winnerRows>>

CommitStart(r) ==
    /\ main.at = "commit" /\ main.room = r
    /\ Commit(r)
    /\ tx' = NoTx
    /\ GoTo("findPending")
    /\ UNCHANGED <<roomStates, sync, deactivating, request, faults>>

\* Any failure inside the transaction: rollback, handleRoomError in startGame
\* and once more in checkPlayerCountAndProceed, or there only, if ROLLBACK is
\* what fails.  The room stays STARTED in memory.  A COMMIT whose answer is
\* lost has the same end.
AbortStart(r) ==
    /\ main.at \in InTransaction /\ main.room = r
    /\ \/ Fails /\ UNCHANGED database
       \/ main.at = "distribute" /\ UNCHANGED <<database, faults>>
          /\ \E deck \in Shuffles, rs \in Orders(reservations[r]) :
                Dealt(rs, deck) \cap Held(r) # {}
       \/ main.at = "commit" /\ AckLost /\ Commit(r)
    /\ tx' = NoTx
    /\ \/ handleRoomError(r, ErrorCounted(roomStates[r]))
       \/ faults' # faults /\ handleRoomError(r, roomStates[r])
    /\ LeaveRoom
    /\ UNCHANGED <<sync, request>>

-----------------------------------------------------------------------------
(***************************************************************************)
(* createNewPendingRoom, after the commit; it swallows its errors.         *)
(***************************************************************************)
PendingRoomExists ==
    /\ main.at = "findPending"
    /\ PendingRows # {}
    /\ LeaveRoom
    /\ UNCHANGED <<database, roomStates, tx, sync, deactivating, request, faults>>

NoPendingRoom ==
    /\ main.at = "findPending"
    /\ PendingRows = {}
    /\ GoTo("insertPending")
    /\ UNCHANGED <<database, roomStates, tx, sync, deactivating, request, faults>>

createNewPendingRoom ==
    /\ main.at = "insertPending" /\ Absent # {}
    /\ InsertPendingRow(NextId) /\ LoadRoom(NextId, StartTimer)
    /\ LeaveRoom
    /\ UNCHANGED <<reservations, game, tx, sync, deactivating, request, faults>>

\* Without the answer the row may exist, but nobody counts it down.
createNewPendingRoomFails ==
    /\ main.at \in {"findPending", "insertPending"}
    /\ \/ /\ \/ Fails
             \/ main.at = "insertPending" /\ Absent = {} /\ UNCHANGED faults
          /\ UNCHANGED <<rowStatus, rowSeconds>>
       \/ /\ main.at = "insertPending" /\ Absent # {}
          /\ AckLost /\ InsertPendingRow(NextId)
    /\ LeaveRoom
    /\ UNCHANGED <<reservations, game, roomStates, tx, sync, deactivating, request>>

-----------------------------------------------------------------------------
(***************************************************************************)
(* processNumberDrawing from its first await on: the drawn_numbers row,    *)
(* then checkLineWinners and checkFullWinners, whose errors are swallowed. *)
(***************************************************************************)
At(step, r) == main.at = step /\ main.room = r

InsertDrawnRow(r) == drawnRows' = [drawnRows EXCEPT ![r][main.number] = @ + 1]

SaveDrawnNumber(r) ==
    /\ At("saveNumber", r)
    /\ InsertDrawnRow(r)
    /\ GoTo("checkLine")
    /\ UNCHANGED <<rowStatus, rowSeconds, reservations, reservedCards, purchases, winnerRows,
                   roomStates, tx, sync, deactivating, request, faults>>

\* Mutant: a number whose INSERT failed counts as drawn.
SaveDrawnNumberFails_KeepsNumber(r) ==
    /\ At("saveNumber", r)
    /\ Fails
    /\ handleRoomError(r, roomStates[r])
    /\ LeaveRoom
    /\ UNCHANGED <<database, tx, sync, request>>

\* The number goes back to the remaining ones, also when only the answer is lost.
SaveDrawnNumberFails(r) ==
    /\ At("saveNumber", r)
    /\ \/ Fails /\ UNCHANGED drawnRows
       \/ AckLost /\ InsertDrawnRow(r)
    /\ handleRoomError(r, [roomStates[r] EXCEPT !.drawnNumbers = @ \ {main.number},
                                                !.remainingNumbers = @ \cup {main.number}])
    /\ LeaveRoom
    /\ UNCHANGED <<rowStatus, rowSeconds, reservations, reservedCards, purchases, winnerRows,
                   tx, sync, request>>

SaveWinners(r, winType, winners) ==
    winnerRows' = [winnerRows EXCEPT ![r][winType] =
                      IF winners = {} THEN @ ELSE Append(@, winners)]

\* The rows checkLineWinners inserts: none once the room has a line winner.
LineWinners(r) ==
    IF winnerRows[r]["line"] # <<>> THEN {{}}
    ELSE OnePerUser(LineCards(Held(r), Drawn(r)))

\* Mutant: a line is taken for a full card.
FullWinners_ByLine(r) == OnePerUser(LineCards(Held(r), Drawn(r)))

FullWinners(r) == OnePerUser(FullCards(Held(r), Drawn(r)))

checkLineWinners(r) ==
    /\ At("checkLine", r)
    /\ \E winners \in LineWinners(r) :
        \/ SaveWinners(r, "line", winners) /\ UNCHANGED faults
        \/ /\ Fails
           /\ \E saved \in SUBSET winners : SaveWinners(r, "line", saved)
    /\ GoTo("checkFull")
    /\ UNCHANGED <<rowStatus, rowSeconds, reservations, reservedCards, purchases, drawnRows,
                   roomStates, tx, sync, deactivating, request>>

checkFullWinners(r) ==
    /\ At("checkFull", r)
    /\ \E winners \in FullWinners(r) :
        \/ /\ SaveWinners(r, "full", winners)
           /\ IF winners = {} THEN LeaveRoom ELSE GoTo("finishRow")
           /\ UNCHANGED faults
        \/ /\ Fails
           /\ \E saved \in SUBSET winners : SaveWinners(r, "full", saved)
           /\ LeaveRoom
    /\ UNCHANGED <<rowStatus, rowSeconds, reservations, reservedCards, purchases, drawnRows,
                   roomStates, tx, sync, deactivating, request>>

\* checkFullWinners marks the row, reads the winners back to emit them, and
\* only then does the caller learn that the game is over.
FinishRow(r) ==
    /\ At("finishRow", r)
    /\ rowStatus' = [rowStatus EXCEPT ![r] = "finished"]
    /\ GoTo("report")
    /\ UNCHANGED <<rowSeconds, reservations, game, roomStates, tx, sync, deactivating,
                   request, faults>>

\* Mutant: roomStates does not learn that the game is over.
FinishRoom_Forgotten(r) ==
    /\ At("report", r)
    /\ LeaveRoom
    /\ UNCHANGED <<database, roomStates, tx, sync, deactivating, request, faults>>

FinishRoom(r) ==
    /\ At("report", r)
    /\ roomStates' = [roomStates EXCEPT ![r].status = "finished"]
    /\ LeaveRoom
    /\ UNCHANGED <<database, tx, sync, deactivating, request, faults>>

FinishFails(r) ==
    /\ main.at \in {"finishRow", "report"} /\ main.room = r
    /\ Fails
    /\ LeaveRoom
    /\ UNCHANGED <<database, roomStates, tx, sync, deactivating, request>>

-----------------------------------------------------------------------------
(***************************************************************************)
(* syncStateToDatabase: room after room, an UPDATE with the values memory  *)
(* holds when it is issued.  Another connection may run it later, after    *)
(* statements that were issued after it (SyncOvertaken); the row lock of a *)
(* start transaction always makes it wait.                                 *)
(***************************************************************************)
\* Mutant: rooms that are over are no longer written.
Unsynced_LiveOnly(r) ==
    /\ sync.at = "loop" /\ r \in Loaded \ sync.visited
    /\ roomStates[r].status \in {"pending", "started"}

Unsynced(r) == sync.at = "loop" /\ r \in Loaded \ sync.visited

SyncDone(r) == sync' = [SyncIdle EXCEPT !.visited = sync.visited \cup {r}]

WriteRow(r, status, seconds) ==
    /\ ~RowLocked(r)
    /\ rowStatus' = [rowStatus EXCEPT ![r] = status]
    /\ rowSeconds' = [rowSeconds EXCEPT ![r] = seconds]

SendSync(r) ==
    /\ SyncOvertaken /\ Unsynced(r)
    /\ sync' = [at |-> "sent", room |-> r, visited |-> sync.visited,
                status |-> roomStates[r].status,
                seconds |-> roomStates[r].remainingSeconds]
    /\ UNCHANGED <<database, roomStates, main, tx, deactivating, request, faults>>

ApplySync(r) ==
    /\ sync.at = "sent" /\ sync.room = r
    /\ WriteRow(r, sync.status, sync.seconds)
    /\ SyncDone(r)
    /\ UNCHANGED <<reservations, game, roomStates, main, tx, deactivating, request, faults>>

SyncRoom(r) ==
    /\ ~SyncOvertaken /\ Unsynced(r)
    /\ WriteRow(r, roomStates[r].status, roomStates[r].remainingSeconds)
    /\ SyncDone(r)
    /\ UNCHANGED <<reservations, game, roomStates, main, tx, deactivating, request, faults>>

SyncFails(r) ==
    /\ \/ sync.at = "sent" /\ sync.room = r
       \/ ~SyncOvertaken /\ Unsynced(r)
    /\ Fails
    /\ SyncDone(r)
    /\ UNCHANGED <<database, roomStates, main, tx, deactivating, request>>

EndSync ==
    /\ sync.at = "loop" /\ Loaded \subseteq sync.visited
    /\ sync' = SyncIdle
    /\ UNCHANGED <<database, roomStates, main, tx, deactivating, request, faults>>

\* The update handleRoomError does not wait for; its failure is only logged.
Deactivate(r) ==
    /\ r \in deactivating
    /\ \/ /\ ~RowLocked(r)
          /\ rowStatus' = [rowStatus EXCEPT ![r] = "deactivated"]
          /\ UNCHANGED faults
       \/ Fails /\ UNCHANGED rowStatus
    /\ deactivating' = deactivating \ {r}
    /\ UNCHANGED <<rowSeconds, reservations, game, roomStates, main, tx, sync, request>>

-----------------------------------------------------------------------------
(***************************************************************************)
(* ReservationService.reserve: the status is checked, then the game room   *)
(* is read, then the reservation is inserted whatever has happened since.  *)
(***************************************************************************)
Reserved == Cardinality({p \in Rooms \X (1..MaxReservations) : p[2] <= Len(reservations[p[1]])})
Reserving == Cardinality({u \in Users : request[u] # NoRoom})
Up == main.at \notin Booting

CheckPending(u, r) ==
    /\ Up /\ request[u] = NoRoom
    /\ Reserved + Reserving < MaxReservations
    /\ rowStatus[r] = "pending"
    /\ request' = [request EXCEPT ![u] = r]
    /\ UNCHANGED <<database, roomStates, main, tx, sync, deactivating, faults>>

InsertReservation(u) ==
    LET r == request[u]
    IN  /\ r # NoRoom
        /\ \E count \in CardCounts :
            reservations' = [reservations EXCEPT
                ![r] = Append(@, [user |-> u, cardCount |-> count])]
        /\ request' = [request EXCEPT ![u] = NoRoom]
        /\ UNCHANGED <<rowStatus, rowSeconds, game, roomStates, main, tx, sync,
                       deactivating, faults>>

-----------------------------------------------------------------------------
\* The process dies and is started again: memory and whatever was on its way
\* are gone, the open transaction is rolled back.
Crash ==
    /\ faults.restarts < MaxRestarts
    /\ faults' = [faults EXCEPT !.restarts = @ + 1]
    /\ roomStates' = [r \in Rooms |-> Unloaded]
    /\ main' = Idle("cleanup")
    /\ tx' = NoTx
    /\ sync' = SyncIdle
    /\ deactivating' = {}
    /\ request' = [u \in Users |-> NoRoom]
    /\ UNCHANGED database

Boot == cleanupAllDuplicateNumbers \/ recoverActiveRooms \/ ensurePendingRooms

CreatePending ==
    PendingRoomExists \/ NoPendingRoom \/ createNewPendingRoom \/ createNewPendingRoomFails

RoomStep(r) ==
    \/ processRoomTimer(r) \/ PassRoom(r) \/ DrawNumber(r)
    \/ resetRoomTimer(r) \/ EnoughPlayers(r) \/ TimerExpiredFails(r)
    \/ startGame(r) \/ processCardPurchases(r) \/ distributeCardsToUsers(r)
    \/ CommitStart(r) \/ AbortStart(r)
    \/ SaveDrawnNumber(r) \/ SaveDrawnNumberFails(r)
    \/ checkLineWinners(r) \/ checkFullWinners(r)
    \/ FinishRow(r) \/ FinishRoom(r) \/ FinishFails(r)

MainLoop == Boot \/ CreatePending \/ EndIteration \/ \E r \in Rooms : RoomStep(r)

SyncJob == EndSync \/ \E r \in Rooms : SendSync(r) \/ ApplySync(r) \/ SyncRoom(r) \/ SyncFails(r)

Reserve(u) == InsertReservation(u) \/ \E r \in Rooms : CheckPending(u, r)

Next ==
    \/ MainLoop
    \/ SyncJob
    \/ \E r \in Rooms : Deactivate(r)
    \/ \E u \in Users : Reserve(u)
    \/ Crash

Spec == Init /\ [][Next]_vars

\* SocketScheduler runs both jobs for ever, a statement waiting for a lock
\* ends once the lock is free, a handler that has found its room goes on, and
\* a room that is visited every second draws every third: the clock, and
\* not the loop, decides when a visit draws.
Fairness ==
    /\ WF_vars(MainLoop)
    /\ WF_vars(SyncJob)
    /\ \A r \in Rooms : SF_vars(DrawNumber(r)) /\ WF_vars(Deactivate(r))
    /\ \A u \in Users : WF_vars(InsertReservation(u))

FairSpec == Spec /\ Fairness

-----------------------------------------------------------------------------
(***************************************************************************)
(* Properties                                                              *)
(***************************************************************************)

\* No number of a room is drawn twice: drawn_numbers has one row for it.
NoDuplicateDraws == \A r \in Rooms, n \in Numbers : drawnRows[r][n] <= 1

\* What a running game remembers is what the table says, except while the
\* INSERT of the next number is on its way: a crash at any moment loses and
\* repeats nothing.
MemoryAgreesWithRows ==
    \A r \in Rooms :
        roomStates[r].status \in {"started", "finished"} /\ ~At("saveNumber", r) =>
            /\ roomStates[r].drawnNumbers = Drawn(r)
            /\ roomStates[r].remainingNumbers = Numbers \ Drawn(r)

\* A user pays once for a room, however many reservations, starts and restarts
\* it has seen.
OnePurchasePerUserAndRoom == \A r \in Rooms, u \in Users : Len(purchases[r][u]) <= 1

\* In a room a card has one owner.
CardDealtOnce ==
    \A r \in Rooms : \A h, k \in Held(r) : h[2] = k[2] => h[1] = k[1]

\* Who holds a card in a room has reserved one there, and has paid for it.
CardsArePaid ==
    \A r \in Rooms : \A h \in Held(r) :
        h[1] \in Buyers(reservations[r]) /\ purchases[r][h[1]] # <<>>

\* Every card a user holds in a room has cost them the entry fee (T002 of the
\* documents; a reservation of two cards refutes it).
CardsCostTheEntryFee ==
    \A r \in Rooms, u \in Users :
        EntryFee * Cardinality({h \in Held(r) : h[1] = u}) <= SumFunction(purchases[r][u])

\* Purchases, cards and the STARTED row are one transaction: each user who was
\* charged in a room holds a card there, unless the deck was dealt to the last
\* card (a start on an empty table of cards charges and deals nothing).
PurchasesComeWithCards ==
    \A r \in Rooms, u \in Users : purchases[r][u] # <<>> => Served(u, Held(r))

\* Whenever the main loop rests, a PENDING row is loaded and counting down.
AlwaysAPendingRoom ==
    main.at = "loop" /\ main.visited = {} =>
        \/ \E r \in PendingRows : roomStates[r].status = "pending"
        \/ Absent = {}

\* A room that has started has been replaced by a new PENDING one (a start that
\* fails after memory was set refutes it).
StartedRoomIsReplaced ==
    main.at = "loop" /\ main.visited = {} /\ (\E r \in Rooms : roomStates[r].status = "started") =>
        \/ \E r \in PendingRows : roomStates[r].status = "pending"
        \/ Absent = {}

\* Every row of active_room_winners names a card its user holds in that room
\* and a line, or the whole card, that the drawn numbers cover.
WinnersHoldCompletedCards ==
    \A r \in Rooms :
        /\ \A i \in DOMAIN winnerRows[r]["line"] :
                winnerRows[r]["line"][i] \subseteq LineCards(Held(r), Drawn(r))
        /\ \A i \in DOMAIN winnerRows[r]["full"] :
                winnerRows[r]["full"][i] \subseteq FullCards(Held(r), Drawn(r))

\* The line is won by the cards one number completes, once in a room's life.
LineWonOnce == \A r \in Rooms : Len(winnerRows[r]["line"]) <= 1

\* No user has two full-card wins in a room, from one check or from two.
NoUserWinsFullTwice ==
    \A r \in Rooms : \A i, j \in DOMAIN winnerRows[r]["full"] :
        \A w \in winnerRows[r]["full"][i], v \in winnerRows[r]["full"][j] :
            w[1] = v[1] => i = j /\ w = v

\* A room is FINISHED, in memory or in the database, only after somebody has
\* won the full card.
FinishedRoomsHaveAWinner ==
    \A r \in Rooms :
        "finished" \in {rowStatus[r], roomStates[r].status} =>
            winnerRows[r]["full"] # <<>>

\* After the full card is won the room draws no more numbers, unless the
\* process was restarted, or a database call failed, before it knew.
NoDrawAfterFullWin ==
    [][\A r \in Rooms :
        winnerRows[r]["full"] # <<>> /\ drawnRows'[r] # drawnRows[r] =>
            faults.restarts + faults.errors > 0]_vars

\* What was dealt and what was drawn stays dealt and drawn: neither an abort,
\* nor the clean-up of duplicates, nor a restart takes any of it back.
NothingIsTakenBack ==
    [][\A r \in Rooms : Held(r) \subseteq Held(r)' /\ Drawn(r) \subseteq Drawn(r)']_vars

\* A loaded room with enough players starts, however often its start is
\* delayed by errors, unless the third of them deactivates it.
ReadyRoomStarts ==
    \A r \in Rooms :
        roomStates[r].status = "pending" /\ PlayerCount(r) >= MinPlayers
            ~> roomStates[r].status \in {"started", "deactivated"}

\* As long as no database call fails, a room whose cards are dealt is FINISHED
\* in the database in the end, and for good, whatever older statements of the
\* sync still arrive.
DealtRoomFinishes ==
    \A r \in Rooms :
        Held(r) # {} ~> (faults.errors > 0 \/ [](rowStatus[r] = "finished"))

\* The database learns of every deactivation, even if the immediate update is
\* lost: the sync repeats it.
DeactivationReachesTheRow ==
    \A r \in Rooms :
        roomStates[r].status = "deactivated" ~> [](rowStatus[r] = "deactivated")

-----------------------------------------------------------------------------
(***************************************************************************)
(* What the tables promise to their readers                                *)
(***************************************************************************)
\* The timer of a room runs below zero only while its row cannot be read.
RowSeconds == -(MaxErrors + MaxRestarts)..StartTimer

Rows == INSTANCE RoomRows WITH
    Played <- Rooms, WinTypes <- WinType, Seconds <- RowSeconds,
    MaxReserved <- MaxReservations,
    status <- rowStatus, seconds <- rowSeconds,
    reserved <- [r \in Rooms |-> PlayerCount(r)],
    drawn <- [r \in Rooms |-> Drawn(r)],
    winners <- [r \in Rooms |-> {t \in WinType : winnerRows[r][t] # <<>>}]

\* Whoever only reads the tables sees a game that starts once, draws and wins
\* only while it is STARTED, and is FINISHED only after a full-card win,
\* whatever the order of loop, sync, reservations and restarts behind it.
ImplementsRoomRows == Rows!Spec

=============================================================================
