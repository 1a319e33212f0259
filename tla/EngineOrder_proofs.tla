------------------------- MODULE EngineOrder_proofs -------------------------
(***************************************************************************)
(* What memory, rows and the program counter of the main loop know of each *)
(* other, for every set of users, cards and numbers and every bound.       *)
(*                                                                         *)
(* Through every fault: LifeIsOrdered, TransactionIsWhole and with them    *)
(* ChargesBringCards and FullWinEndsDrawing.                               *)
(*                                                                         *)
(* Some promises do not survive every fault.  Their theorems assume, of    *)
(* the fault bounds, the weakest condition under which they are known:     *)
(*   Unovertaken      UsersPayOnce, CardsHaveOneOwner                      *)
(*   NothingRepeated  MemoryIsTheTable, NumbersAreDrawnOnce                *)
(*   InOrder          APendingRoomIsOpen, EngineImplementsRoomRows,        *)
(*                    SystemImplementsGateway, SystemTellsOfWins,          *)
(*                    SystemShowsNumbers                                   *)
(* With statements in order each of them leaves restarts unlimited.        *)
(***************************************************************************)
EXTENDS GameEngine_proofs, MCGameEngine, EngineAndGateway

-----------------------------------------------------------------------------
(***************************************************************************)
(* What each step does to the main loop and to the statuses in memory      *)
(***************************************************************************)
\* Memory of the other rooms keeps its status, and that of r becomes s.
Becomes(r, s) ==
    \A q \in Rooms : roomStates'[q].status = IF q = r THEN s ELSE roomStates[q].status

\* The error counter may have deactivated r.
MayDeactivate(r) == Becomes(r, roomStates[r].status) \/ Becomes(r, "deactivated")

\* The statuses in memory do not change.
StatusesStay == \A q \in Rooms : roomStates'[q].status = roomStates[q].status

\* Where the main loop awaits after the step, and for which room.
LoopIs(step, r) == main'.at = step /\ main'.room = r

\* LeaveRoom and GoTo say where the main loop awaits next.
LEMMA MainGoes ==
    ASSUME TypeOK
    PROVE  /\ LeaveRoom => LoopIs("loop", NoRoom)
           /\ \A step : GoTo(step) => LoopIs(step, main.room)
  BY DEF TypeOK, MainState, LeaveRoom, GoTo, LoopIs

\* One room's memory is replaced.
LEMMA StatusOfOne ==
    ASSUME TypeOK, NEW r \in Rooms, NEW s, roomStates' = [roomStates EXCEPT ![r] = s]
    PROVE  Becomes(r, s.status)
  BY DEF Becomes, TypeOK

\* handleRoomError leaves the status or deactivates, and only this room.
LEMMA ErrorEffect ==
    ASSUME TypeOK, NEW r \in Rooms, NEW s \in RoomState, handleRoomError(r, s),
           s.status \in {roomStates[r].status, "deactivated"}
    PROVE  MayDeactivate(r) /\ deactivating' \subseteq deactivating \cup {r}
<1>1. ErrorCounted(s).status \in {s.status, "deactivated"}
  BY DEF ErrorCounted, RoomState
<1>2. Becomes(r, ErrorCounted(s).status)
  BY StatusOfOne DEF handleRoomError
<1>3. deactivating' \subseteq deactivating \cup {r}
  BY DEF handleRoomError
<1> QED
  BY <1>1, <1>2, <1>3 DEF MayDeactivate

\* A room is loaded PENDING.
LEMMA LoadEffect ==
    ASSUME TypeOK, NEW r \in Rooms, NEW n, LoadRoom(r, n)
    PROVE  Becomes(r, "pending")
  BY DEF LoadRoom, addRoomToState, Unloaded, Becomes, TypeOK

\* The start-up.
LEMMA BootEffect ==
    ASSUME TypeOK
    PROVE  /\ cleanupAllDuplicateNumbers => LoopIs("recover", main.room)
           /\ recoverActiveRooms =>
                /\ LoopIs("ensure", main.room)
                /\ \A q \in Rooms :
                        \/ roomStates'[q].status = roomStates[q].status
                        \/ rowStatus[q] = "started" /\ roomStates'[q].status = "started"
           /\ ensurePendingRooms =>
                /\ LoopIs("loop", main.room)
                /\ \/ UNCHANGED <<rowStatus, rowSeconds>> /\ StatusesStay
                   \/ /\ UNCHANGED <<rowStatus, rowSeconds>>
                      /\ \E r \in PendingRows : Becomes(r, "pending")
                   \/ /\ Absent # {} /\ PendingRows = {}
                      /\ InsertPendingRow(NextId) /\ Becomes(NextId, "pending")
<1>1. cleanupAllDuplicateNumbers => LoopIs("recover", main.room)
  BY MainGoes DEF cleanupAllDuplicateNumbers
<1>2. ASSUME recoverActiveRooms
      PROVE  /\ LoopIs("ensure", main.room)
             /\ \A q \in Rooms :
                        \/ roomStates'[q].status = roomStates[q].status
                        \/ rowStatus[q] = "started" /\ roomStates'[q].status = "started"
  BY <1>2, MainGoes DEF recoverActiveRooms, Recovered
<1>3. ASSUME ensurePendingRooms
      PROVE  /\ LoopIs("loop", main.room)
             /\ \/ UNCHANGED <<rowStatus, rowSeconds>> /\ StatusesStay
                \/ /\ UNCHANGED <<rowStatus, rowSeconds>>
                   /\ \E r \in PendingRows : Becomes(r, "pending")
                \/ /\ Absent # {} /\ PendingRows = {}
                   /\ InsertPendingRow(NextId) /\ Becomes(NextId, "pending")
  BY <1>3, MainGoes, LoadEffect, NextIdIsARoom
     DEF ensurePendingRooms, StatusesStay, PendingRows
<1> QED
  BY <1>1, <1>2, <1>3

\* The next room.
LEMMA CreateEffect ==
    ASSUME TypeOK
    PROVE  /\ PendingRoomExists => LoopIs("loop", NoRoom)
           /\ NoPendingRoom => LoopIs("insertPending", main.room)
           /\ createNewPendingRoom => LoopIs("loop", NoRoom) /\ Becomes(NextId, "pending")
           /\ createNewPendingRoomFails => LoopIs("loop", NoRoom)
           /\ EndIteration => LoopIs("loop", NoRoom)
           /\ Crash => LoopIs("cleanup", NoRoom)
<1>1. createNewPendingRoom => Becomes(NextId, "pending")
  BY LoadEffect, NextIdIsARoom DEF createNewPendingRoom
<1> QED
  BY <1>1, MainGoes DEF PendingRoomExists, NoPendingRoom, createNewPendingRoom,
     createNewPendingRoomFails, EndIteration, Crash, Idle, LoopIs

\* A visit and the expiry of a timer.
LEMMA VisitEffect ==
    ASSUME TypeOK, NEW r \in Rooms
    PROVE  /\ processRoomTimer(r) => StatusesStay /\ (LoopIs("loop", NoRoom) \/ LoopIs("expired", r))
           /\ PassRoom(r) => LoopIs("loop", main.room)
           /\ DrawNumber(r) => StatusesStay /\ LoopIs("saveNumber", r)
           /\ resetRoomTimer(r) => Becomes(r, "pending") /\ LoopIs("loop", NoRoom)
           /\ EnoughPlayers(r) => LoopIs("begin", r)
           /\ TimerExpiredFails(r) => MayDeactivate(r) /\ LoopIs("loop", NoRoom)
                                      /\ deactivating' \subseteq deactivating \cup {r}
<1>0. roomStates[r] \in RoomState /\ main \in MainState
  BY DEF TypeOK
<1>1. ASSUME processRoomTimer(r)
      PROVE  StatusesStay /\ (LoopIs("loop", NoRoom) \/ LoopIs("expired", r))
  <2>1. Becomes(r, [roomStates[r] EXCEPT !.remainingSeconds = @ - 1].status)
    BY <1>1, StatusOfOne DEF processRoomTimer
  <2>2. StatusesStay
    BY <1>0, <2>1 DEF Becomes, StatusesStay, RoomState
  <2>3. LoopIs("loop", NoRoom) \/ LoopIs("expired", r)
    BY <1>0, <1>1 DEF processRoomTimer, LoopIs, MainState
  <2> QED
    BY <2>2, <2>3
<1>2. PassRoom(r) => LoopIs("loop", main.room)
  BY <1>0 DEF PassRoom, Unvisited, LoopIs, MainState
<1>3. ASSUME DrawNumber(r) PROVE StatusesStay /\ LoopIs("saveNumber", r)
  <2>1. PICK n : roomStates' = [roomStates EXCEPT ![r].remainingNumbers = @ \ {n},
                                                  ![r].drawnNumbers = @ \cup {n}]
    BY <1>3 DEF DrawNumber
  <2>2. Becomes(r, [roomStates[r] EXCEPT !.remainingNumbers = @ \ {n},
                                         !.drawnNumbers = @ \cup {n}].status)
    BY <2>1, StatusOfOne DEF TypeOK
  <2>3. StatusesStay
    BY <1>0, <2>2 DEF Becomes, StatusesStay, RoomState
  <2>4. LoopIs("saveNumber", r)
    BY <1>3 DEF DrawNumber, LoopIs
  <2> QED
    BY <2>3, <2>4
<1>4. ASSUME resetRoomTimer(r) PROVE Becomes(r, "pending") /\ LoopIs("loop", NoRoom)
  <2>1. Becomes(r, [roomStates[r] EXCEPT !.remainingSeconds = StartTimer,
                                         !.status = "pending"].status)
    BY <1>4, StatusOfOne DEF resetRoomTimer, TypeOK
  <2>2. Becomes(r, "pending")
    BY <1>0, <2>1 DEF Becomes, RoomState
  <2> QED
    BY <1>4, <2>2, MainGoes DEF resetRoomTimer
<1>5. EnoughPlayers(r) => LoopIs("begin", r)
  BY MainGoes DEF EnoughPlayers
<1>6. TimerExpiredFails(r) => MayDeactivate(r) /\ LoopIs("loop", NoRoom)
                              /\ deactivating' \subseteq deactivating \cup {r}
  BY <1>0, MainGoes, ErrorEffect DEF TimerExpiredFails
<1> QED
  BY <1>1, <1>2, <1>3, <1>4, <1>5, <1>6

\* The start transaction.
LEMMA StartEffect ==
    ASSUME TypeOK, NEW r \in Rooms
    PROVE  /\ startGame(r) => Becomes(r, "started") /\ LoopIs("purchase", r)
           /\ processCardPurchases(r) => LoopIs("distribute", r)
           /\ distributeCardsToUsers(r) => LoopIs("commit", r)
           /\ CommitStart(r) => LoopIs("findPending", r)
           /\ AbortStart(r) => MayDeactivate(r) /\ LoopIs("loop", NoRoom)
                               /\ deactivating' \subseteq deactivating \cup {r}
<1>0. roomStates[r] \in RoomState
  BY DEF TypeOK
<1>1. ASSUME startGame(r) PROVE Becomes(r, "started")
  <2>1. Becomes(r, [roomStates[r] EXCEPT !.status = "started", !.remainingNumbers = Numbers,
                                         !.drawnNumbers = {}].status)
    BY <1>1, StatusOfOne DEF startGame, TypeOK
  <2> QED
    BY <1>0, <2>1 DEF Becomes, RoomState
<1>2. ASSUME AbortStart(r) PROVE MayDeactivate(r) /\ deactivating' \subseteq deactivating \cup {r}
  <2>1. ErrorCounted(roomStates[r]) \in RoomState
    BY <1>0, CountedTyped
  <2>2. ErrorCounted(roomStates[r]).status \in {roomStates[r].status, "deactivated"}
    BY <1>0 DEF ErrorCounted, RoomState
  <2>3. CASE handleRoomError(r, ErrorCounted(roomStates[r]))
    BY <2>1, <2>2, <2>3, ErrorEffect
  <2>4. CASE handleRoomError(r, roomStates[r])
    BY <1>0, <2>4, ErrorEffect
  <2> QED
    BY <1>2, <2>3, <2>4 DEF AbortStart
<1> QED
  BY <1>1, <1>2, MainGoes DEF startGame, processCardPurchases, distributeCardsToUsers,
     CommitStart, AbortStart

\* A drawn number and the checks that follow it.
LEMMA DrawEffect ==
    ASSUME TypeOK, NEW r \in Rooms
    PROVE  /\ SaveDrawnNumber(r) => LoopIs("checkLine", r)
           /\ SaveDrawnNumberFails(r) => MayDeactivate(r) /\ LoopIs("loop", NoRoom)
                                         /\ deactivating' \subseteq deactivating \cup {r}
           /\ checkLineWinners(r) => LoopIs("checkFull", r)
           /\ checkFullWinners(r) => LoopIs("loop", NoRoom) \/ LoopIs("finishRow", r)
           /\ FinishRow(r) => LoopIs("report", r)
           /\ FinishRoom(r) => Becomes(r, "finished") /\ LoopIs("loop", NoRoom)
           /\ FinishFails(r) => LoopIs("loop", NoRoom)
<1>0. roomStates[r] \in RoomState
  BY DEF TypeOK
<1>1. ASSUME SaveDrawnNumberFails(r)
      PROVE  MayDeactivate(r) /\ deactivating' \subseteq deactivating \cup {r}
  <2> DEFINE s == [roomStates[r] EXCEPT !.drawnNumbers = @ \ {main.number},
                                        !.remainingNumbers = @ \cup {main.number}]
  <2>1. main.number \in Numbers
    BY <1>1 DEF SaveDrawnNumberFails, At, TypeOK, MainState
  <2>2. s \in RoomState /\ s.status = roomStates[r].status
    BY <1>0, <2>1 DEF RoomState
  <2> QED
    BY <1>1, <2>2, ErrorEffect DEF SaveDrawnNumberFails
<1>2. ASSUME FinishRoom(r) PROVE Becomes(r, "finished")
  <2>1. Becomes(r, [roomStates[r] EXCEPT !.status = "finished"].status)
    BY <1>2, StatusOfOne DEF FinishRoom
  <2> QED
    BY <1>0, <2>1 DEF Becomes, RoomState
<1> QED
  BY <1>1, <1>2, MainGoes DEF SaveDrawnNumber, SaveDrawnNumberFails, checkLineWinners,
     checkFullWinners, FinishRow, FinishRoom, FinishFails, At

-----------------------------------------------------------------------------
(***************************************************************************)
(* What holds through every fault                                          *)
(***************************************************************************)
\* The steps of the main loop from the draw of a number to its last check.
InGame == {"saveNumber", "checkLine", "checkFull", "finishRow", "report"}

\* What the main loop knows of the room it works for.
LoopKnowsStatus ==
    /\ main.at \in {"expired", "begin"} =>
        main.room \in Rooms /\ roomStates[main.room].status = "pending"
    /\ main.at \in InTransaction \cup InGame =>
        main.room \in Rooms /\ roomStates[main.room].status = "started"
    /\ main.at \in {"cleanup", "recover"} =>
        \A q \in Rooms : roomStates[q].status = "unloaded"

\* Nothing has happened in a room yet.
Fresh(r) ==
    /\ Held(r) = {} /\ Drawn(r) = {} /\ winnerRows[r]["full"] = <<>>
    /\ \A u \in Users : purchases[r][u] = <<>>

\* Only rooms with a row are loaded, reserved, synced or deactivated.
RowsExist ==
    /\ \A r \in Absent : roomStates[r].status = "unloaded" /\ Fresh(r)
    /\ sync.at = "sent" => sync.room \notin Absent
    /\ \A u \in Users : request[u] \notin Absent
    /\ deactivating \cap Absent = {}

\* The first start-up finds an empty table.
FirstBootIsEmpty == faults.restarts = 0 /\ main.at \in Booting => Absent = Rooms

\* MaxErrors, MaxLostAcks and MaxRestarts bound the faults.
FaultsBounded ==
    /\ faults.errors <= MaxErrors /\ faults.lostAcks <= MaxLostAcks
    /\ faults.restarts <= MaxRestarts

\* The main loop keeps track of the status its room has in memory.
LEMMA LoopKnowsStep ==
    ASSUME TypeOK, LoopKnowsStatus, Next
    PROVE  LoopKnowsStatus'
<1> USE DEF LoopKnowsStatus, LoopIs, InTransaction, InGame
<1>1. CASE Boot
  BY <1>1, BootEffect DEF Boot, cleanupAllDuplicateNumbers
<1>2. CASE CreatePending \/ EndIteration
  BY <1>2, CreateEffect DEF CreatePending, NoPendingRoom
<1>3. ASSUME NEW r \in Rooms, RoomStep(r) PROVE LoopKnowsStatus'
  <2> USE DEF Becomes, StatusesStay
  <2>1. CASE processRoomTimer(r) \/ PassRoom(r) \/ DrawNumber(r)
    BY <2>1, VisitEffect DEF processRoomTimer, PassRoom, DrawNumber, Unvisited
  <2>2. CASE resetRoomTimer(r) \/ EnoughPlayers(r) \/ TimerExpiredFails(r)
    BY <2>2, VisitEffect DEF EnoughPlayers
  <2>3. CASE startGame(r) \/ processCardPurchases(r) \/ distributeCardsToUsers(r)
    BY <2>3, StartEffect DEF processCardPurchases, distributeCardsToUsers
  <2>4. CASE CommitStart(r) \/ AbortStart(r)
    BY <2>4, StartEffect
  <2>5. CASE SaveDrawnNumber(r) \/ SaveDrawnNumberFails(r) \/ checkLineWinners(r)
    BY <2>5, DrawEffect DEF SaveDrawnNumber, checkLineWinners, At
  <2>6. CASE checkFullWinners(r) \/ FinishRow(r) \/ FinishRoom(r) \/ FinishFails(r)
    BY <2>6, DrawEffect DEF checkFullWinners, FinishRow, At
  <2> QED
    BY <1>3, <2>1, <2>2, <2>3, <2>4, <2>5, <2>6 DEF RoomStep
<1>4. CASE UNCHANGED <<roomStates, main>>
  BY <1>4
<1>5. CASE Crash
  BY <1>5 DEF Crash, Idle, Unloaded
<1>6. SyncJob \/ (\E r \in Rooms : Deactivate(r)) \/ (\E u \in Users : Reserve(u))
        => UNCHANGED <<roomStates, main>>
  BY DEF SyncJob, EndSync, SendSync, ApplySync, SyncRoom, SyncFails, Deactivate, Reserve,
     InsertReservation, CheckPending
<1> QED
  BY <1>1, <1>2, <1>3, <1>4, <1>5, <1>6 DEF Next, MainLoop

\* The INSERT of a PENDING row.
LEMMA PendingInserted ==
    ASSUME TypeOK, Absent # {}, InsertPendingRow(NextId)
    PROVE  /\ NextId \in Absent
           /\ \A q \in Rooms :
                rowStatus'[q] = IF q = NextId THEN "pending" ELSE rowStatus[q]
  BY NextIdIsARoom DEF InsertPendingRow, TypeOK

\* A row appears as PENDING, by the main loop only, and no row vanishes.
LEMMA RowsAppear ==
    ASSUME TypeOK, LoopKnowsStatus, RowsExist, Next, NEW q \in Rooms, rowStatus'[q] # rowStatus[q]
    PROVE  /\ rowStatus'[q] # "absent"
           /\ \/ q \notin Absent
              \/ /\ q = NextId /\ rowStatus'[q] = "pending"
                 /\ main.at \in {"ensure", "insertPending"} /\ main'.at = "loop"
<1>0. rowStatus \in [Rooms -> RoomStatus \cup {"absent"}] /\ "absent" \notin RoomStatus
  BY DEF TypeOK, RoomStatus
<1>1. CASE Boot
  BY <1>1, BootEffect, PendingInserted
     DEF Boot, cleanupAllDuplicateNumbers, recoverActiveRooms, ensurePendingRooms, LoopIs, database
<1>2. CASE CreatePending \/ EndIteration
  BY <1>2, CreateEffect, PendingInserted
     DEF CreatePending, PendingRoomExists, NoPendingRoom, createNewPendingRoom,
         createNewPendingRoomFails, EndIteration, LoopIs, database
<1>3. ASSUME NEW r \in Rooms, RoomStep(r) PROVE rowStatus'[q] # "absent" /\ q \notin Absent
  <2>1. ASSUME Commit(r) \/ FinishRow(r), roomStates[r].status = "started"
        PROVE rowStatus'[q] # "absent" /\ q \notin Absent
    BY <1>0, <2>1 DEF Commit, FinishRow, RowsExist, Absent
  <2>2. CASE CommitStart(r) \/ AbortStart(r)
    <3>1. Commit(r) /\ roomStates[r].status = "started"
      BY <2>2 DEF CommitStart, AbortStart, LoopKnowsStatus, InTransaction, database
    <3> QED
      BY <2>1, <3>1
  <2>3. CASE FinishRow(r)
    BY <2>1, <2>3 DEF FinishRow, At, LoopKnowsStatus, InGame
  <2> QED
    BY <1>3, <2>2, <2>3 DEF RoomStep, processRoomTimer, PassRoom, DrawNumber, resetRoomTimer,
       EnoughPlayers, TimerExpiredFails, startGame, processCardPurchases,
       distributeCardsToUsers, SaveDrawnNumber, SaveDrawnNumberFails, checkLineWinners,
       checkFullWinners, FinishRoom, FinishFails, database
<1>4. ASSUME NEW r \in Rooms, ApplySync(r) \/ SyncRoom(r) \/ Deactivate(r)
      PROVE  rowStatus'[q] # "absent" /\ q \notin Absent
  <2>1. r \notin Absent
    BY <1>4 DEF ApplySync, SyncRoom, Unsynced, Loaded, Deactivate, RowsExist
  <2>2. \E s \in RoomStatus : rowStatus' = [rowStatus EXCEPT ![r] = s]
    <3>1. CASE ApplySync(r)
      BY <3>1 DEF ApplySync, WriteRow, TypeOK, SyncState
    <3>2. CASE SyncRoom(r)
      BY <3>2 DEF SyncRoom, Unsynced, Loaded, WriteRow, TypeOK, RoomState
    <3>3. CASE Deactivate(r)
      BY <3>3 DEF Deactivate, RoomStatus
    <3> QED
      BY <1>4, <3>1, <3>2, <3>3
  <2> QED
    BY <1>0, <2>1, <2>2
<1>5. SendSync(q) \/ EndSync \/ Crash => UNCHANGED rowStatus
  BY DEF SendSync, EndSync, Crash, database
<1>6. (\E r \in Rooms : SendSync(r) \/ SyncFails(r)) \/ (\E u \in Users : Reserve(u))
        => UNCHANGED rowStatus
  BY DEF SendSync, SyncFails, Reserve, InsertReservation, CheckPending, database
<1> QED
  BY <1>1, <1>2, <1>3, <1>4, <1>5, <1>6 DEF Next, MainLoop, SyncJob

\* No row is ever deleted.
LEMMA RowsAreKept ==
    ASSUME TypeOK, LoopKnowsStatus, RowsExist, Next
    PROVE  Absent' \subseteq Absent
  BY RowsAppear DEF Absent

\* A room is loaded together with, or after, the INSERT of its row.
LEMMA LoadedRoomsHaveRows ==
    ASSUME TypeOK, LoopKnowsStatus, RowsExist, Next, NEW q \in Absent'
    PROVE  roomStates'[q].status = "unloaded"
<1>0. q \in Absent /\ q \in Rooms /\ rowStatus'[q] = "absent"
  BY RowsAreKept DEF Absent
<1>1. roomStates[q].status = "unloaded" /\ rowStatus[q] = "absent"
  BY <1>0 DEF RowsExist, Absent
<1>2. CASE Boot
  BY <1>0, <1>1, <1>2, BootEffect, PendingInserted
     DEF Boot, cleanupAllDuplicateNumbers, PendingRows, Becomes, StatusesStay
<1>3. CASE CreatePending \/ EndIteration
  BY <1>0, <1>1, <1>3, CreateEffect, PendingInserted
     DEF CreatePending, PendingRoomExists, NoPendingRoom, createNewPendingRoom,
         createNewPendingRoomFails, EndIteration, Becomes
<1>4. ASSUME NEW r \in Rooms, RoomStep(r) PROVE roomStates'[q].status = "unloaded"
  <2> USE DEF Becomes, MayDeactivate, StatusesStay
  <2>1. CASE processRoomTimer(r) \/ DrawNumber(r)
    BY <1>0, <1>1, <2>1, VisitEffect
  <2>2. CASE resetRoomTimer(r) \/ TimerExpiredFails(r)
    BY <1>0, <1>1, <2>2, VisitEffect DEF resetRoomTimer, TimerExpiredFails, LoopKnowsStatus
  <2>3. CASE startGame(r) \/ AbortStart(r)
    BY <1>0, <1>1, <2>3, StartEffect DEF startGame, AbortStart, LoopKnowsStatus
  <2>4. CASE SaveDrawnNumberFails(r) \/ FinishRoom(r)
    BY <1>0, <1>1, <2>4, DrawEffect
       DEF SaveDrawnNumberFails, FinishRoom, At, LoopKnowsStatus, InGame
  <2> QED
    BY <1>1, <1>4, <2>1, <2>2, <2>3, <2>4 DEF RoomStep, PassRoom, EnoughPlayers,
       processCardPurchases, distributeCardsToUsers, CommitStart, SaveDrawnNumber,
       checkLineWinners, checkFullWinners, FinishRow, FinishFails
<1>5. Crash => roomStates'[q].status = "unloaded"
  BY <1>0 DEF Crash, Unloaded
<1>6. SyncJob \/ (\E r \in Rooms : Deactivate(r)) \/ (\E u \in Users : Reserve(u))
        => UNCHANGED roomStates
  BY DEF SyncJob, EndSync, SendSync, ApplySync, SyncRoom, SyncFails, Deactivate, Reserve,
     InsertReservation, CheckPending
<1> QED
  BY <1>1, <1>2, <1>3, <1>4, <1>5, <1>6 DEF Next, MainLoop

\* What a room has been dealt, charged, drawn and won is written by the steps
\* of a start and of a game only.
LEMMA FreshStays ==
    ASSUME TypeOK, LoopKnowsStatus, Next, NEW q \in Rooms, Fresh(q)
    PROVE  \/ Fresh(q)'
           \/ /\ CommitStart(q) \/ AbortStart(q) \/ SaveDrawnNumber(q)
                 \/ SaveDrawnNumberFails(q) \/ checkFullWinners(q)
              /\ roomStates[q].status = "started"
<1>0. /\ reservedCards \in [Rooms -> CardsHeld]
      /\ purchases \in [Rooms -> [Users -> Seq(Nat)]]
      /\ drawnRows \in [Rooms -> [Numbers -> Nat]]
      /\ winnerRows \in [Rooms -> [WinType -> Seq(CardsHeld)]]
  BY DEF TypeOK
<1>1. CASE UNCHANGED game
  BY <1>1 DEF game, Fresh, Held, Drawn
<1>2. CASE cleanupAllDuplicateNumbers
  <2>1. \A n \in Numbers : drawnRows[q][n] = 0
    BY <1>0 DEF Fresh, Drawn
  <2>2. \A n \in Numbers : drawnRows'[q][n] = 0
    BY <1>0, <1>2, <2>1 DEF cleanupAllDuplicateNumbers, Cleaned, Smaller
  <2> QED
    BY <1>2, <2>2 DEF cleanupAllDuplicateNumbers, Fresh, Held, Drawn
<1>3. ASSUME NEW r \in Rooms, RoomStep(r)
      PROVE  \/ Fresh(q)'
             \/ /\ CommitStart(q) \/ AbortStart(q) \/ SaveDrawnNumber(q)
                   \/ SaveDrawnNumberFails(q) \/ checkFullWinners(q)
                /\ roomStates[q].status = "started"
  <2>1. CASE r = q /\ (CommitStart(q) \/ AbortStart(q) \/ SaveDrawnNumber(q)
                       \/ SaveDrawnNumberFails(q) \/ checkFullWinners(q))
    BY <2>1 DEF CommitStart, AbortStart, SaveDrawnNumber, SaveDrawnNumberFails,
       checkFullWinners, At, LoopKnowsStatus, InTransaction, InGame
  <2>2. CASE r # q /\ (CommitStart(r) \/ AbortStart(r))
    <3>1. Commit(r) \/ UNCHANGED game
      BY <2>2 DEF CommitStart, AbortStart, database, game
    <3>2. ASSUME Commit(r) PROVE Fresh(q)'
      BY <1>0, <2>2, <3>2 DEF Commit, Fresh, Held, Drawn
    <3> QED
      BY <1>1, <3>1, <3>2
  <2>3. CASE r # q /\ (SaveDrawnNumber(r) \/ SaveDrawnNumberFails(r))
    <3>1. drawnRows'[q] = drawnRows[q]
      BY <1>0, <2>3 DEF SaveDrawnNumber, SaveDrawnNumberFails, InsertDrawnRow
    <3> QED
      BY <2>3, <3>1 DEF SaveDrawnNumber, SaveDrawnNumberFails, Fresh, Held, Drawn
  <2>4. CASE checkLineWinners(r) \/ (r # q /\ checkFullWinners(r))
    <3>1. winnerRows'[q]["full"] = winnerRows[q]["full"]
      BY <1>0, <2>4 DEF checkLineWinners, checkFullWinners, SaveWinners, WinType
    <3> QED
      BY <2>4, <3>1 DEF checkLineWinners, checkFullWinners, Fresh, Held, Drawn
  <2> QED
    BY <1>1, <1>3, <2>1, <2>2, <2>3, <2>4 DEF RoomStep, processRoomTimer, PassRoom,
       DrawNumber, resetRoomTimer, EnoughPlayers, TimerExpiredFails, startGame,
       processCardPurchases, distributeCardsToUsers, FinishRow, FinishRoom, FinishFails,
       database, game
<1>4. recoverActiveRooms \/ ensurePendingRooms \/ CreatePending \/ EndIteration \/ SyncJob
      \/ (\E r \in Rooms : Deactivate(r)) \/ (\E u \in Users : Reserve(u)) \/ Crash
        => UNCHANGED game
  BY DEF recoverActiveRooms, ensurePendingRooms, CreatePending, PendingRoomExists,
     NoPendingRoom, createNewPendingRoom, createNewPendingRoomFails, EndIteration, SyncJob,
     EndSync, SendSync, ApplySync, SyncRoom, SyncFails, Deactivate, Reserve, CheckPending,
     InsertReservation, Crash, database, game
<1> QED
  BY <1>1, <1>2, <1>3, <1>4 DEF Next, MainLoop, Boot

\* The sync job sends a statement, or rests after the step as it did before.
LEMMA SyncMoves ==
    ASSUME TypeOK, Next
    PROVE  UNCHANGED sync \/ sync'.at = "loop" \/ \E r \in Rooms : SendSync(r)
<1>1. MainLoop \/ (\E r \in Rooms : Deactivate(r)) \/ (\E u \in Users : Reserve(u))
        => UNCHANGED sync
  BY DEF MainLoop, Boot, CreatePending, RoomStep, Reserve,
     cleanupAllDuplicateNumbers, recoverActiveRooms, ensurePendingRooms, EndIteration,
     PendingRoomExists, NoPendingRoom, createNewPendingRoom, createNewPendingRoomFails,
     processRoomTimer, PassRoom, DrawNumber, resetRoomTimer, EnoughPlayers,
     TimerExpiredFails, startGame, processCardPurchases, distributeCardsToUsers,
     CommitStart, AbortStart, SaveDrawnNumber, SaveDrawnNumberFails, checkLineWinners,
     checkFullWinners, FinishRow, FinishRoom, FinishFails, Deactivate, CheckPending,
     InsertReservation
<1>2. \A r : SyncDone(r) => sync'.at = "loop"
  BY DEF SyncDone, SyncIdle
<1>3. ASSUME NEW r \in Rooms, ApplySync(r) \/ SyncRoom(r) \/ SyncFails(r)
      PROVE  sync'.at = "loop"
  BY <1>2, <1>3 DEF ApplySync, SyncRoom, SyncFails
<1>4. EndSync \/ Crash => sync'.at = "loop"
  BY DEF EndSync, Crash, SyncIdle
<1> QED
  BY <1>1, <1>3, <1>4 DEF Next, SyncJob

\* Statements under way name rooms that have a row.
LEMMA StatementsNameRows ==
    ASSUME TypeOK, LoopKnowsStatus, RowsExist, Next
    PROVE  /\ sync'.at = "sent" => sync'.room \notin Absent
           /\ \A u \in Users : request'[u] \notin Absent
           /\ deactivating' \cap Absent = {}
<1>0. NoRoom \notin Rooms /\ NoRoom \notin Absent
  BY BoundsAssumption DEF NoRoom, Rooms, Absent
<1>1. sync'.at = "sent" => sync'.room \notin Absent
  <2>1. UNCHANGED sync \/ sync'.at = "loop" \/ \E r \in Rooms : SendSync(r)
    BY SyncMoves
  <2>2. ASSUME NEW r \in Rooms, SendSync(r) PROVE sync'.room \notin Absent
    BY <2>2 DEF SendSync, Unsynced, Loaded, RowsExist
  <2> QED
    BY <2>1, <2>2 DEF RowsExist
<1>2. ASSUME NEW u \in Users PROVE request'[u] \notin Absent
  <2>0. request \in [Users -> Rooms \cup {NoRoom}] /\ \A v \in Users : request[v] \notin Absent
    BY DEF TypeOK, RowsExist
  <2>1. CASE \E v \in Users : Reserve(v)
    BY <1>0, <2>0, <2>1 DEF Reserve, CheckPending, InsertReservation, Absent
  <2>2. CASE Crash
    BY <1>0, <2>2 DEF Crash
  <2>3. MainLoop \/ SyncJob \/ (\E r \in Rooms : Deactivate(r)) => UNCHANGED request
    BY DEF MainLoop, Boot, CreatePending, RoomStep, SyncJob,
         cleanupAllDuplicateNumbers, recoverActiveRooms, ensurePendingRooms, EndIteration,
         PendingRoomExists, NoPendingRoom, createNewPendingRoom, createNewPendingRoomFails,
         processRoomTimer, PassRoom, DrawNumber, resetRoomTimer, EnoughPlayers,
         TimerExpiredFails, startGame, processCardPurchases, distributeCardsToUsers,
         CommitStart, AbortStart, SaveDrawnNumber, SaveDrawnNumberFails, checkLineWinners,
         checkFullWinners, FinishRow, FinishRoom, FinishFails, EndSync, SendSync, ApplySync,
         SyncRoom, SyncFails, Deactivate
  <2> QED
    BY <2>0, <2>1, <2>2, <2>3 DEF Next
<1>3. deactivating' \cap Absent = {}
  <2>1. ASSUME NEW r \in Rooms, RoomStep(r) PROVE deactivating' \cap Absent = {}
    <3>1. CASE UNCHANGED deactivating
      BY <3>1 DEF RowsExist
    <3>2. CASE TimerExpiredFails(r) \/ AbortStart(r) \/ SaveDrawnNumberFails(r)
      <4>1. deactivating' \subseteq deactivating \cup {r}
        BY <3>2, VisitEffect, StartEffect, DrawEffect
      <4>2. r \notin Absent
        BY <3>2 DEF TimerExpiredFails, AbortStart, SaveDrawnNumberFails, At, LoopKnowsStatus,
           InGame, RowsExist
      <4> QED
        BY <4>1, <4>2 DEF RowsExist
    <3> QED
      BY <2>1, <3>1, <3>2 DEF RoomStep, processRoomTimer, PassRoom, DrawNumber,
         resetRoomTimer, EnoughPlayers, startGame, processCardPurchases,
         distributeCardsToUsers, CommitStart, SaveDrawnNumber, checkLineWinners,
         checkFullWinners, FinishRow, FinishRoom, FinishFails
  <2>2. Boot \/ CreatePending \/ EndIteration \/ SyncJob \/ (\E r \in Rooms : Deactivate(r))
        \/ (\E u \in Users : Reserve(u)) \/ Crash => deactivating' \subseteq deactivating
    BY DEF Boot, CreatePending, SyncJob, Reserve,
         cleanupAllDuplicateNumbers, recoverActiveRooms, ensurePendingRooms, EndIteration,
         PendingRoomExists, NoPendingRoom, createNewPendingRoom, createNewPendingRoomFails,
         EndSync, SendSync, ApplySync, SyncRoom, SyncFails, Deactivate, CheckPending,
         InsertReservation, Crash
  <2> QED
    BY <2>1, <2>2 DEF Next, MainLoop, RowsExist
<1> QED
  BY <1>1, <1>2, <1>3

\* Rooms without a row stay untouched.
LEMMA RowsExistStep ==
    ASSUME TypeOK, LoopKnowsStatus, RowsExist, Next
    PROVE  RowsExist'
<1>1. ASSUME NEW r \in Absent' PROVE roomStates'[r].status = "unloaded" /\ Fresh(r)'
  <2>1. r \in Absent /\ r \in Rooms
    BY RowsAreKept DEF Absent
  <2> QED
    BY <2>1, LoadedRoomsHaveRows, FreshStays DEF RowsExist
<1> QED
  BY <1>1, RowsAreKept, StatementsNameRows DEF RowsExist

\* How the fault counters move.
LEMMA FaultsMove ==
    ASSUME TypeOK, Next
    PROVE  \/ UNCHANGED faults
           \/ Fails \/ AckLost
           \/ Crash
  BY DEF Next, MainLoop, Boot, CreatePending, RoomStep, SyncJob, Reserve,
         cleanupAllDuplicateNumbers, recoverActiveRooms, ensurePendingRooms, EndIteration,
         PendingRoomExists, NoPendingRoom, createNewPendingRoom, createNewPendingRoomFails,
         processRoomTimer, PassRoom, DrawNumber, resetRoomTimer, EnoughPlayers,
         TimerExpiredFails, startGame, processCardPurchases, distributeCardsToUsers,
         CommitStart, AbortStart, SaveDrawnNumber, SaveDrawnNumberFails, checkLineWinners,
         checkFullWinners, FinishRow, FinishRoom, FinishFails, EndSync, SendSync, ApplySync,
         SyncRoom, SyncFails, Deactivate, CheckPending, InsertReservation, Crash

\* The counters of faults only grow, and a crash counts as one restart.
LEMMA FaultCounters ==
    ASSUME TypeOK, Next
    PROVE  /\ faults'.errors >= faults.errors /\ faults'.restarts >= faults.restarts
           /\ Fails => faults'.errors > faults.errors
           /\ faults'.restarts = faults.restarts \/ Crash
           /\ Crash => faults'.restarts = faults.restarts + 1
<1>1. faults \in [errors : Nat, lostAcks : Nat, restarts : Nat]
  BY DEF TypeOK, FaultCounts
<1> QED
  BY <1>1, FaultsMove DEF Fails, AckLost, Crash

\* The faults stay within their bounds.
LEMMA FaultsBoundedStep ==
    ASSUME TypeOK, FaultsBounded, Next
    PROVE  FaultsBounded'
<1>1. faults \in [errors : Nat, lostAcks : Nat, restarts : Nat]
  BY DEF TypeOK, FaultCounts
<1> QED
  BY <1>1, FaultsMove, BoundsAssumption DEF FaultsBounded, Fails, AckLost, Crash

\* Until the first start-up ends nobody inserts a row.
LEMMA FirstBootStep ==
    ASSUME TypeOK, LoopKnowsStatus, RowsExist, FirstBootIsEmpty, Next
    PROVE  FirstBootIsEmpty'
<1> SUFFICES ASSUME faults'.restarts = 0, main'.at \in Booting PROVE Absent' = Rooms
  BY DEF FirstBootIsEmpty
<1>1. ~ Crash /\ faults.restarts = 0
  <2>1. faults.restarts \in Nat
    BY DEF TypeOK, FaultCounts
  <2> QED
    BY <2>1, FaultCounters
<1>2. main.at \in Booting
  <2>1. CreatePending \/ EndIteration => FALSE
    BY CreateEffect DEF CreatePending, LoopIs, Booting
  <2>2. \A r \in Rooms : ~ RoomStep(r)
    BY VisitEffect, StartEffect, DrawEffect DEF RoomStep, LoopIs, Booting
  <2>3. SyncJob \/ (\E r \in Rooms : Deactivate(r)) \/ (\E u \in Users : Reserve(u))
        => UNCHANGED main
    BY DEF SyncJob, EndSync, SendSync, ApplySync, SyncRoom, SyncFails, Deactivate, Reserve,
       InsertReservation, CheckPending
  <2> QED
    BY <1>1, <2>1, <2>2, <2>3 DEF Next, MainLoop, Boot, cleanupAllDuplicateNumbers,
       recoverActiveRooms, ensurePendingRooms, Booting
<1>3. Absent = Rooms
  BY <1>1, <1>2 DEF FirstBootIsEmpty
<1>4. ASSUME NEW q \in Rooms PROVE rowStatus'[q] = rowStatus[q]
  <2>1. main'.at # "loop"
    BY DEF Booting
  <2> QED
    BY <1>3, <2>1, RowsAppear
<1> QED
  BY <1>3, <1>4 DEF Absent

\* What holds in every reachable state, whatever has failed.
LifeInv == LoopKnowsStatus /\ RowsExist /\ FirstBootIsEmpty /\ FaultsBounded

\* The invariant of the rooms' life holds of the empty database.
LEMMA InitLife == Init => LifeInv
<1> SUFFICES ASSUME Init PROVE LifeInv
  OBVIOUS
<1>0. NoRoom \notin Rooms /\ \A r \in Rooms : rowStatus[r] = "absent"
  BY BoundsAssumption DEF Init, NoRoom, Rooms
<1>1. Absent = Rooms /\ NoRoom \notin Absent
  BY <1>0 DEF Absent
<1>2. LoopKnowsStatus /\ FirstBootIsEmpty
  BY <1>1 DEF Init, LoopKnowsStatus, FirstBootIsEmpty, Idle, Unloaded, InTransaction, InGame
<1>3. \A r \in Rooms : roomStates[r].status = "unloaded" /\ Fresh(r)
  BY DEF Init, Unloaded, Fresh, Held, Drawn, WinType
<1>4. RowsExist
  BY <1>1, <1>3 DEF Init, RowsExist, SyncIdle
<1>5. FaultsBounded
  BY BoundsAssumption DEF Init, FaultsBounded
<1> QED
  BY <1>2, <1>4, <1>5 DEF LifeInv

\* The invariant of the rooms' life is inductive relative to TypeOK.
LEMMA LifeStep == TypeOK /\ LifeInv /\ [Next]_vars => LifeInv'
<1>1. ASSUME TypeOK, LifeInv, Next PROVE LifeInv'
  BY <1>1, LoopKnowsStep, RowsExistStep, FirstBootStep, FaultsBoundedStep DEF LifeInv
<1>2. ASSUME LifeInv, UNCHANGED vars PROVE LifeInv'
  BY <1>2 DEF LifeInv, LoopKnowsStatus, RowsExist, FirstBootIsEmpty, FaultsBounded, Fresh,
     Absent, Held, Drawn, vars
<1> QED
  BY <1>1, <1>2

\* The life of rooms, through every fault.
THEOREM LifeIsOrdered == Spec => []LifeInv
  BY InitLife, LifeStep, TypeCorrect, PTL DEF Spec

-----------------------------------------------------------------------------
\* A full-card win is on its way to memory, or has arrived there.
WinIsReported ==
    \A r \in Rooms :
        winnerRows[r]["full"] # <<>> /\ faults.errors + faults.restarts = 0 =>
            \/ roomStates[r].status \in {"finished", "deactivated"}
            \/ main.room = r /\ main.at \in {"finishRow", "report"}

\* A room that is over stays over, until the process is started again.
LEMMA OverStaysOver ==
    ASSUME TypeOK, LifeInv, Next, faults'.restarts = 0, NEW q \in Rooms,
           roomStates[q].status \in {"finished", "deactivated"}
    PROVE  roomStates'[q].status \in {"finished", "deactivated"}
<1> USE DEF LifeInv
<1>0. faults.restarts = 0 /\ ~ Crash
  <2>1. faults.restarts \in Nat
    BY DEF TypeOK, FaultCounts
  <2> QED
    BY <2>1, FaultCounters
<1>1. q \notin Absent
  BY DEF RowsExist
<1>2. ~ Boot
  BY <1>0, <1>1 DEF Boot, cleanupAllDuplicateNumbers, recoverActiveRooms, ensurePendingRooms,
     FirstBootIsEmpty, Booting
<1>3. CASE CreatePending \/ EndIteration
  BY <1>1, <1>3, CreateEffect, NextIdIsARoom
     DEF CreatePending, PendingRoomExists, NoPendingRoom, createNewPendingRoom,
         createNewPendingRoomFails, EndIteration, Becomes
<1>4. ASSUME NEW r \in Rooms, RoomStep(r)
      PROVE  roomStates'[q].status \in {"finished", "deactivated"}
  <2> USE DEF Becomes, MayDeactivate, StatusesStay
  <2>1. CASE processRoomTimer(r) \/ DrawNumber(r)
    BY <2>1, VisitEffect
  <2>2. CASE resetRoomTimer(r) \/ TimerExpiredFails(r)
    BY <2>2, VisitEffect DEF resetRoomTimer, LoopKnowsStatus
  <2>3. CASE startGame(r) \/ AbortStart(r)
    BY <2>3, StartEffect DEF startGame, LoopKnowsStatus
  <2>4. CASE SaveDrawnNumberFails(r) \/ FinishRoom(r)
    BY <2>4, DrawEffect
  <2> QED
    BY <1>4, <2>1, <2>2, <2>3, <2>4 DEF RoomStep, PassRoom, EnoughPlayers,
       processCardPurchases, distributeCardsToUsers, CommitStart, SaveDrawnNumber,
       checkLineWinners, checkFullWinners, FinishRow, FinishFails
<1>5. SyncJob \/ (\E r \in Rooms : Deactivate(r)) \/ (\E u \in Users : Reserve(u))
        => UNCHANGED roomStates
  BY DEF SyncJob, EndSync, SendSync, ApplySync, SyncRoom, SyncFails, Deactivate, Reserve,
     InsertReservation, CheckPending
<1> QED
  BY <1>0, <1>2, <1>3, <1>4, <1>5 DEF Next, MainLoop

\* A check that finds full-card winners goes on to report them.
LEMMA FullWinIsNew ==
    ASSUME TypeOK, Next, NEW q \in Rooms, winnerRows[q]["full"] = <<>>,
           winnerRows'[q]["full"] # <<>>, ~ Fails
    PROVE  main'.room = q /\ main'.at = "finishRow"
<1>0. winnerRows \in [Rooms -> [WinType -> Seq(CardsHeld)]]
  BY DEF TypeOK
<1>1. PICK r \in Rooms : checkLineWinners(r) \/ checkFullWinners(r)
  BY WinnerWrites
<1>2. checkFullWinners(r) /\ r = q
  <2>1. \A w : SaveWinners(r, "line", w) => winnerRows'[q]["full"] = winnerRows[q]["full"]
    BY <1>0 DEF SaveWinners, WinType
  <2>2. \A w : SaveWinners(r, "full", w) /\ r # q => winnerRows'[q] = winnerRows[q]
    BY <1>0 DEF SaveWinners
  <2> QED
    BY <1>1, <2>1, <2>2 DEF checkLineWinners, checkFullWinners
<1>3. PICK winners : /\ SaveWinners(q, "full", winners)
                     /\ IF winners = {} THEN LeaveRoom ELSE GoTo("finishRow")
  BY <1>2 DEF checkFullWinners
<1>4. winners # {}
  BY <1>0, <1>3 DEF SaveWinners, WinType
<1> QED
  BY <1>2, <1>3, <1>4, MainGoes DEF checkFullWinners, At, LoopIs

\* From the winner rows on the main loop only finishes the room.
LEMMA FinishingGoesOn ==
    ASSUME TypeOK, Next, NEW q \in Rooms, main.room = q, main.at \in {"finishRow", "report"},
           ~ Fails, ~ Crash
    PROVE  UNCHANGED main \/ FinishRow(q) \/ FinishRoom(q)
<1>1. ~ Boot /\ ~ CreatePending /\ ~ EndIteration
  BY DEF Boot, cleanupAllDuplicateNumbers, recoverActiveRooms, ensurePendingRooms,
     CreatePending, PendingRoomExists, NoPendingRoom, createNewPendingRoom,
     createNewPendingRoomFails, EndIteration
<1>2. ASSUME NEW r \in Rooms, RoomStep(r) PROVE FinishRow(q) \/ FinishRoom(q)
  BY <1>2 DEF RoomStep, processRoomTimer, PassRoom, DrawNumber, Unvisited, resetRoomTimer,
     EnoughPlayers, TimerExpiredFails, startGame, processCardPurchases,
     distributeCardsToUsers, CommitStart, AbortStart, InTransaction, SaveDrawnNumber,
     SaveDrawnNumberFails, checkLineWinners, checkFullWinners, FinishRow, FinishRoom,
     FinishFails, At
<1>3. SyncJob \/ (\E r \in Rooms : Deactivate(r)) \/ (\E u \in Users : Reserve(u))
        => UNCHANGED main
  BY DEF SyncJob, EndSync, SendSync, ApplySync, SyncRoom, SyncFails, Deactivate, Reserve,
     InsertReservation, CheckPending
<1> QED
  BY <1>1, <1>2, <1>3 DEF Next, MainLoop

\* A full-card win keeps being on its way to memory, or known there.
LEMMA WinIsReportedStep == TypeOK /\ LifeInv /\ WinIsReported /\ [Next]_vars => WinIsReported'
<1>1. ASSUME TypeOK, LifeInv, WinIsReported, Next PROVE WinIsReported'
  <2> SUFFICES ASSUME NEW q \in Rooms, winnerRows'[q]["full"] # <<>>,
                      faults'.errors + faults'.restarts = 0
               PROVE  \/ roomStates'[q].status \in {"finished", "deactivated"}
                      \/ main'.room = q /\ main'.at \in {"finishRow", "report"}
    BY DEF WinIsReported
  <2>1. /\ faults'.restarts = 0 /\ faults.errors + faults.restarts = 0
        /\ ~ Fails /\ ~ Crash
    <3>1. faults \in FaultCounts /\ faults' \in FaultCounts
      BY <1>1, TypeStep DEF TypeOK
    <3> QED
      BY <1>1, <3>1, FaultCounters DEF FaultCounts
  <2>2. CASE winnerRows[q]["full"] = <<>>
    BY <1>1, <2>1, <2>2, FullWinIsNew
  <2>3. CASE roomStates[q].status \in {"finished", "deactivated"}
    BY <1>1, <2>1, <2>3, OverStaysOver
  <2>4. CASE main.room = q /\ main.at \in {"finishRow", "report"}
    <3>1. CASE FinishRow(q) \/ FinishRoom(q)
      BY <1>1, <3>1, DrawEffect DEF LoopIs, Becomes
    <3> QED
      BY <1>1, <2>1, <2>4, <3>1, FinishingGoesOn
  <2> QED
    BY <1>1, <2>1, <2>2, <2>3, <2>4 DEF WinIsReported
<1>2. ASSUME WinIsReported, UNCHANGED vars PROVE WinIsReported'
  BY <1>2 DEF WinIsReported, vars
<1> QED
  BY <1>1, <1>2

\* A room that has been won draws no more, unless something failed.
LEMMA NothingDrawnAfterWin ==
    ASSUME TypeOK, LifeInv, WinIsReported, Next, NEW r \in Rooms,
           winnerRows[r]["full"] # <<>>, drawnRows'[r] # drawnRows[r]
    PROVE  faults.restarts + faults.errors > 0
<1>0. faults \in FaultCounts
  BY DEF TypeOK
<1> SUFFICES ASSUME faults.errors + faults.restarts = 0 PROVE FALSE
  BY <1>0 DEF FaultCounts
<1>1. CASE cleanupAllDuplicateNumbers
  <2>1. faults.restarts = 0
    BY <1>0 DEF FaultCounts
  <2>2. r \in Absent
    BY <1>1, <2>1 DEF cleanupAllDuplicateNumbers, LifeInv, FirstBootIsEmpty, Booting
  <2> QED
    BY <2>2 DEF LifeInv, RowsExist, Fresh
<1>2. ASSUME NEW q \in Rooms, InsertDrawnRow(q), At("saveNumber", q) PROVE FALSE
  <2>1. q = r
    BY <1>2 DEF InsertDrawnRow, TypeOK
  <2> QED
    BY <1>2, <2>1 DEF At, WinIsReported, LifeInv, LoopKnowsStatus, InGame
<1> QED
  BY <1>1, <1>2, DrawnWrites

\* After the full card is won nothing is drawn, unless a database call failed
\* or the process was started again (auto-timer.service.ts processNumberDrawing).
THEOREM FullWinEndsDrawing == Spec => NoDrawAfterFullWin
<1>1. Init => WinIsReported
  BY DEF Init, WinIsReported, WinType
<1>2. Spec => []WinIsReported
  BY <1>1, WinIsReportedStep, TypeCorrect, LifeIsOrdered, PTL DEF Spec
<1>3. TypeOK /\ LifeInv /\ WinIsReported /\ [Next]_vars =>
        [\A r \in Rooms :
            winnerRows[r]["full"] # <<>> /\ drawnRows'[r] # drawnRows[r] =>
                faults.restarts + faults.errors > 0]_vars
  BY NothingDrawnAfterWin
<1> QED
  BY <1>2, <1>3, TypeCorrect, LifeIsOrdered, PTL DEF Spec, NoDrawAfterFullWin

\* The open start transaction: whoever is charged has reserved, and is dealt a
\* card as long as there are any; a user is charged at most once, a card goes
\* to one user.
TxInv ==
    /\ main.at \in {"distribute", "commit"} =>
            \A u \in Users : tx.charges[u] # <<>> => u \in Buyers(reservations[main.room])
    /\ main.at = "commit" => \A u \in Users : tx.charges[u] # <<>> => Served(u, tx.cards)
    /\ \A u \in Users : Len(tx.charges[u]) <= 1
    /\ \A h, k \in tx.cards : h[2] = k[2] => h[1] = k[1]

\* Nothing has been written by a transaction that has just begun.
LEMMA EmptyTx ==
    ASSUME tx' = NoTx
    PROVE  TxInv'
  BY DEF NoTx, TxInv

\* The reservations of a room, in whatever order they are read, are dealt
\* cards as GameEngine_proofs shows of a list.
LEMMA DealsCards ==
    ASSUME NEW rs \in Seq(Reservation), NEW os \in Orders(rs), NEW deck \in Shuffles
    PROVE  /\ \A h, k \in Dealt(os, deck) : h[2] = k[2] => h[1] = k[1]
           /\ \A u \in Buyers(rs) : Served(u, Dealt(os, deck))
<1>1. \A x \in Reservation : x.cardCount \in Nat \ {0}
  BY CardCountsAssumption DEF Reservation
<1>2. os \in Seq(Reservation) /\ Buyers(os) = Buyers(rs)
  BY OrdersKeepRows
<1>3. ASSUME NEW u \in Buyers(rs) PROVE Served(u, Dealt(os, deck))
  BY <1>1, <1>2, WhoeverReservedIsServed
<1> QED
  BY <1>1, <1>2, <1>3, CardsGoToOneUser

\* Whoever is served stays so when cards are added.
LEMMA ServedStays ==
    ASSUME NEW u, NEW c \in CardsHeld, NEW d \in CardsHeld, c \subseteq d, Served(u, c)
    PROVE  Served(u, d)
<1>1. \A h \in d : h[2] \in Cards
  BY DEF CardsHeld
<1> QED
  BY <1>1 DEF Served

\* One more reservation: nobody is lost.
LEMMA BuyersAreKept ==
    ASSUME NEW R, NEW s \in Seq(R), NEW x \in R
    PROVE  Buyers(s) \subseteq Buyers(Append(s, x))
<1>1. \A i \in DOMAIN s : i \in DOMAIN Append(s, x) /\ Append(s, x)[i] = s[i]
  OBVIOUS
<1> QED
  BY <1>1 DEF Buyers

\* Reservations are only added.
LEMMA ReservationsStay ==
    ASSUME TypeOK, Next, NEW r \in Rooms
    PROVE  Buyers(reservations[r]) \subseteq Buyers(reservations'[r])
<1>0. reservations \in [Rooms -> Seq(Reservation)]
  BY DEF TypeOK
<1>1. UNCHANGED reservations \/ \E u \in Users : InsertReservation(u)
  BY DEF Next, MainLoop, Boot, CreatePending, RoomStep, SyncJob, Reserve, database, game,
         cleanupAllDuplicateNumbers, recoverActiveRooms, ensurePendingRooms, EndIteration,
         PendingRoomExists, NoPendingRoom, createNewPendingRoom, createNewPendingRoomFails,
         processRoomTimer, PassRoom, DrawNumber, resetRoomTimer, EnoughPlayers,
         TimerExpiredFails, startGame, processCardPurchases, distributeCardsToUsers,
         CommitStart, AbortStart, Commit, SaveDrawnNumber, SaveDrawnNumberFails, FinishRow,
         checkLineWinners, checkFullWinners, FinishRoom, FinishFails, EndSync, SendSync,
         ApplySync, SyncRoom, SyncFails, Deactivate, CheckPending, Crash
<1>2. ASSUME NEW u \in Users, InsertReservation(u)
      PROVE  Buyers(reservations[r]) \subseteq Buyers(reservations'[r])
  <2>1. PICK x \in Reservation :
            reservations' = [reservations EXCEPT ![request[u]] = Append(@, x)]
    BY <1>2 DEF InsertReservation, Reservation
  <2>2. \A s \in Seq(Reservation) : Buyers(s) \subseteq Buyers(Append(s, x))
    BY <2>1, BuyersAreKept
  <2> QED
    BY <1>0, <2>1, <2>2
<1> QED
  BY <1>1, <1>2

\* How the start transaction moves.
LEMMA TxMoves ==
    ASSUME TypeOK, Next
    PROVE  \/ tx' = NoTx
           \/ UNCHANGED tx /\ main'.at \notin InTransaction
           \/ UNCHANGED <<tx, main>>
           \/ \E r \in Rooms : processCardPurchases(r) \/ distributeCardsToUsers(r)
<1>1. Boot \/ CreatePending \/ EndIteration => UNCHANGED tx /\ main'.at \notin InTransaction
  <2>1. UNCHANGED tx \/ ~ (Boot \/ CreatePending \/ EndIteration)
    BY DEF Boot, cleanupAllDuplicateNumbers, recoverActiveRooms, ensurePendingRooms,
       CreatePending, PendingRoomExists, NoPendingRoom, createNewPendingRoom,
       createNewPendingRoomFails, EndIteration
  <2>2. Boot \/ CreatePending \/ EndIteration => main'.at \notin InTransaction
    BY BootEffect, CreateEffect DEF Boot, CreatePending, LoopIs, InTransaction
  <2> QED
    BY <2>1, <2>2
<1>2. ASSUME NEW r \in Rooms, RoomStep(r)
      PROVE  \/ tx' = NoTx
             \/ UNCHANGED tx /\ main'.at \notin InTransaction
             \/ processCardPurchases(r) \/ distributeCardsToUsers(r)
  <2>1. CASE startGame(r) \/ CommitStart(r) \/ AbortStart(r)
    BY <2>1 DEF startGame, CommitStart, AbortStart
  <2>2. CASE processRoomTimer(r) \/ PassRoom(r) \/ DrawNumber(r) \/ resetRoomTimer(r)
             \/ EnoughPlayers(r) \/ TimerExpiredFails(r)
    <3>1. main'.at \notin InTransaction
      BY <2>2, VisitEffect DEF LoopIs, InTransaction
    <3> QED
      BY <2>2, <3>1 DEF processRoomTimer, PassRoom, DrawNumber, resetRoomTimer, EnoughPlayers,
         TimerExpiredFails
  <2>3. CASE SaveDrawnNumber(r) \/ SaveDrawnNumberFails(r) \/ checkLineWinners(r)
             \/ checkFullWinners(r) \/ FinishRow(r) \/ FinishRoom(r) \/ FinishFails(r)
    <3>1. main'.at \notin InTransaction
      BY <2>3, DrawEffect DEF LoopIs, InTransaction
    <3> QED
      BY <2>3, <3>1 DEF SaveDrawnNumber, SaveDrawnNumberFails, checkLineWinners,
         checkFullWinners, FinishRow, FinishRoom, FinishFails
  <2> QED
    BY <1>2, <2>1, <2>2, <2>3 DEF RoomStep
<1>3. SyncJob \/ (\E r \in Rooms : Deactivate(r)) \/ (\E u \in Users : Reserve(u))
        => UNCHANGED <<tx, main>>
  BY DEF SyncJob, EndSync, SendSync, ApplySync, SyncRoom, SyncFails, Deactivate, Reserve,
     InsertReservation, CheckPending
<1>4. Crash => tx' = NoTx
  BY DEF Crash
<1> QED
  BY <1>1, <1>2, <1>3, <1>4 DEF Next, MainLoop

\* The charges and the cards of a transaction come from the same reservations,
\* or from later ones.
LEMMA TxInvStep == TypeOK /\ LifeInv /\ TxInv /\ [Next]_vars => TxInv'
<1>1. ASSUME TypeOK, LifeInv, TxInv, Next PROVE TxInv'
  <2>0. tx \in TxState /\ reservations \in [Rooms -> Seq(Reservation)]
    BY <1>1 DEF TypeOK
  <2>1. CASE UNCHANGED tx /\ main'.at \notin InTransaction
    BY <1>1, <2>1 DEF TxInv, InTransaction
  <2>2. CASE UNCHANGED <<tx, main>>
    <3>1. main.at \in {"distribute", "commit"} => main.room \in Rooms
      BY <1>1 DEF LifeInv, LoopKnowsStatus, InTransaction
    <3> QED
      BY <1>1, <2>2, <3>1, ReservationsStay DEF TxInv
  <2>3. ASSUME NEW r \in Rooms, processCardPurchases(r) PROVE TxInv'
    <3> DEFINE charges == [u \in Users |-> IF u \in Buyers(reservations[r])
                             THEN <<PurchaseAmount(reservations[r], u)>> ELSE <<>>]
    <3>1. tx'.charges = charges /\ tx'.cards = tx.cards
      BY <2>0, <2>3 DEF processCardPurchases, TxState
    <3>2. \A u \in Users : Len(charges[u]) <= 1
      OBVIOUS
    <3>3. main'.at = "distribute" /\ main'.room = r /\ UNCHANGED reservations
      BY <1>1, <2>3, StartEffect DEF processCardPurchases, LoopIs, database
    <3>4. \A u \in Users : charges[u] # <<>> => u \in Buyers(reservations[r])
      OBVIOUS
    <3> QED
      BY <1>1, <3>1, <3>2, <3>3, <3>4 DEF TxInv
  <2>4. ASSUME NEW r \in Rooms, distributeCardsToUsers(r) PROVE TxInv'
    <3>1. PICK deck \in Shuffles, os \in Orders(reservations[r]) :
                tx' = [tx EXCEPT !.cards = Dealt(os, deck)]
      BY <2>4 DEF distributeCardsToUsers
    <3>2. tx'.charges = tx.charges /\ tx'.cards = Dealt(os, deck)
      BY <2>0, <3>1 DEF TxState
    <3>3. main'.at = "commit" /\ main'.room = r /\ UNCHANGED reservations
          /\ main.at = "distribute" /\ main.room = r
      BY <1>1, <2>4, StartEffect DEF distributeCardsToUsers, LoopIs, database
    <3>4. reservations[r] \in Seq(Reservation)
      BY <2>0
    <3> QED
      BY <1>1, <3>2, <3>3, <3>4, DealsCards DEF TxInv
  <2> QED
    BY <1>1, <2>1, <2>2, <2>3, <2>4, TxMoves, EmptyTx
<1>2. ASSUME TxInv, UNCHANGED vars PROVE TxInv'
  BY <1>2 DEF TxInv, vars
<1> QED
  BY <1>1, <1>2

\* purchases is written by the COMMIT of a start, with the cards.
LEMMA PurchaseWrites ==
    ASSUME Next
    PROVE  \/ UNCHANGED purchases
           \/ \E r \in Rooms : Commit(r) /\ main.at = "commit" /\ main.room = r
  BY DEF Next, MainLoop, Boot, CreatePending, RoomStep, SyncJob, Reserve, database, game,
         cleanupAllDuplicateNumbers, recoverActiveRooms, ensurePendingRooms, EndIteration,
         PendingRoomExists, NoPendingRoom, createNewPendingRoom, createNewPendingRoomFails,
         processRoomTimer, PassRoom, DrawNumber, resetRoomTimer, EnoughPlayers,
         TimerExpiredFails, startGame, processCardPurchases, distributeCardsToUsers,
         CommitStart, AbortStart, SaveDrawnNumber, SaveDrawnNumberFails, FinishRow,
         checkLineWinners, checkFullWinners, FinishRoom, FinishFails, EndSync, SendSync,
         ApplySync, SyncRoom, SyncFails, Deactivate, CheckPending, InsertReservation, Crash

\* A COMMIT that writes purchases writes cards.
LEMMA PurchasesComeWithCardsStep ==
    TypeOK /\ LifeInv /\ TxInv /\ PurchasesComeWithCards /\ [Next]_vars => PurchasesComeWithCards'
<1>1. ASSUME TypeOK, LifeInv, TxInv, PurchasesComeWithCards, Next
      PROVE  PurchasesComeWithCards'
  <2> SUFFICES ASSUME NEW q \in Rooms, NEW u \in Users, purchases'[q][u] # <<>>
               PROVE  Served(u, Held(q)')
    BY DEF PurchasesComeWithCards, Served
  <2>0. Held(q) \in CardsHeld /\ Held(q)' \in CardsHeld
    BY <1>1, TypeStep DEF TypeOK, Held
  <2>1. CASE purchases[q][u] # <<>>
    <3>1. Held(q) \subseteq Held(q)'
      BY <1>1, NothingTakenBack
    <3> QED
      BY <1>1, <2>0, <2>1, <3>1, ServedStays DEF PurchasesComeWithCards
  <2>2. CASE purchases[q][u] = <<>>
    <3>1. PICK r \in Rooms : Commit(r) /\ main.at = "commit" /\ main.room = r
      BY <1>1, <2>2, PurchaseWrites
    <3>2. /\ purchases \in [Rooms -> [Users -> Seq(Nat)]]
          /\ reservedCards \in [Rooms -> CardsHeld] /\ tx.charges \in [Users -> Seq(Nat)]
      BY <1>1 DEF TypeOK, TxState
    <3>3. r = q
      BY <2>2, <3>1, <3>2 DEF Commit
    <3>4. purchases'[q][u] = purchases[q][u] \o tx.charges[u]
      BY <3>1, <3>2, <3>3 DEF Commit
    <3>5. tx.charges[u] # <<>>
      BY <2>2, <3>2, <3>4
    <3>6. Held(q)' = Held(q) \cup tx.cards
      BY <3>1, <3>2, <3>3 DEF Commit, Held
    <3>7. Served(u, tx.cards) /\ tx.cards \in CardsHeld
      BY <1>1, <3>1, <3>5 DEF TxInv, TypeOK, TxState
    <3> QED
      BY <2>0, <3>6, <3>7, ServedStays
  <2> QED
    BY <2>1, <2>2
<1>2. ASSUME PurchasesComeWithCards, UNCHANGED vars PROVE PurchasesComeWithCards'
  BY <1>2 DEF PurchasesComeWithCards, Served, Held, vars
<1> QED
  BY <1>1, <1>2

\* What the open start transaction holds is consistent, through every fault:
\* it charges only who has reserved, each of them once, and whoever it charges
\* is dealt a card unless the whole deck is dealt, by the second SELECT of the
\* reservations too, which may find more than the first.
THEOREM TransactionIsWhole == Spec => []TxInv
<1>1. Init => TxInv
  BY DEF Init, TxInv, NoTx
<1> QED
  BY <1>1, TxInvStep, TypeCorrect, LifeIsOrdered, PTL DEF Spec

\* Whoever was charged in a room holds a card there, or the last card has been
\* dealt (none at all, if the table is empty), whatever failed and whoever
\* reserved while the transaction was open.
THEOREM ChargesBringCards == Spec => []PurchasesComeWithCards
<1>1. Init => PurchasesComeWithCards
  BY DEF Init, PurchasesComeWithCards
<1> QED
  BY <1>1, PurchasesComeWithCardsStep, TypeCorrect, LifeIsOrdered, TransactionIsWhole, PTL
     DEF Spec

-----------------------------------------------------------------------------
\* No call fails, no answer is lost, and the statements of the sync take
\* effect in the order they are sent.
InOrder == MaxErrors = 0 /\ MaxLostAcks = 0 /\ ~ SyncOvertaken

\* ... or the process is never restarted.
Orderly == MaxRestarts = 0 \/ InOrder

\* Within the bounds of InOrder no database call fails.
LEMMA NothingFails ==
    ASSUME TypeOK, FaultsBounded, InOrder
    PROVE  ~ Fails /\ ~ AckLost
  BY DEF TypeOK, FaultCounts, FaultsBounded, InOrder, Fails, AckLost

\* The status of a room in memory is written by these steps.
LEMMA MemoryWrites ==
    ASSUME TypeOK, LifeInv, Next, NEW q \in Rooms, roomStates'[q].status # roomStates[q].status
    PROVE  \/ Crash
           \/ recoverActiveRooms /\ rowStatus[q] = "started" /\ roomStates'[q].status = "started"
           \/ /\ ensurePendingRooms /\ q \in PendingRows /\ UNCHANGED rowStatus
              /\ roomStates'[q].status = "pending"
           \/ /\ ensurePendingRooms \/ createNewPendingRoom
              /\ q \in Absent /\ q = NextId /\ (PendingRows = {} \/ main.at = "insertPending")
              /\ InsertPendingRow(q) /\ roomStates'[q].status = "pending"
           \/ startGame(q) /\ roomStates'[q].status = "started"
           \/ FinishRoom(q) /\ roomStates'[q].status = "finished"
           \/ roomStates'[q].status = "deactivated" /\ (Fails \/ AckLost \/ AbortStart(q))
<1> USE DEF Becomes, MayDeactivate, StatusesStay
<1>1. CASE cleanupAllDuplicateNumbers \/ recoverActiveRooms
  BY <1>1, BootEffect DEF cleanupAllDuplicateNumbers
<1>2. CASE ensurePendingRooms
  BY <1>2, BootEffect, NextIdIsARoom DEF PendingRows
<1>3. CASE createNewPendingRoom
  BY <1>3, CreateEffect, NextIdIsARoom DEF createNewPendingRoom
<1>4. ASSUME NEW r \in Rooms, RoomStep(r)
      PROVE  \/ startGame(q) /\ roomStates'[q].status = "started"
             \/ FinishRoom(q) /\ roomStates'[q].status = "finished"
             \/ roomStates'[q].status = "deactivated" /\ (Fails \/ AckLost \/ AbortStart(q))
  <2>1. CASE processRoomTimer(r) \/ DrawNumber(r)
    BY <2>1, VisitEffect
  <2>2. ~ resetRoomTimer(r)
    <3> SUFFICES ASSUME resetRoomTimer(r) PROVE FALSE
      OBVIOUS
    <3>1. roomStates[r].status = "pending"
      BY DEF resetRoomTimer, LifeInv, LoopKnowsStatus
    <3> QED
      BY <3>1, VisitEffect
  <2>3. CASE TimerExpiredFails(r)
    BY <2>3, VisitEffect DEF TimerExpiredFails
  <2>4. CASE startGame(r) \/ AbortStart(r)
    BY <2>4, StartEffect
  <2>5. CASE SaveDrawnNumberFails(r)
    BY <2>5, DrawEffect DEF SaveDrawnNumberFails
  <2>6. CASE FinishRoom(r)
    BY <2>6, DrawEffect
  <2> QED
    BY <1>4, <2>1, <2>2, <2>3, <2>4, <2>5, <2>6 DEF RoomStep, PassRoom, EnoughPlayers,
       processCardPurchases, distributeCardsToUsers, CommitStart, SaveDrawnNumber,
       checkLineWinners, checkFullWinners, FinishRow, FinishFails
<1>5. PendingRoomExists \/ NoPendingRoom \/ createNewPendingRoomFails \/ EndIteration \/ SyncJob
      \/ (\E r \in Rooms : Deactivate(r)) \/ (\E u \in Users : Reserve(u)) => UNCHANGED roomStates
  BY DEF PendingRoomExists, NoPendingRoom, createNewPendingRoomFails, EndIteration, SyncJob,
     EndSync, SendSync, ApplySync, SyncRoom, SyncFails, Deactivate, Reserve,
     InsertReservation, CheckPending
<1> QED
  BY <1>1, <1>2, <1>3, <1>4, <1>5 DEF Next, MainLoop, Boot, CreatePending

\* The status of a row is written by these steps.
LEMMA RowWrites ==
    ASSUME TypeOK, Next, NEW q \in Rooms, rowStatus'[q] # rowStatus[q]
    PROVE  \/ /\ ensurePendingRooms \/ createNewPendingRoom \/ (createNewPendingRoomFails /\ AckLost)
              /\ q \in Absent /\ q = NextId /\ InsertPendingRow(q) /\ rowStatus'[q] = "pending"
           \/ (CommitStart(q) \/ (AbortStart(q) /\ AckLost)) /\ rowStatus'[q] = "started"
           \/ FinishRow(q) /\ rowStatus'[q] = "finished"
           \/ ApplySync(q) \/ Deactivate(q)
           \/ SyncRoom(q) /\ rowStatus'[q] = roomStates[q].status
<1>0. rowStatus \in [Rooms -> RoomStatus \cup {"absent"}]
  BY DEF TypeOK
<1>1. CASE ensurePendingRooms \/ createNewPendingRoom \/ createNewPendingRoomFails
  BY <1>0, <1>1, PendingInserted, NextIdIsARoom
     DEF ensurePendingRooms, createNewPendingRoom, createNewPendingRoomFails, PendingRows
<1>2. ASSUME NEW r \in Rooms, RoomStep(r)
      PROVE  \/ (CommitStart(q) \/ (AbortStart(q) /\ AckLost)) /\ rowStatus'[q] = "started"
             \/ FinishRow(q) /\ rowStatus'[q] = "finished"
  <2>1. CASE CommitStart(r) \/ AbortStart(r)
    <3>1. Commit(r) /\ (CommitStart(r) \/ (AbortStart(r) /\ AckLost))
      BY <2>1 DEF CommitStart, AbortStart, database
    <3> QED
      BY <1>0, <3>1 DEF Commit
  <2>2. CASE FinishRow(r)
    BY <1>0, <2>2 DEF FinishRow
  <2> QED
    BY <1>2, <2>1, <2>2 DEF RoomStep, processRoomTimer, PassRoom, DrawNumber, resetRoomTimer,
       EnoughPlayers, TimerExpiredFails, startGame, processCardPurchases,
       distributeCardsToUsers, SaveDrawnNumber, SaveDrawnNumberFails, checkLineWinners,
       checkFullWinners, FinishRoom, FinishFails, database
<1>3. ASSUME NEW r \in Rooms, ApplySync(r) \/ SyncRoom(r) \/ Deactivate(r)
      PROVE  \/ ApplySync(q) \/ Deactivate(q)
             \/ SyncRoom(q) /\ rowStatus'[q] = roomStates[q].status
  BY <1>0, <1>3 DEF ApplySync, SyncRoom, Deactivate, WriteRow
<1>4. cleanupAllDuplicateNumbers \/ recoverActiveRooms \/ PendingRoomExists \/ NoPendingRoom
      \/ EndIteration \/ EndSync \/ Crash
      \/ (\E r \in Rooms : SendSync(r) \/ SyncFails(r)) \/ (\E u \in Users : Reserve(u))
        => UNCHANGED rowStatus
  BY DEF cleanupAllDuplicateNumbers, recoverActiveRooms, PendingRoomExists, NoPendingRoom,
     EndIteration, EndSync, Crash, SendSync, SyncFails, Reserve, InsertReservation,
     CheckPending, database
<1> QED
  BY <1>1, <1>2, <1>3, <1>4 DEF Next, MainLoop, Boot, CreatePending, SyncJob

\* A start transaction begins with startGame ...
LEMMA TransactionBegins ==
    ASSUME TypeOK, Next, NEW q \in Rooms, main'.at \in InTransaction, main'.room = q
    PROVE  \/ startGame(q)
           \/ main.at \in InTransaction /\ main.room = q
<1> USE DEF LoopIs, InTransaction
<1>1. ~ Boot /\ ~ CreatePending /\ ~ EndIteration /\ ~ Crash
  BY BootEffect, CreateEffect DEF Boot, CreatePending
<1>2. ASSUME NEW r \in Rooms, RoomStep(r)
      PROVE  startGame(q) \/ (main.at \in InTransaction /\ main.room = q)
  BY <1>2, VisitEffect, StartEffect, DrawEffect DEF RoomStep, PassRoom, Unvisited,
     processCardPurchases, distributeCardsToUsers
<1>3. SyncJob \/ (\E r \in Rooms : Deactivate(r)) \/ (\E u \in Users : Reserve(u))
        => UNCHANGED main
  BY DEF SyncJob, EndSync, SendSync, ApplySync, SyncRoom, SyncFails, Deactivate, Reserve,
     InsertReservation, CheckPending
<1> QED
  BY <1>1, <1>2, <1>3 DEF Next, MainLoop

\* ... and ends with the COMMIT, an abort or a crash.
LEMMA TransactionEnds ==
    ASSUME TypeOK, Next, NEW q \in Rooms, main.at \in InTransaction, main.room = q
    PROVE  \/ main'.at \in InTransaction /\ main'.room = q
           \/ CommitStart(q) \/ AbortStart(q) \/ Crash
<1> USE DEF LoopIs, InTransaction
<1>1. ~ Boot /\ ~ CreatePending /\ ~ EndIteration
  BY DEF Boot, cleanupAllDuplicateNumbers, recoverActiveRooms, ensurePendingRooms,
     CreatePending, PendingRoomExists, NoPendingRoom, createNewPendingRoom,
     createNewPendingRoomFails, EndIteration
<1>2. ASSUME NEW r \in Rooms, RoomStep(r)
      PROVE  \/ main'.at \in InTransaction /\ main'.room = q
             \/ CommitStart(q) \/ AbortStart(q)
  <2>1. r = q /\ (processCardPurchases(q) \/ distributeCardsToUsers(q) \/ CommitStart(q)
                    \/ AbortStart(q))
    BY <1>2 DEF RoomStep, processRoomTimer, PassRoom, DrawNumber, Unvisited, resetRoomTimer,
     EnoughPlayers, TimerExpiredFails, startGame, processCardPurchases,
     distributeCardsToUsers, CommitStart, AbortStart, SaveDrawnNumber,
     SaveDrawnNumberFails, checkLineWinners, checkFullWinners, FinishRow, FinishRoom,
     FinishFails, At
  <2> QED
    BY <2>1, StartEffect
<1>3. SyncJob \/ (\E r \in Rooms : Deactivate(r)) \/ (\E u \in Users : Reserve(u))
        => UNCHANGED main
  BY DEF SyncJob, EndSync, SendSync, ApplySync, SyncRoom, SyncFails, Deactivate, Reserve,
     InsertReservation, CheckPending
<1> QED
  BY <1>1, <1>2, <1>3 DEF Next, MainLoop

\* How the row of a room and its memory belong together when nothing fails.
RowFollows(r) ==
    /\ rowStatus[r] = "pending" => Fresh(r)
    /\ rowStatus[r] # "deactivated" /\ roomStates[r].status # "deactivated"
    /\ roomStates[r].status = "pending" => rowStatus[r] = "pending"
    /\ roomStates[r].status = "started" =>
        \/ rowStatus[r] = "started"
        \/ rowStatus[r] = "pending" /\ main.at \in InTransaction /\ main.room = r
        \/ rowStatus[r] = "finished" /\ main.at = "report" /\ main.room = r
    /\ main.at \in InTransaction /\ main.room = r => rowStatus[r] = "pending"
    /\ roomStates[r].status = "finished" => rowStatus[r] \in {"started", "finished"}

\* ... of every room, with no statement of the sync or a deactivation under way.
RowsFollow ==
    InOrder => /\ \A r \in Rooms : RowFollows(r)
               /\ deactivating = {} /\ sync.at = "loop"

\* The cards of a fresh room can be dealt, so no start is aborted.
LEMMA NoAbort ==
    ASSUME TypeOK, LifeInv, RowsFollow, InOrder
    PROVE  \A q \in Rooms : ~ AbortStart(q)
<1> SUFFICES ASSUME NEW q \in Rooms, AbortStart(q) PROVE FALSE
  OBVIOUS
<1>1. \E deck \in Shuffles, os \in Orders(reservations[q]) : Dealt(os, deck) \cap Held(q) # {}
  BY NothingFails DEF AbortStart, LifeInv
<1>2. Held(q) = {}
  BY DEF AbortStart, RowsFollow, RowFollows, Fresh
<1> QED
  BY <1>1, <1>2

\* Which steps are left to write memory and rows when nothing fails.
LEMMA OrderedMemory ==
    ASSUME TypeOK, LifeInv, RowsFollow, InOrder, Next, NEW q \in Rooms,
           roomStates'[q].status # roomStates[q].status
    PROVE  \/ Crash
           \/ recoverActiveRooms /\ rowStatus[q] = "started" /\ roomStates'[q].status = "started"
           \/ /\ ensurePendingRooms /\ q \in PendingRows /\ UNCHANGED rowStatus
              /\ roomStates'[q].status = "pending"
           \/ /\ ensurePendingRooms \/ createNewPendingRoom
              /\ q \in Absent /\ rowStatus'[q] = "pending" /\ roomStates'[q].status = "pending"
           \/ startGame(q) /\ roomStates'[q].status = "started"
           \/ FinishRoom(q) /\ roomStates'[q].status = "finished"
<1>1. InsertPendingRow(q) /\ q = NextId /\ q \in Absent => rowStatus'[q] = "pending"
  BY PendingInserted
<1> QED
  BY <1>1, MemoryWrites, NothingFails, NoAbort DEF LifeInv

\* Which steps are left to write rows when nothing fails.
LEMMA OrderedRows ==
    ASSUME TypeOK, LifeInv, RowsFollow, InOrder, Next, NEW q \in Rooms,
           rowStatus'[q] # rowStatus[q]
    PROVE  \/ /\ ensurePendingRooms \/ createNewPendingRoom
              /\ q \in Absent /\ q = NextId /\ rowStatus'[q] = "pending"
           \/ CommitStart(q) /\ rowStatus'[q] = "started"
           \/ FinishRow(q) /\ rowStatus'[q] = "finished"
           \/ SyncRoom(q) /\ rowStatus'[q] = roomStates[q].status
  BY RowWrites, NothingFails DEF LifeInv, RowsFollow, ApplySync, Deactivate

\* A PENDING row is new or has been PENDING before.
LEMMA PendingStaysFresh ==
    ASSUME TypeOK, LifeInv, RowsFollow, InOrder, Next, NEW q \in Rooms, rowStatus'[q] = "pending"
    PROVE  Fresh(q)'
<1>1. q \in Absent \/ rowStatus[q] = "pending"
  BY OrderedRows DEF SyncRoom, RowsFollow, RowFollows
<1>2. Fresh(q)
  BY <1>1 DEF LifeInv, RowsExist, RowsFollow, RowFollows
<1> SUFFICES ASSUME roomStates[q].status = "started",
                    CommitStart(q) \/ AbortStart(q) \/ SaveDrawnNumber(q)
                        \/ SaveDrawnNumberFails(q) \/ checkFullWinners(q)
             PROVE  FALSE
  BY <1>2, FreshStays DEF LifeInv
<1>3. main.at \in InTransaction
  <2>1. q \notin Absent
    BY DEF LifeInv, RowsExist
  <2> QED
    BY <1>1, <2>1 DEF RowsFollow, RowFollows
<1>4. CommitStart(q)
  BY <1>3, NoAbort DEF SaveDrawnNumber, SaveDrawnNumberFails, checkFullWinners, At, InTransaction
<1> QED
  BY <1>4 DEF CommitStart, Commit, TypeOK

\* The row of a room and its memory keep belonging together.
LEMMA RowFollowsStep ==
    ASSUME TypeOK, LifeInv, RowsFollow, InOrder, Next, NEW q \in Rooms
    PROVE  RowFollows(q)'
<1>0. RowFollows(q)
  BY DEF RowsFollow
<1>1. rowStatus'[q] = "pending" => Fresh(q)'
  BY PendingStaysFresh
<1>2. rowStatus'[q] # "deactivated" /\ roomStates'[q].status # "deactivated"
  <2>1. roomStates'[q].status = roomStates[q].status \/ roomStates'[q].status # "deactivated"
    BY OrderedMemory DEF Crash, Unloaded
  <2>2. rowStatus'[q] = rowStatus[q] \/ rowStatus'[q] # "deactivated"
    BY <1>0, OrderedRows DEF RowFollows
  <2> QED
    BY <1>0, <2>1, <2>2 DEF RowFollows
<1>3. roomStates'[q].status = "pending" => rowStatus'[q] = "pending"
  <2> SUFFICES ASSUME roomStates'[q].status = "pending" PROVE rowStatus'[q] = "pending"
    OBVIOUS
  <2>1. CASE roomStates[q].status = "pending"
    <3>1. ~ CommitStart(q) /\ ~ FinishRow(q)
      BY <2>1 DEF CommitStart, FinishRow, At, LifeInv, LoopKnowsStatus, InTransaction, InGame
    <3> QED
      BY <1>0, <2>1, <3>1, OrderedRows DEF RowFollows
  <2>2. CASE roomStates[q].status # "pending"
    BY <2>2, OrderedMemory DEF Crash, Unloaded, PendingRows
  <2> QED
    BY <2>1, <2>2
<1>4. main'.at \in InTransaction /\ main'.room = q => rowStatus'[q] = "pending"
  <2> SUFFICES ASSUME main'.at \in InTransaction, main'.room = q PROVE rowStatus'[q] = "pending"
    OBVIOUS
  <2>1. CASE startGame(q)
    BY <1>0, <2>1 DEF startGame, database, LifeInv, LoopKnowsStatus, RowFollows
  <2>2. CASE main.at \in InTransaction /\ main.room = q
    <3>1. ~ CommitStart(q)
      <4>1. CommitStart(q) => main'.at = "findPending"
        BY StartEffect DEF LoopIs
      <4> QED
        BY <4>1 DEF InTransaction
    <3>2. ~ FinishRow(q) /\ ~ SyncRoom(q)
      BY <2>2 DEF FinishRow, At, SyncRoom, WriteRow, RowLocked, InTransaction
    <3> QED
      BY <1>0, <2>2, <3>1, <3>2, OrderedRows DEF RowFollows
  <2> QED
    BY <2>1, <2>2, TransactionBegins
<1>5. roomStates'[q].status = "finished" => rowStatus'[q] \in {"started", "finished"}
  <2> SUFFICES ASSUME roomStates'[q].status = "finished"
               PROVE  rowStatus'[q] \in {"started", "finished"}
    OBVIOUS
  <2>1. CASE roomStates[q].status = "finished"
    <3>1. ~ ensurePendingRooms \/ q \notin Absent
      BY <2>1 DEF LifeInv, RowsExist
    <3>2. q \notin Absent
      BY <2>1 DEF LifeInv, RowsExist
    <3> QED
      BY <1>0, <2>1, <3>2, OrderedRows DEF RowFollows
  <2>2. CASE roomStates[q].status # "finished"
    <3>1. FinishRoom(q)
      BY <2>2, OrderedMemory DEF Crash, Unloaded
    <3>2. main.at = "report" /\ main.room = q /\ UNCHANGED rowStatus
      BY <3>1 DEF FinishRoom, At, database
    <3>3. roomStates[q].status = "started"
      BY <3>2 DEF LifeInv, LoopKnowsStatus, InGame
    <3> QED
      BY <1>0, <3>2, <3>3 DEF RowFollows, InTransaction
  <2> QED
    BY <2>1, <2>2
<1>6. roomStates'[q].status = "started" =>
        \/ rowStatus'[q] = "started"
        \/ rowStatus'[q] = "pending" /\ main'.at \in InTransaction /\ main'.room = q
        \/ rowStatus'[q] = "finished" /\ main'.at = "report" /\ main'.room = q
  <2> SUFFICES ASSUME roomStates'[q].status = "started", rowStatus'[q] # "started"
               PROVE  \/ rowStatus'[q] = "pending" /\ main'.at \in InTransaction /\ main'.room = q
                      \/ rowStatus'[q] = "finished" /\ main'.at = "report" /\ main'.room = q
    OBVIOUS
  <2>1. CASE roomStates[q].status # "started"
    <3>1. CASE startGame(q)
      BY <1>0, <3>1, StartEffect
         DEF startGame, database, LifeInv, LoopKnowsStatus, RowFollows, LoopIs, InTransaction
    <3>2. CASE recoverActiveRooms /\ rowStatus[q] = "started"
      BY <3>2 DEF recoverActiveRooms, database
    <3> QED
      BY <2>1, <3>1, <3>2, OrderedMemory DEF Crash, Unloaded
  <2>2. CASE roomStates[q].status = "started"
    <3>0. q \notin Absent /\ ~ Crash
      BY <2>2 DEF LifeInv, RowsExist, Crash, Unloaded
    <3>1. CASE FinishRow(q)
      BY <3>1, DrawEffect DEF FinishRow, LoopIs, TypeOK
    <3>2. CASE rowStatus'[q] = rowStatus[q]
      <4>1. CASE rowStatus[q] = "pending" /\ main.at \in InTransaction /\ main.room = q
        <5>1. ~ CommitStart(q)
          BY <2>2, <3>2, <4>1 DEF CommitStart, Commit, TypeOK
        <5> QED
          BY <3>0, <3>2, <4>1, <5>1, TransactionEnds, NoAbort
      <4>2. CASE rowStatus[q] = "finished" /\ main.at = "report" /\ main.room = q
        <5>1. ~ FinishRoom(q) /\ ~ FinishRow(q)
          BY <4>2, DrawEffect DEF FinishRow, At, Becomes
        <5> QED
          BY <3>0, <3>2, <4>2, <5>1, FinishingGoesOn, NothingFails DEF LifeInv
      <4> QED
        BY <1>0, <2>2, <3>2, <4>1, <4>2 DEF RowFollows
    <3> QED
      BY <2>2, <3>0, <3>1, <3>2, OrderedRows
  <2> QED
    BY <2>1, <2>2
<1> QED
  BY <1>1, <1>2, <1>3, <1>4, <1>5, <1>6 DEF RowFollows

\* Neither deactivations nor late statements of the sync are under way.
LEMMA NothingUnderWay ==
    ASSUME TypeOK, LifeInv, RowsFollow, InOrder, Next
    PROVE  deactivating' = {} /\ sync'.at = "loop"
<1>0. deactivating = {} /\ sync.at = "loop" /\ ~ Fails /\ ~ AckLost
  BY NothingFails DEF RowsFollow, LifeInv
<1>1. CASE Boot \/ CreatePending \/ EndIteration
  BY <1>0, <1>1 DEF Boot, CreatePending, cleanupAllDuplicateNumbers, recoverActiveRooms,
     ensurePendingRooms, PendingRoomExists, NoPendingRoom, createNewPendingRoom,
     createNewPendingRoomFails, EndIteration
<1>2. ASSUME NEW r \in Rooms, RoomStep(r) PROVE deactivating' = {} /\ sync'.at = "loop"
  BY <1>0, <1>2, NoAbort DEF RoomStep, processRoomTimer, PassRoom, DrawNumber, resetRoomTimer,
     EnoughPlayers, TimerExpiredFails, startGame, processCardPurchases,
     distributeCardsToUsers, CommitStart, SaveDrawnNumber, SaveDrawnNumberFails,
     checkLineWinners, checkFullWinners, FinishRow, FinishRoom, FinishFails
<1>3. CASE SyncJob \/ (\E r \in Rooms : Deactivate(r)) \/ (\E u \in Users : Reserve(u)) \/ Crash
  <2>1. \A r : SyncDone(r) => sync'.at = "loop"
    BY DEF SyncDone, SyncIdle
  <2> QED
    BY <1>0, <1>3, <2>1 DEF SyncJob, EndSync, SendSync, ApplySync, SyncRoom, SyncFails,
       Deactivate, Reserve, InsertReservation, CheckPending, Crash, InOrder, SyncIdle
<1> QED
  BY <1>1, <1>2, <1>3 DEF Next, MainLoop

\* RowsFollow is inductive relative to the life of the rooms.
LEMMA RowsFollowStep == TypeOK /\ LifeInv /\ RowsFollow /\ [Next]_vars => RowsFollow'
<1>1. ASSUME TypeOK, LifeInv, RowsFollow, Next PROVE RowsFollow'
  <2> SUFFICES ASSUME InOrder
               PROVE  /\ \A q \in Rooms : RowFollows(q)'
                      /\ deactivating' = {} /\ sync'.at = "loop"
    BY DEF RowsFollow, InOrder
  <2> QED
    BY <1>1, RowFollowsStep, NothingUnderWay
<1>2. ASSUME RowsFollow, UNCHANGED vars PROVE RowsFollow'
  BY <1>2 DEF RowsFollow, RowFollows, InOrder, Fresh, Held, Drawn, vars
<1> QED
  BY <1>1, <1>2

\* RowsFollow holds of the empty database.
LEMMA InitRowsFollow == Init => RowsFollow
<1> SUFFICES ASSUME Init, NEW r \in Rooms PROVE RowFollows(r)
  BY DEF RowsFollow, Init, SyncIdle
<1>1. rowStatus[r] = "absent" /\ roomStates[r].status = "unloaded"
  BY DEF Init, Unloaded
<1>2. main.at = "cleanup"
  BY DEF Init, Idle
<1> QED
  BY <1>1, <1>2 DEF RowFollows, InTransaction

\* Without faults the row of a room and its memory follow each other, through
\* restarts too.
THEOREM MemoryAndRowsFollow == Spec => []RowsFollow
  BY InitRowsFollow, RowsFollowStep, TypeCorrect, LifeIsOrdered, PTL DEF Spec

-----------------------------------------------------------------------------
\* A game begins in a room in which nothing has happened yet.
StartsFresh ==
    Orderly => \A r \in Rooms :
        roomStates[r].status = "pending" \/ (main.at \in InTransaction /\ main.room = r) => Fresh(r)

\* A row the start-up finds PENDING is fresh.
LEMMA FoundPendingIsFresh ==
    ASSUME TypeOK, LifeInv, RowsFollow, Orderly, ensurePendingRooms, NEW q \in PendingRows
    PROVE  Fresh(q)
<1>1. CASE InOrder
  BY <1>1 DEF RowsFollow, RowFollows, PendingRows
<1>2. CASE MaxRestarts = 0
  <2>1. faults.restarts = 0
    BY <1>2 DEF LifeInv, FaultsBounded, TypeOK, FaultCounts
  <2>2. Absent = Rooms
    BY <2>1 DEF LifeInv, FirstBootIsEmpty, ensurePendingRooms, Booting
  <2> QED
    BY <2>2 DEF PendingRows, Absent
<1> QED
  BY <1>1, <1>2 DEF Orderly

\* Nothing happens in a room before its start.
LEMMA StartsFreshStep ==
    TypeOK /\ LifeInv /\ RowsFollow /\ StartsFresh /\ [Next]_vars => StartsFresh'
<1>1. ASSUME TypeOK, LifeInv, RowsFollow, StartsFresh, Next PROVE StartsFresh'
  <2> SUFFICES ASSUME Orderly, NEW q \in Rooms,
                      roomStates'[q].status = "pending"
                        \/ (main'.at \in InTransaction /\ main'.room = q)
               PROVE  Fresh(q)'
    BY DEF StartsFresh, Orderly, InOrder
  <2>0. ASSUME Fresh(q), UNCHANGED game PROVE Fresh(q)'
    BY <2>0 DEF Fresh, Held, Drawn, game
  <2>1. CASE roomStates'[q].status = "pending"
    <3>1. CASE roomStates[q].status = "pending"
      BY <1>1, <3>1, FreshStays DEF StartsFresh, LifeInv
    <3>2. CASE ensurePendingRooms /\ q \in PendingRows
      BY <1>1, <2>0, <3>2, FoundPendingIsFresh DEF ensurePendingRooms
    <3>3. CASE (ensurePendingRooms \/ createNewPendingRoom) /\ q \in Absent
      BY <1>1, <2>0, <3>3 DEF ensurePendingRooms, createNewPendingRoom, LifeInv, RowsExist
    <3> QED
      BY <1>1, <2>1, <3>1, <3>2, <3>3, MemoryWrites DEF Crash, Unloaded
  <2>2. CASE main'.at \in InTransaction /\ main'.room = q
    <3>1. CASE startGame(q)
      BY <1>1, <2>0, <3>1
         DEF startGame, database, game, LifeInv, LoopKnowsStatus, StartsFresh
    <3>2. CASE main.at \in InTransaction /\ main.room = q
      <4>1. ~ CommitStart(q) /\ ~ AbortStart(q)
        BY <1>1, <2>2, StartEffect DEF LoopIs, InTransaction
      <4>2. ~ SaveDrawnNumber(q) /\ ~ SaveDrawnNumberFails(q) /\ ~ checkFullWinners(q)
        BY <3>2 DEF SaveDrawnNumber, SaveDrawnNumberFails, checkFullWinners, At, InTransaction
      <4> QED
        BY <1>1, <3>2, <4>1, <4>2, FreshStays DEF StartsFresh, LifeInv
    <3> QED
      BY <1>1, <2>2, <3>1, <3>2, TransactionBegins
  <2> QED
    BY <2>1, <2>2
<1>2. ASSUME StartsFresh, UNCHANGED vars PROVE StartsFresh'
  BY <1>2 DEF StartsFresh, Orderly, InOrder, Fresh, Held, Drawn, vars
<1> QED
  BY <1>1, <1>2

\* A room that is about to start has seen no purchase, card or number.
THEOREM GamesStartFresh == Spec => []StartsFresh
<1>1. Init => StartsFresh
  BY DEF Init, StartsFresh, Unloaded, Idle, InTransaction
<1> QED
  BY <1>1, StartsFreshStep, TypeCorrect, LifeIsOrdered, MemoryAndRowsFollow, PTL DEF Spec

-----------------------------------------------------------------------------
\* No restart, or no statement that overtakes one the sync has sent.
Unovertaken == MaxRestarts = 0 \/ ~ SyncOvertaken

\* Nobody has been charged or dealt cards in the room.
Undealt(r) == Held(r) = {} /\ \A u \in Users : purchases[r][u] = <<>>

\* The room may start: it is loaded PENDING, is starting, or would be loaded.
MayStart(r) ==
    \/ roomStates[r].status = "pending"
    \/ main.at \in InTransaction /\ main.room = r
    \/ ~ SyncOvertaken /\ rowStatus[r] = "pending"

\* A start charges and deals in a room where nobody was charged or dealt to,
\* and so does a restart that finds its row PENDING, whatever calls failed.
StartsUndealt ==
    /\ ~ SyncOvertaken => sync.at = "loop"
    /\ Unovertaken => \A r \in Rooms : MayStart(r) => Undealt(r)

\* Purchases and cards are written by the end of a start transaction.
LEMMA DealtStays ==
    ASSUME TypeOK, Next, NEW q \in Rooms, Undealt(q)
    PROVE  Undealt(q)' \/ ((CommitStart(q) \/ AbortStart(q)) /\ Commit(q))
<1>1. CASE UNCHANGED <<purchases, reservedCards>>
  BY <1>1 DEF Undealt, Held
<1>2. ASSUME NEW r \in Rooms, Commit(r), r # q PROVE Undealt(q)'
  BY <1>2 DEF Commit, Undealt, Held, TypeOK
<1>3. \/ UNCHANGED <<purchases, reservedCards>>
      \/ \E r \in Rooms : (CommitStart(r) \/ AbortStart(r)) /\ Commit(r)
  BY DEF Next, MainLoop, Boot, CreatePending, RoomStep, SyncJob, Reserve, database, game,
     cleanupAllDuplicateNumbers, recoverActiveRooms, ensurePendingRooms, EndIteration,
     PendingRoomExists, NoPendingRoom, createNewPendingRoom, createNewPendingRoomFails,
     processRoomTimer, PassRoom, DrawNumber, resetRoomTimer, EnoughPlayers,
     TimerExpiredFails, startGame, processCardPurchases, distributeCardsToUsers,
     CommitStart, AbortStart, SaveDrawnNumber, SaveDrawnNumberFails, FinishRow,
     checkLineWinners, checkFullWinners, FinishRoom, FinishFails, EndSync, SendSync,
     ApplySync, SyncRoom, SyncFails, Deactivate, CheckPending, InsertReservation, Crash
<1> QED
  BY <1>1, <1>2, <1>3

\* After the COMMIT the room is STARTED in its row and not PENDING in memory.
LEMMA CommitLeavesStart ==
    ASSUME TypeOK, LifeInv, NEW q \in Rooms, CommitStart(q) \/ AbortStart(q), Commit(q)
    PROVE  /\ roomStates'[q].status # "pending" /\ rowStatus'[q] # "pending"
           /\ main'.at \notin InTransaction
<1>1. roomStates[q].status = "started"
  BY DEF CommitStart, AbortStart, LifeInv, LoopKnowsStatus, InTransaction
<1>2. roomStates'[q].status # "pending" /\ main'.at \notin InTransaction
  BY <1>1, StartEffect DEF CommitStart, Becomes, MayDeactivate, LoopIs, InTransaction
<1> QED
  BY <1>2 DEF Commit, TypeOK

\* A room that is loaded as PENDING, starts or is written PENDING is undealt.
LEMMA UndealtBefore ==
    ASSUME TypeOK, LifeInv, StartsUndealt, Unovertaken, Next, NEW q \in Rooms,
           MayStart(q)'
    PROVE  Undealt(q)
<1>0. /\ roomStates[q].status = "pending" => Undealt(q)
      /\ main.at \in InTransaction /\ main.room = q => Undealt(q)
      /\ ~ SyncOvertaken /\ rowStatus[q] = "pending" => Undealt(q)
      /\ q \in Absent => Undealt(q)
  BY DEF StartsUndealt, MayStart, LifeInv, RowsExist, Fresh, Undealt
<1>1. CASE roomStates'[q].status = "pending"
  <2>1. CASE ensurePendingRooms /\ q \in PendingRows
    <3>1. faults.restarts # 0
      BY <2>1 DEF LifeInv, FirstBootIsEmpty, ensurePendingRooms, Booting, PendingRows, Absent
    <3>2. MaxRestarts # 0
      BY <3>1 DEF LifeInv, FaultsBounded, TypeOK, FaultCounts
    <3> QED
      BY <1>0, <2>1, <3>2 DEF Unovertaken, PendingRows
  <2> QED
    BY <1>0, <1>1, <2>1, MemoryWrites DEF Crash, Unloaded
<1>2. CASE main'.at \in InTransaction /\ main'.room = q
  <2>1. startGame(q) => roomStates[q].status = "pending"
    BY DEF startGame, LifeInv, LoopKnowsStatus
  <2> QED
    BY <1>0, <1>2, <2>1, TransactionBegins
<1>3. CASE ~ SyncOvertaken /\ rowStatus'[q] = "pending"
  <2>1. ~ ApplySync(q)
    BY <1>3 DEF StartsUndealt, ApplySync
  <2>2. Deactivate(q) => rowStatus'[q] \in {"deactivated", rowStatus[q]}
    BY DEF Deactivate, TypeOK
  <2> QED
    BY <1>0, <1>3, <2>1, <2>2, RowWrites
<1> QED
  BY <1>1, <1>2, <1>3 DEF MayStart

\* StartsUndealt is inductive relative to the life of the rooms.
LEMMA StartsUndealtStep ==
    TypeOK /\ LifeInv /\ StartsUndealt /\ [Next]_vars => StartsUndealt'
<1>1. ASSUME TypeOK, LifeInv, StartsUndealt, Next PROVE StartsUndealt'
  <2>1. ASSUME ~ SyncOvertaken PROVE sync'.at = "loop"
    <3>1. UNCHANGED sync \/ sync'.at = "loop" \/ \E r \in Rooms : SendSync(r)
      BY <1>1, SyncMoves
    <3> QED
      BY <1>1, <2>1, <3>1 DEF StartsUndealt, SendSync
  <2>2. ASSUME Unovertaken, NEW q \in Rooms, MayStart(q)'
        PROVE  Undealt(q)'
    BY <1>1, <2>2, UndealtBefore, DealtStays, CommitLeavesStart DEF MayStart
  <2> QED
    BY <2>1, <2>2 DEF StartsUndealt, Unovertaken
<1>2. ASSUME StartsUndealt, UNCHANGED vars PROVE StartsUndealt'
  BY <1>2 DEF StartsUndealt, MayStart, Unovertaken, Undealt, Held, vars
<1> QED
  BY <1>1, <1>2

\* A start finds a room in which nobody was charged or dealt cards.
THEOREM GamesStartUndealt == Spec => []StartsUndealt
<1>1. Init => StartsUndealt
  BY DEF Init, StartsUndealt, MayStart, Unloaded, Idle, SyncIdle, InTransaction
<1> QED
  BY <1>1, StartsUndealtStep, TypeCorrect, LifeIsOrdered, PTL DEF Spec

\* The COMMIT of a room where nobody was charged or dealt cards.
LEMMA FreshCommit ==
    ASSUME TypeOK, TxInv, NEW r \in Rooms, Commit(r), Undealt(r)
    PROVE  /\ \A u \in Users : Len(purchases'[r][u]) <= 1
           /\ \A q \in Rooms \ {r} : purchases'[q] = purchases[q] /\ Held(q)' = Held(q)
           /\ Held(r)' = tx.cards
<1>1. /\ purchases \in [Rooms -> [Users -> Seq(Nat)]] /\ tx.charges \in [Users -> Seq(Nat)]
      /\ reservedCards \in [Rooms -> CardsHeld]
  BY DEF TypeOK, TxState
<1>2. ASSUME NEW u \in Users PROVE Len(purchases'[r][u]) <= 1
  <2>1. purchases'[r][u] = purchases[r][u] \o tx.charges[u]
    BY <1>1 DEF Commit
  <2>2. purchases[r][u] = <<>> /\ Len(tx.charges[u]) <= 1
    BY DEF Undealt, TxInv
  <2>3. <<>> \o tx.charges[u] = tx.charges[u]
    BY <1>1
  <2> QED
    BY <2>1, <2>2, <2>3
<1>3. \A q \in Rooms \ {r} : purchases'[q] = purchases[q] /\ Held(q)' = Held(q)
  BY <1>1 DEF Commit, Held
<1>4. Held(r)' = tx.cards
  BY <1>1 DEF Commit, Held, Undealt
<1> QED
  BY <1>2, <1>3, <1>4

\* reservedCards and purchases are written together, by the COMMIT of a start.
LEMMA CommitWrites ==
    ASSUME Next
    PROVE  \/ UNCHANGED <<purchases, reservedCards>>
           \/ \E r \in Rooms : Commit(r) /\ main.at \in InTransaction /\ main.room = r
  BY DEF Next, MainLoop, Boot, CreatePending, RoomStep, SyncJob, Reserve, database, game,
         cleanupAllDuplicateNumbers, recoverActiveRooms, ensurePendingRooms, EndIteration,
         PendingRoomExists, NoPendingRoom, createNewPendingRoom, createNewPendingRoomFails,
         processRoomTimer, PassRoom, DrawNumber, resetRoomTimer, EnoughPlayers,
         TimerExpiredFails, startGame, processCardPurchases, distributeCardsToUsers,
         CommitStart, AbortStart, SaveDrawnNumber, SaveDrawnNumberFails, FinishRow,
         checkLineWinners, checkFullWinners, FinishRoom, FinishFails, EndSync, SendSync,
         ApplySync, SyncRoom, SyncFails, Deactivate, CheckPending, InsertReservation, Crash,
         InTransaction

\* The two promises of a start, as one invariant.
PaidAndDealtOnce == Unovertaken => OnePurchasePerUserAndRoom /\ CardDealtOnce

\* A COMMIT writes to a room once.
LEMMA PaidAndDealtOnceStep ==
    TypeOK /\ TxInv /\ StartsUndealt /\ PaidAndDealtOnce /\ [Next]_vars => PaidAndDealtOnce'
<1>1. ASSUME TypeOK, TxInv, StartsUndealt, PaidAndDealtOnce, Next, Unovertaken
      PROVE  (OnePurchasePerUserAndRoom /\ CardDealtOnce)'
  <2>0. OnePurchasePerUserAndRoom /\ CardDealtOnce
    BY <1>1 DEF PaidAndDealtOnce
  <2>1. CASE UNCHANGED <<purchases, reservedCards>>
    BY <2>0, <2>1 DEF OnePurchasePerUserAndRoom, CardDealtOnce, Held
  <2>2. ASSUME NEW r \in Rooms, Commit(r), main.at \in InTransaction, main.room = r
        PROVE  (OnePurchasePerUserAndRoom /\ CardDealtOnce)'
    <3>1. Undealt(r)
      BY <1>1, <2>2 DEF StartsUndealt, MayStart
    <3>2. OnePurchasePerUserAndRoom'
      BY <1>1, <2>0, <2>2, <3>1, FreshCommit DEF OnePurchasePerUserAndRoom
    <3>3. CardDealtOnce'
      BY <1>1, <2>0, <2>2, <3>1, FreshCommit DEF CardDealtOnce, TxInv
    <3> QED
      BY <3>2, <3>3
  <2> QED
    BY <1>1, <2>1, <2>2, CommitWrites
<1>2. ASSUME PaidAndDealtOnce, UNCHANGED vars PROVE PaidAndDealtOnce'
  BY <1>2 DEF PaidAndDealtOnce, OnePurchasePerUserAndRoom, CardDealtOnce, Unovertaken,
     Held, vars
<1>3. Unovertaken' <=> Unovertaken
  BY DEF Unovertaken
<1> QED
  BY <1>1, <1>2, <1>3 DEF PaidAndDealtOnce

\* The two promises of a start hold.
LEMMA PaidAndDealt == Spec => []PaidAndDealtOnce
<1>1. Init => PaidAndDealtOnce
  BY DEF Init, PaidAndDealtOnce, OnePurchasePerUserAndRoom, CardDealtOnce, Held
<1> QED
  BY <1>1, PaidAndDealtOnceStep, TypeCorrect, TransactionIsWhole, GamesStartUndealt, PTL DEF Spec

\* A user pays once for a room, whatever calls fail and however often the
\* process is restarted, as long as no restart meets an overtaken statement of
\* the sync (auto-timer.service.ts processCardPurchases).
THEOREM UsersPayOnce == ASSUME Unovertaken PROVE Spec => []OnePurchasePerUserAndRoom
<1>1. PaidAndDealtOnce => OnePurchasePerUserAndRoom
  BY DEF PaidAndDealtOnce
<1> QED
  BY <1>1, PaidAndDealt, PTL

\* A card has one owner in a room, under the same condition
\* (auto-timer.service.ts distributeCardsToUsers).
THEOREM CardsHaveOneOwner == ASSUME Unovertaken PROVE Spec => []CardDealtOnce
<1>1. PaidAndDealtOnce => CardDealtOnce
  BY DEF PaidAndDealtOnce
<1> QED
  BY <1>1, PaidAndDealt, PTL

-----------------------------------------------------------------------------
\* The numbers of q in memory stay as they are.
SameNumbers(q) ==
    /\ roomStates'[q].drawnNumbers = roomStates[q].drawnNumbers
    /\ roomStates'[q].remainingNumbers = roomStates[q].remainingNumbers

\* The numbers a room has in memory are written by these steps.
LEMMA NumbersMove ==
    ASSUME TypeOK, LifeInv, Next, NEW q \in Rooms
    PROVE  \/ SameNumbers(q)
           \/ DrawNumber(q) \/ startGame(q) \/ SaveDrawnNumberFails(q)
           \/ recoverActiveRooms /\ roomStates'[q] = Recovered(q)
           \/ roomStates'[q].status \in {"unloaded", "pending"}
<1>0. roomStates \in [Rooms -> RoomState]
  BY DEF TypeOK
<1>1. CASE cleanupAllDuplicateNumbers \/ recoverActiveRooms
  BY <1>1 DEF cleanupAllDuplicateNumbers, recoverActiveRooms, SameNumbers
<1>2. ASSUME NEW r \in Rooms, NEW n, LoadRoom(r, n)
      PROVE  SameNumbers(q) \/ roomStates'[q].status \in {"unloaded", "pending"}
  <2>1. CASE r = q
    BY <1>2, <2>1, LoadEffect DEF Becomes
  <2>2. CASE r # q
    BY <1>0, <1>2, <2>2 DEF LoadRoom, SameNumbers
  <2> QED
    BY <2>1, <2>2
<1>3. CASE ensurePendingRooms \/ createNewPendingRoom
  BY <1>2, <1>3, NextIdIsARoom DEF ensurePendingRooms, createNewPendingRoom, PendingRows, SameNumbers
<1>4. ASSUME NEW r \in Rooms, RoomStep(r)
      PROVE  \/ SameNumbers(q)
             \/ DrawNumber(q) \/ startGame(q) \/ SaveDrawnNumberFails(q)
             \/ roomStates'[q].status \in {"unloaded", "pending"}
  <2>0. roomStates[r] \in RoomState /\ roomStates[q] \in RoomState
    BY <1>0
  <2>1. ASSUME NEW s \in RoomState, handleRoomError(r, s),
               s.drawnNumbers = roomStates[r].drawnNumbers,
               s.remainingNumbers = roomStates[r].remainingNumbers
        PROVE  SameNumbers(q)
    <3>1. /\ ErrorCounted(s).drawnNumbers = s.drawnNumbers
          /\ ErrorCounted(s).remainingNumbers = s.remainingNumbers
      BY DEF ErrorCounted, RoomState
    <3>2. roomStates' = [roomStates EXCEPT ![r] = ErrorCounted(s)]
      BY <2>1 DEF handleRoomError
    <3> QED
      BY <1>0, <2>1, <3>1, <3>2 DEF SameNumbers
  <2>2. CASE processRoomTimer(r)
    BY <1>0, <2>0, <2>2 DEF processRoomTimer, SameNumbers, RoomState
  <2>3. CASE DrawNumber(r) \/ startGame(r)
    <3>1. r = q \/ roomStates'[q] = roomStates[q]
      BY <1>0, <2>3 DEF DrawNumber, startGame
    <3> QED
      BY <2>3, <3>1 DEF SameNumbers
  <2>4. CASE resetRoomTimer(r)
    <3>1. r = q \/ roomStates'[q] = roomStates[q]
      BY <1>0, <2>4 DEF resetRoomTimer
    <3> QED
      BY <2>4, <3>1, VisitEffect DEF SameNumbers, Becomes
  <2>5. CASE TimerExpiredFails(r)
    BY <2>0, <2>1, <2>5 DEF TimerExpiredFails
  <2>6. CASE AbortStart(r)
    <3>1. /\ ErrorCounted(roomStates[r]).drawnNumbers = roomStates[r].drawnNumbers
          /\ ErrorCounted(roomStates[r]).remainingNumbers = roomStates[r].remainingNumbers
      BY <2>0 DEF ErrorCounted, RoomState
    <3> QED
      BY <2>0, <2>1, <2>6, <3>1, CountedTyped DEF AbortStart
  <2>7. CASE SaveDrawnNumberFails(r)
    <3>1. r = q \/ roomStates'[q] = roomStates[q]
      BY <1>0, <2>7 DEF SaveDrawnNumberFails, handleRoomError
    <3> QED
      BY <2>7, <3>1 DEF SameNumbers
  <2>8. CASE FinishRoom(r)
    BY <1>0, <2>0, <2>8 DEF FinishRoom, SameNumbers, RoomState
  <2> QED
    BY <1>4, <2>2, <2>3, <2>4, <2>5, <2>6, <2>7, <2>8 DEF RoomStep, PassRoom, EnoughPlayers,
       processCardPurchases, distributeCardsToUsers, CommitStart, SaveDrawnNumber,
       checkLineWinners, checkFullWinners, FinishRow, FinishFails, SameNumbers
<1>5. PendingRoomExists \/ NoPendingRoom \/ createNewPendingRoomFails \/ EndIteration \/ SyncJob
      \/ (\E r \in Rooms : Deactivate(r)) \/ (\E u \in Users : Reserve(u)) => SameNumbers(q)
  BY DEF PendingRoomExists, NoPendingRoom, createNewPendingRoomFails, EndIteration, SyncJob,
     EndSync, SendSync, ApplySync, SyncRoom, SyncFails, Deactivate, Reserve,
     InsertReservation, CheckPending, SameNumbers
<1>6. Crash => roomStates'[q].status = "unloaded"
  BY DEF Crash, Unloaded
<1> QED
  BY <1>1, <1>3, <1>4, <1>5, <1>6 DEF Next, MainLoop, Boot, CreatePending

\* The INSERT of a number begins with its draw ...
LEMMA SaveBegins ==
    ASSUME TypeOK, Next, NEW q \in Rooms, At("saveNumber", q)'
    PROVE  DrawNumber(q) \/ UNCHANGED main
<1> USE DEF LoopIs, At
<1>1. ~ Boot /\ ~ CreatePending /\ ~ EndIteration /\ ~ Crash
  BY BootEffect, CreateEffect DEF Boot, CreatePending
<1>2. ASSUME NEW r \in Rooms, RoomStep(r) PROVE DrawNumber(q)
  BY <1>2, VisitEffect, StartEffect, DrawEffect DEF RoomStep
<1>3. SyncJob \/ (\E r \in Rooms : Deactivate(r)) \/ (\E u \in Users : Reserve(u))
        => UNCHANGED main
  BY DEF SyncJob, EndSync, SendSync, ApplySync, SyncRoom, SyncFails, Deactivate, Reserve,
     InsertReservation, CheckPending
<1> QED
  BY <1>1, <1>2, <1>3 DEF Next, MainLoop

\* ... and ends with its answer, a failure or a crash.
LEMMA SaveEnds ==
    ASSUME TypeOK, Next, NEW q \in Rooms, At("saveNumber", q)
    PROVE  SaveDrawnNumber(q) \/ SaveDrawnNumberFails(q) \/ Crash \/ UNCHANGED main
<1> USE DEF At
<1>1. ~ Boot /\ ~ CreatePending /\ ~ EndIteration
  BY DEF Boot, cleanupAllDuplicateNumbers, recoverActiveRooms, ensurePendingRooms,
     CreatePending, PendingRoomExists, NoPendingRoom, createNewPendingRoom,
     createNewPendingRoomFails, EndIteration
<1>2. ASSUME NEW r \in Rooms, RoomStep(r) PROVE SaveDrawnNumber(q) \/ SaveDrawnNumberFails(q)
  BY <1>2 DEF RoomStep, processRoomTimer, PassRoom, DrawNumber, Unvisited, resetRoomTimer,
     EnoughPlayers, TimerExpiredFails, startGame, processCardPurchases,
     distributeCardsToUsers, CommitStart, AbortStart, InTransaction, SaveDrawnNumber,
     SaveDrawnNumberFails, checkLineWinners, checkFullWinners, FinishRow, FinishRoom, FinishFails
<1>3. SyncJob \/ (\E r \in Rooms : Deactivate(r)) \/ (\E u \in Users : Reserve(u))
        => UNCHANGED main
  BY DEF SyncJob, EndSync, SendSync, ApplySync, SyncRoom, SyncFails, Deactivate, Reserve,
     InsertReservation, CheckPending
<1> QED
  BY <1>1, <1>2, <1>3 DEF Next, MainLoop

\* What memory says of the numbers, while one is being saved and at rest.
NumbersAgree(r) ==
    /\ roomStates[r].status \in {"started", "finished"} /\ ~ At("saveNumber", r) =>
            /\ roomStates[r].drawnNumbers = Drawn(r)
            /\ roomStates[r].remainingNumbers = Numbers \ Drawn(r)
    /\ At("saveNumber", r) =>
            /\ main.number \notin Drawn(r)
            /\ roomStates[r].drawnNumbers = Drawn(r) \cup {main.number}
            /\ roomStates[r].remainingNumbers = Numbers \ (Drawn(r) \cup {main.number})

\* No restart meets a fault, and no answer of an INSERT is lost.
NothingRepeated == Orderly /\ MaxLostAcks = 0

\* The numbers in memory and in the table agree for every room.
MemDraw == NothingRepeated => \A r \in Rooms : NumbersAgree(r)

\* Within the bounds of NothingRepeated every INSERT that takes effect is answered.
LEMMA NoAckLost ==
    ASSUME TypeOK, FaultsBounded, NothingRepeated
    PROVE  ~ AckLost
  BY DEF TypeOK, FaultCounts, FaultsBounded, NothingRepeated, AckLost

\* What a draw, a clean-up and a lost answer do to the rows of a room.
LEMMA RowsOfNumbers ==
    ASSUME Next
    PROVE  \/ UNCHANGED drawnRows
           \/ cleanupAllDuplicateNumbers
           \/ \E r \in Rooms : SaveDrawnNumber(r) \/ SaveDrawnNumberFails(r)
  BY DEF Next, MainLoop, Boot, CreatePending, RoomStep, SyncJob, Reserve, database, game,
         recoverActiveRooms, ensurePendingRooms, EndIteration,
         PendingRoomExists, NoPendingRoom, createNewPendingRoom, createNewPendingRoomFails,
         processRoomTimer, PassRoom, DrawNumber, resetRoomTimer, EnoughPlayers,
         TimerExpiredFails, startGame, processCardPurchases, distributeCardsToUsers,
         CommitStart, AbortStart, Commit, FinishRow,
         checkLineWinners, checkFullWinners, FinishRoom, FinishFails, EndSync, SendSync,
         ApplySync, SyncRoom, SyncFails, Deactivate, CheckPending, InsertReservation, Crash

\* One row more of the number that is being saved.
LEMMA DrawnGrows ==
    ASSUME TypeOK, NEW r \in Rooms, At("saveNumber", r), InsertDrawnRow(r)
    PROVE  /\ Drawn(r)' = Drawn(r) \cup {main.number}
           /\ \A q \in Rooms \ {r} : drawnRows'[q] = drawnRows[q]
           /\ \A n \in Numbers : drawnRows'[r][n] = IF n = main.number THEN drawnRows[r][n] + 1
                                                    ELSE drawnRows[r][n]
           /\ main.number \in Numbers
<1>0. drawnRows \in [Rooms -> [Numbers -> Nat]] /\ main.number \in Numbers
  BY DEF TypeOK, MainState, At
<1>1. \A n \in Numbers : drawnRows'[r][n] = IF n = main.number THEN drawnRows[r][n] + 1
                                            ELSE drawnRows[r][n]
  BY <1>0 DEF InsertDrawnRow
<1>2. Drawn(r)' = Drawn(r) \cup {main.number}
  BY <1>0, <1>1 DEF Drawn
<1>3. \A q \in Rooms \ {r} : drawnRows'[q] = drawnRows[q]
  BY <1>0 DEF InsertDrawnRow
<1> QED
  BY <1>0, <1>1, <1>2, <1>3

\* The numbers of a room keep agreeing.
LEMMA NumbersAgreeStep ==
    ASSUME TypeOK, LifeInv, StartsFresh, MemDraw, NothingRepeated, Next, NEW q \in Rooms
    PROVE  NumbersAgree(q)'
<1> DEFINE s == roomStates[q]
           t == roomStates'[q]
<1>0. /\ roomStates \in [Rooms -> RoomState] /\ s \in RoomState
      /\ drawnRows \in [Rooms -> [Numbers -> Nat]]
  BY DEF TypeOK
<1>a. NumbersAgree(q)
  BY DEF MemDraw
<1>b. ~ AckLost /\ LoopKnowsStatus'
  BY NoAckLost, LoopKnowsStep DEF LifeInv
<1>1. CASE DrawNumber(q)
  <2>1. PICK n \in s.remainingNumbers :
          /\ roomStates' = [roomStates EXCEPT ![q].remainingNumbers = @ \ {n},
                                              ![q].drawnNumbers = @ \cup {n}]
          /\ main' = [at |-> "saveNumber", room |-> q, visited |-> main.visited \cup {q},
                      number |-> n]
    BY <1>1 DEF DrawNumber
  <2>2. t.remainingNumbers = s.remainingNumbers \ {n} /\ t.drawnNumbers = s.drawnNumbers \cup {n}
    BY <1>0, <2>1 DEF RoomState
  <2>3. s.drawnNumbers = Drawn(q) /\ s.remainingNumbers = Numbers \ Drawn(q)
    BY <1>1, <1>a DEF NumbersAgree, DrawNumber, Unvisited, At
  <2>4. At("saveNumber", q)' /\ main'.number = n /\ Drawn(q)' = Drawn(q)
    BY <1>1, <2>1 DEF At, DrawNumber, Drawn, database
  <2> QED
    BY <2>2, <2>3, <2>4 DEF NumbersAgree
<1>2. CASE startGame(q)
  <2>1. t.remainingNumbers = Numbers /\ t.drawnNumbers = {}
    BY <1>0, <1>2 DEF startGame, RoomState
  <2>2. Drawn(q) = {}
    BY <1>2 DEF startGame, LifeInv, LoopKnowsStatus, StartsFresh, Fresh, NothingRepeated
  <2>3. Drawn(q)' = Drawn(q) /\ ~ At("saveNumber", q)'
    BY <1>2, StartEffect DEF startGame, Drawn, database, At, LoopIs
  <2> QED
    BY <2>1, <2>2, <2>3 DEF NumbersAgree
<1>3. CASE SaveDrawnNumberFails(q)
  <2> DEFINE c == [s EXCEPT !.drawnNumbers = @ \ {main.number},
                            !.remainingNumbers = @ \cup {main.number}]
  <2>1. UNCHANGED drawnRows /\ At("saveNumber", q)
    BY <1>3, <1>b DEF SaveDrawnNumberFails
  <2>2. main.number \in Numbers
    BY <2>1 DEF TypeOK, MainState, At
  <2>3. /\ c \in RoomState /\ c.drawnNumbers = s.drawnNumbers \ {main.number}
        /\ c.remainingNumbers = s.remainingNumbers \cup {main.number}
    BY <1>0, <2>2 DEF RoomState
  <2> HIDE DEF c
  <2>4. ErrorCounted(c).drawnNumbers = c.drawnNumbers
        /\ ErrorCounted(c).remainingNumbers = c.remainingNumbers
    BY <2>3 DEF ErrorCounted, RoomState
  <2>5. t = ErrorCounted(c)
    BY <1>0, <1>3 DEF SaveDrawnNumberFails, handleRoomError, c
  <2>6. Drawn(q)' = Drawn(q) /\ ~ At("saveNumber", q)' /\ Drawn(q) \subseteq Numbers
    BY <1>3, <2>1, DrawEffect DEF Drawn, At, LoopIs
  <2> QED
    BY <1>a, <2>1, <2>2, <2>3, <2>4, <2>5, <2>6 DEF NumbersAgree
<1>4. CASE recoverActiveRooms /\ t = Recovered(q)
  <2>1. Drawn(q)' = Drawn(q) /\ ~ At("saveNumber", q)'
    BY <1>4, BootEffect DEF recoverActiveRooms, Drawn, database, At, LoopIs
  <2> QED
    BY <1>4, <2>1 DEF Recovered, NumbersAgree
<1>5. CASE t.status \in {"unloaded", "pending"}
  BY <1>5, <1>b DEF NumbersAgree, At, LoopKnowsStatus, InGame
<1>6. CASE SameNumbers(q) /\ SaveDrawnNumber(q)
  <2>1. Drawn(q)' = Drawn(q) \cup {main.number} /\ At("saveNumber", q)
    BY <1>6, DrawnGrows DEF SaveDrawnNumber
  <2>2. ~ At("saveNumber", q)'
    BY <1>6, DrawEffect DEF At, LoopIs
  <2> QED
    BY <1>6, <1>a, <2>1, <2>2 DEF NumbersAgree, SameNumbers
<1>7. CASE /\ SameNumbers(q) /\ ~ SaveDrawnNumber(q) /\ ~ SaveDrawnNumberFails(q)
           /\ ~ DrawNumber(q) /\ ~ startGame(q) /\ t.status \notin {"unloaded", "pending"}
           /\ ~ (recoverActiveRooms /\ t = Recovered(q))
  <2>1. ~ Crash
    BY <1>7 DEF Crash, Unloaded
  <2>2. Drawn(q)' = Drawn(q)
    <3>1. ~ cleanupAllDuplicateNumbers
      BY <1>7 DEF cleanupAllDuplicateNumbers, LifeInv, LoopKnowsStatus
    <3>2. ASSUME NEW r \in Rooms, InsertDrawnRow(r), At("saveNumber", r)
          PROVE  Drawn(q)' = Drawn(q)
      <4>1. CASE r = q
        <5>1. main' = main
          BY <1>7, <2>1, <3>2, <4>1, SaveEnds
        <5>2. UNCHANGED drawnRows
          <6>1. ~ (\E p \in Rooms : SaveDrawnNumber(p) \/ SaveDrawnNumberFails(p))
            BY <1>7, <3>2, <4>1 DEF SaveDrawnNumber, SaveDrawnNumberFails, At
          <6> QED
            BY <3>1, <6>1, RowsOfNumbers
        <5> QED
          BY <5>2 DEF Drawn
      <4>2. CASE r # q
        BY <3>2, <4>2, DrawnGrows DEF Drawn
      <4> QED
        BY <4>1, <4>2
    <3>3. UNCHANGED drawnRows => Drawn(q)' = Drawn(q)
      BY DEF Drawn
    <3> QED
      BY <3>1, <3>2, <3>3, DrawnWrites
  <2>3. At("saveNumber", q)' <=> At("saveNumber", q)
    BY <1>7, <2>1, SaveBegins, SaveEnds DEF At
  <2>4. At("saveNumber", q)' => UNCHANGED main
    BY <1>7, SaveBegins
  <2>5. t.status \in {"started", "finished"} => s.status \in {"started", "finished"}
    <3>1. FinishRoom(q) => s.status = "started"
      BY DEF FinishRoom, At, LifeInv, LoopKnowsStatus, InGame
    <3>2. recoverActiveRooms => s.status = t.status \/ t = Recovered(q)
      BY DEF recoverActiveRooms
    <3> QED
      BY <1>7, <2>1, <3>1, <3>2, MemoryWrites
  <2> QED
    BY <1>7, <1>a, <2>2, <2>3, <2>4, <2>5 DEF NumbersAgree, SameNumbers
<1> QED
  BY <1>1, <1>2, <1>3, <1>4, <1>5, <1>6, <1>7, NumbersMove

\* MemDraw is inductive relative to the life of the rooms.
LEMMA MemDrawStep == TypeOK /\ LifeInv /\ StartsFresh /\ MemDraw /\ [Next]_vars => MemDraw'
<1>1. ASSUME TypeOK, LifeInv, StartsFresh, MemDraw, Next PROVE MemDraw'
  <2> SUFFICES ASSUME NothingRepeated, NEW q \in Rooms PROVE NumbersAgree(q)'
    BY DEF MemDraw, NothingRepeated, Orderly, InOrder
  <2> QED
    BY <1>1, NumbersAgreeStep
<1>2. ASSUME MemDraw, UNCHANGED vars PROVE MemDraw'
  BY <1>2 DEF MemDraw, NumbersAgree, NothingRepeated, Orderly, InOrder, At, Drawn, vars
<1> QED
  BY <1>1, <1>2

\* Memory knows which numbers are drawn, if nothing is repeated.
THEOREM NumbersAreKnown == Spec => []MemDraw
<1>1. Init => MemDraw
  BY DEF Init, MemDraw, NumbersAgree, Unloaded, Idle, At
<1> QED
  BY <1>1, MemDrawStep, TypeCorrect, LifeIsOrdered, GamesStartFresh, PTL DEF Spec

\* What a running game remembers is what the table says, if no restart meets
\* a fault and no answer is lost (auto-timer.service.ts recoverActiveRooms).
THEOREM MemoryIsTheTable == ASSUME NothingRepeated PROVE Spec => []MemoryAgreesWithRows
<1>1. MemDraw => MemoryAgreesWithRows
  BY DEF MemDraw, NumbersAgree, MemoryAgreesWithRows
<1> QED
  BY <1>1, NumbersAreKnown, PTL

\* A number is inserted while it is among the remaining ones, so once.
LEMMA NoDuplicateStep ==
    ASSUME NothingRepeated
    PROVE  TypeOK /\ MemDraw /\ NoDuplicateDraws /\ [Next]_vars => NoDuplicateDraws'
<1>1. ASSUME TypeOK, MemDraw, NoDuplicateDraws, Next PROVE NoDuplicateDraws'
  <2>0. drawnRows \in [Rooms -> [Numbers -> Nat]]
    BY <1>1 DEF TypeOK
  <2>1. CASE UNCHANGED drawnRows
    BY <1>1, <2>1 DEF NoDuplicateDraws
  <2>2. CASE cleanupAllDuplicateNumbers
    <3>1. \A k \in Nat : Smaller(k, 1) <= 1
      BY DEF Smaller
    <3>2. \A r \in Rooms, n \in Numbers :
            drawnRows'[r][n] \in {drawnRows[r][n], Smaller(drawnRows[r][n], 1)}
      BY <2>2 DEF cleanupAllDuplicateNumbers, Cleaned
    <3> QED
      BY <1>1, <2>0, <3>1, <3>2 DEF NoDuplicateDraws
  <2>3. ASSUME NEW q \in Rooms, InsertDrawnRow(q), At("saveNumber", q) PROVE NoDuplicateDraws'
    <3>1. /\ \A r \in Rooms \ {q} : drawnRows'[r] = drawnRows[r]
          /\ \A n \in Numbers : drawnRows'[q][n] = IF n = main.number THEN drawnRows[q][n] + 1
                                                   ELSE drawnRows[q][n]
          /\ main.number \in Numbers
      BY <1>1, <2>3, DrawnGrows
    <3>2. main.number \notin Drawn(q)
      BY <1>1, <2>3 DEF MemDraw, NumbersAgree
    <3>3. drawnRows[q][main.number] = 0
      BY <2>0, <3>1, <3>2 DEF Drawn
    <3>4. \A n \in Numbers : drawnRows'[q][n] <= 1
      BY <1>1, <2>0, <3>1, <3>3 DEF NoDuplicateDraws
    <3> QED
      BY <1>1, <3>1, <3>4 DEF NoDuplicateDraws
  <2> QED
    BY <1>1, <2>1, <2>2, <2>3, DrawnWrites
<1>2. ASSUME NoDuplicateDraws, UNCHANGED vars PROVE NoDuplicateDraws'
  BY <1>2 DEF NoDuplicateDraws, vars
<1> QED
  BY <1>1, <1>2

\* No number of a room has two rows, if no restart meets a fault and no answer
\* is lost, although drawn-number.entity.ts declares no unique key.
THEOREM NumbersAreDrawnOnce == ASSUME NothingRepeated PROVE Spec => []NoDuplicateDraws
<1>1. Init => NoDuplicateDraws
  BY DEF Init, NoDuplicateDraws
<1> QED
  BY <1>1, NoDuplicateStep, TypeCorrect, NumbersAreKnown, PTL DEF Spec

-----------------------------------------------------------------------------
(***************************************************************************)
(* The next room                                                           *)
(***************************************************************************)
\* There is one PENDING row, loaded or about to start, or the main loop is
\* about to insert it.
OnePending ==
    InOrder =>
        /\ \A r, q \in PendingRows : r = q
        /\ main.at = "insertPending" => PendingRows = {}
        /\ main.at \notin Booting =>
            /\ \A r \in PendingRows : \/ roomStates[r].status = "pending"
                                      \/ main.at \in InTransaction /\ main.room = r
            /\ Absent = {} \/ PendingRows # {} \/ main.at \in {"findPending", "insertPending"}

\* A row turns PENDING by its INSERT and stops to be by the COMMIT of its start.
LEMMA PendingMoves ==
    ASSUME TypeOK, LifeInv, RowsFollow, InOrder, Next, NEW q \in Rooms
    PROVE  /\ q \in PendingRows' /\ q \notin PendingRows =>
                /\ ensurePendingRooms \/ createNewPendingRoom
                /\ q = NextId /\ q \in Absent
           /\ q \in PendingRows /\ q \notin PendingRows' => CommitStart(q)
<1>0. RowFollows(q) /\ (q \in PendingRows <=> rowStatus[q] = "pending")
      /\ (q \in PendingRows' <=> rowStatus'[q] = "pending")
  BY DEF RowsFollow, PendingRows
<1>1. CASE SyncRoom(q) /\ rowStatus'[q] = roomStates[q].status
  <2>1. roomStates[q].status \in {"pending", "started", "finished", "deactivated"}
    BY <1>1 DEF SyncRoom, Unsynced, Loaded, TypeOK, RoomState, RoomStatus
  <2>2. roomStates[q].status = "started" => rowStatus[q] # "pending"
    BY <1>0, <1>1 DEF SyncRoom, WriteRow, RowLocked, RowFollows
  <2> QED
    BY <1>0, <1>1, <2>1, <2>2 DEF RowFollows
<1>2. ~ (FinishRow(q) /\ q \in PendingRows)
  BY <1>0 DEF FinishRow, At, RowFollows, LifeInv, LoopKnowsStatus, InGame, InTransaction
<1>3. q \in Absent => q \notin PendingRows
  BY DEF Absent, PendingRows
<1> QED
  BY <1>0, <1>1, <1>2, <1>3, OrderedRows

\* The start-up ends with ensurePendingRooms.
LEMMA BootEnds ==
    ASSUME TypeOK, Next, main.at \in Booting, main'.at \notin Booting
    PROVE  ensurePendingRooms
<1>1. ~ cleanupAllDuplicateNumbers /\ ~ recoverActiveRooms
  BY BootEffect DEF LoopIs, Booting
<1>2. ~ CreatePending /\ ~ EndIteration
  BY DEF CreatePending, PendingRoomExists, NoPendingRoom, createNewPendingRoom,
     createNewPendingRoomFails, EndIteration, Booting
<1>3. \A r \in Rooms : ~ RoomStep(r)
  BY DEF RoomStep, processRoomTimer, PassRoom, DrawNumber, Unvisited, resetRoomTimer,
     EnoughPlayers, TimerExpiredFails, startGame, processCardPurchases,
     distributeCardsToUsers, CommitStart, AbortStart, InTransaction, SaveDrawnNumber,
     SaveDrawnNumberFails, checkLineWinners, checkFullWinners, FinishRow, FinishRoom,
     FinishFails, At, Booting
<1>4. ~ Crash
  BY CreateEffect DEF LoopIs, Booting
<1>5. SyncJob \/ (\E r \in Rooms : Deactivate(r)) \/ (\E u \in Users : Reserve(u))
        => UNCHANGED main
  BY DEF SyncJob, EndSync, SendSync, ApplySync, SyncRoom, SyncFails, Deactivate, Reserve,
     InsertReservation, CheckPending
<1> QED
  BY <1>1, <1>2, <1>3, <1>4, <1>5 DEF Next, MainLoop, Boot

\* createNewPendingRoom is one run of the main loop, which only a crash ends.
LEMMA CreateGoesOn ==
    ASSUME TypeOK, Next, main.at \in {"findPending", "insertPending"}
    PROVE  CreatePending \/ Crash \/ UNCHANGED main
<1>1. ~ Boot /\ ~ EndIteration
  BY DEF Boot, cleanupAllDuplicateNumbers, recoverActiveRooms, ensurePendingRooms, EndIteration
<1>2. \A r \in Rooms : ~ RoomStep(r)
  BY DEF RoomStep, processRoomTimer, PassRoom, DrawNumber, Unvisited, resetRoomTimer,
     EnoughPlayers, TimerExpiredFails, startGame, processCardPurchases,
     distributeCardsToUsers, CommitStart, AbortStart, InTransaction, SaveDrawnNumber,
     SaveDrawnNumberFails, checkLineWinners, checkFullWinners, FinishRow, FinishRoom,
     FinishFails, At
<1>3. SyncJob \/ (\E r \in Rooms : Deactivate(r)) \/ (\E u \in Users : Reserve(u))
        => UNCHANGED main
  BY DEF SyncJob, EndSync, SendSync, ApplySync, SyncRoom, SyncFails, Deactivate, Reserve,
     InsertReservation, CheckPending
<1> QED
  BY <1>1, <1>2, <1>3 DEF Next, MainLoop

\* The INSERT of the next room is sent when no PENDING row was found.
LEMMA InsertBegins ==
    ASSUME TypeOK, Next, main'.at = "insertPending"
    PROVE  NoPendingRoom \/ UNCHANGED main
<1> USE DEF LoopIs
<1>1. ~ Boot /\ ~ EndIteration /\ ~ Crash /\ (CreatePending => NoPendingRoom)
  BY BootEffect, CreateEffect DEF Boot, CreatePending
<1>2. ASSUME NEW r \in Rooms, RoomStep(r) PROVE FALSE
  BY <1>2, VisitEffect, StartEffect, DrawEffect DEF RoomStep, PassRoom, Unvisited
<1>3. SyncJob \/ (\E r \in Rooms : Deactivate(r)) \/ (\E u \in Users : Reserve(u))
        => UNCHANGED main
  BY DEF SyncJob, EndSync, SendSync, ApplySync, SyncRoom, SyncFails, Deactivate, Reserve,
     InsertReservation, CheckPending
<1> QED
  BY <1>1, <1>2, <1>3 DEF Next, MainLoop

\* The INSERT of a PENDING row comes after the COMMIT of the last one's start.
LEMMA OnePendingStep == TypeOK /\ LifeInv /\ RowsFollow /\ OnePending /\ [Next]_vars => OnePending'
<1>1. ASSUME TypeOK, LifeInv, RowsFollow, OnePending, Next, InOrder
      PROVE  /\ \A r, q \in PendingRows' : r = q
             /\ main'.at = "insertPending" => PendingRows' = {}
             /\ main'.at \notin Booting =>
                /\ \A r \in PendingRows' : \/ roomStates'[r].status = "pending"
                                           \/ main'.at \in InTransaction /\ main'.room = r
                /\ Absent' = {} \/ PendingRows' # {} \/ main'.at \in {"findPending", "insertPending"}
  <2> USE <1>1
  <2>0. PendingRows \subseteq Rooms /\ PendingRows' \subseteq Rooms /\ Absent \subseteq Rooms
    BY DEF PendingRows, Absent
  <2>a. /\ \A r, q \in PendingRows : r = q
        /\ main.at = "insertPending" => PendingRows = {}
        /\ ~ Fails /\ ~ AckLost
    BY NothingFails DEF OnePending, LifeInv
  <2>b. ASSUME NEW q \in PendingRows', q \notin PendingRows
        PROVE  /\ ensurePendingRooms \/ createNewPendingRoom
               /\ q = NextId /\ PendingRows = {}
               /\ roomStates'[q].status = "pending" /\ main'.at = "loop"
    <3>1. /\ ensurePendingRooms \/ createNewPendingRoom
          /\ q = NextId /\ q \in Absent
      BY <2>0, <2>b, PendingMoves
    <3>2. rowStatus'[q] # rowStatus[q]
      BY <2>b DEF PendingRows
    <3>3. CASE ensurePendingRooms
      <4>1. PendingRows = {} /\ LoadRoom(NextId, StartTimer)
        BY <3>2, <3>3 DEF ensurePendingRooms
      <4> QED
        BY <2>0, <3>1, <3>3, <4>1, LoadEffect, BootEffect DEF LoopIs, Becomes
    <3>4. CASE createNewPendingRoom
      BY <2>0, <2>a, <3>1, <3>4, CreateEffect DEF createNewPendingRoom, LoopIs, Becomes
    <3> QED
      BY <3>1, <3>3, <3>4
  <2>1. \A r, q \in PendingRows' : r = q
    BY <2>a, <2>b
  <2>2. main'.at = "insertPending" => PendingRows' = {}
    <3> SUFFICES ASSUME main'.at = "insertPending" PROVE PendingRows' = {}
      OBVIOUS
    <3>1. CASE NoPendingRoom
      BY <3>1 DEF NoPendingRoom, PendingRows, database
    <3>2. CASE UNCHANGED main
      BY <2>a, <2>b, <3>2
    <3> QED
      BY <3>1, <3>2, InsertBegins
  <2>3. ASSUME main'.at \notin Booting, main.at \in Booting
        PROVE  /\ \A r \in PendingRows' : roomStates'[r].status = "pending"
               /\ Absent' = {} \/ PendingRows' # {}
    <3>1. ensurePendingRooms
      BY <2>3, BootEnds
    <3>2. CASE \E r \in PendingRows : LoadRoom(r, rowSeconds[r]) /\ UNCHANGED rowStatus
      <4>1. PICK r \in PendingRows : LoadRoom(r, rowSeconds[r]) /\ UNCHANGED rowStatus
        BY <3>2
      <4>2. PendingRows' = PendingRows /\ Becomes(r, "pending")
        BY <2>0, <4>1, LoadEffect DEF PendingRows
      <4> QED
        BY <2>0, <2>a, <4>1, <4>2 DEF Becomes
    <3>3. CASE PendingRows = {} /\ Absent # {} /\ InsertPendingRow(NextId)
      <4>1. NextId \in PendingRows'
        BY <3>3, PendingInserted, NextIdIsARoom DEF PendingRows
      <4> QED
        BY <2>b, <3>3, <4>1
    <3>4. CASE OutOfIds /\ UNCHANGED rowStatus
      BY <3>4 DEF OutOfIds, PendingRows, Absent
    <3> QED
      BY <2>a, <3>1, <3>2, <3>3, <3>4 DEF ensurePendingRooms
  <2>4. ASSUME main'.at \notin Booting, main.at \notin Booting, NEW q \in PendingRows'
        PROVE  \/ roomStates'[q].status = "pending"
               \/ main'.at \in InTransaction /\ main'.room = q
    <3>0. ~ Crash /\ q \in Rooms
      BY <2>0, <2>4, CreateEffect DEF LoopIs, Booting
    <3>1. CASE q \notin PendingRows
      BY <2>b, <3>1
    <3>2. CASE q \in PendingRows /\ roomStates[q].status = "pending"
      <4>1. startGame(q) => main'.at \in InTransaction /\ main'.room = q
        BY <3>0, StartEffect DEF LoopIs, InTransaction
      <4>2. ~ FinishRoom(q)
        BY <3>2 DEF FinishRoom, At, LifeInv, LoopKnowsStatus, InGame
      <4>3. ~ recoverActiveRooms
        BY <2>4 DEF recoverActiveRooms, Booting
      <4> QED
        BY <3>0, <3>2, <4>1, <4>2, <4>3, OrderedMemory
    <3>3. CASE main.at \in InTransaction /\ main.room = q
      <4>1. ~ CommitStart(q)
        BY <3>0 DEF CommitStart, Commit, TypeOK, PendingRows
      <4> QED
        BY <3>0, <3>3, <4>1, TransactionEnds, NoAbort
    <3> QED
      BY <2>4, <3>1, <3>2, <3>3 DEF OnePending
  <2>5. ASSUME main'.at \notin Booting, main.at \notin Booting
        PROVE  Absent' = {} \/ PendingRows' # {} \/ main'.at \in {"findPending", "insertPending"}
    <3>0. ~ Crash
      BY <2>5, CreateEffect DEF LoopIs, Booting
    <3>1. CASE Absent = {}
      BY <3>1, RowsAreKept DEF LifeInv
    <3>2. CASE PendingRows # {}
      <4>1. PICK p \in PendingRows : TRUE
        BY <3>2
      <4>2. p \in PendingRows' \/ CommitStart(p)
        BY <2>0, PendingMoves
      <4> QED
        BY <2>0, <4>1, <4>2, StartEffect DEF LoopIs
    <3>3. CASE PendingRows = {} /\ main.at \in {"findPending", "insertPending"}
      <4>1. NoPendingRoom => main'.at = "insertPending"
        BY CreateEffect DEF LoopIs
      <4>2. ~ PendingRoomExists
        BY <3>3 DEF PendingRoomExists
      <4>3. createNewPendingRoom => PendingRows' # {}
        BY PendingInserted, NextIdIsARoom DEF createNewPendingRoom, PendingRows
      <4>4. createNewPendingRoomFails => Absent' = {}
        BY <2>a DEF createNewPendingRoomFails, Absent
      <4> QED
        BY <3>0, <3>3, <4>1, <4>2, <4>3, <4>4, CreateGoesOn DEF CreatePending
    <3> QED
      BY <2>5, <3>1, <3>2, <3>3 DEF OnePending
  <2> QED
    BY <2>1, <2>2, <2>3, <2>4, <2>5
<1>2. ASSUME OnePending, UNCHANGED vars PROVE OnePending'
  BY <1>2 DEF OnePending, InOrder, PendingRows, Absent, vars
<1>3. InOrder' <=> InOrder
  BY DEF InOrder
<1> QED
  BY <1>1, <1>2, <1>3 DEF OnePending

\* Without faults there is never a second PENDING room and never none for long.
THEOREM PendingRoomIsUnique == Spec => []OnePending
<1>1. Init => OnePending
  BY DEF Init, OnePending, PendingRows, Idle, Booting
<1> QED
  BY <1>1, OnePendingStep, TypeCorrect, LifeIsOrdered, MemoryAndRowsFollow, PTL DEF Spec

\* Whenever the main loop rests, a PENDING row is loaded and counting down,
\* unless the ids are used up (auto-timer.service.ts createNewPendingRoom).
THEOREM APendingRoomIsOpen == ASSUME InOrder PROVE Spec => []AlwaysAPendingRoom
<1>1. OnePending => AlwaysAPendingRoom
  BY DEF OnePending, AlwaysAPendingRoom, Booting, InTransaction
<1> QED
  BY <1>1, PendingRoomIsUnique, PTL

-----------------------------------------------------------------------------
(***************************************************************************)
(* The reservations stay within their bound                                *)
(***************************************************************************)
Placed == {p \in Rooms \X (1..MaxReservations) : p[2] <= Len(reservations[p[1]])}
\* The users whose request has found a PENDING room.
Asking == {u \in Users : request[u] # NoRoom}

\* Reservations and requests together stay within MaxReservations.
Places ==
    /\ Cardinality(Placed) + Cardinality(Asking) <= MaxReservations
    /\ \A r \in Rooms : Len(reservations[r]) <= MaxReservations

\* The sets that are counted are finite.
LEMMA PlacesAreFinite ==
    /\ IsFiniteSet(Rooms \X (1..MaxReservations))
    /\ IsFiniteSet(Placed) /\ IsFiniteSet(Asking)
    /\ Cardinality(Placed) \in Nat /\ Cardinality(Asking) \in Nat
<1>1. IsFiniteSet(Rooms) /\ IsFiniteSet(1..MaxReservations)
  BY FS_Interval, BoundsAssumption DEF Rooms
<1>2. IsFiniteSet(Rooms \X (1..MaxReservations))
  BY <1>1, FS_Product
<1>3. IsFiniteSet(Placed) /\ IsFiniteSet(Asking)
  BY <1>2, UsersAssumption, FS_Subset DEF Placed, Asking
<1> QED
  BY <1>2, <1>3, FS_CardinalityType

\* An element makes a set larger by one at most.
LEMMA OneMore ==
    ASSUME NEW S, IsFiniteSet(S), NEW x
    PROVE  /\ IsFiniteSet(S \cup {x})
           /\ Cardinality(S \cup {x}) <= Cardinality(S) + 1
<1>1. CASE x \in S
  <2>1. S \cup {x} = S
    BY <1>1
  <2> QED
    BY <2>1, FS_CardinalityType
<1>2. CASE x \notin S
  BY <1>2, FS_AddElement, FS_CardinalityType
<1> QED
  BY <1>1, <1>2

\* A room with n reservations takes n of the places.
LEMMA RoomTakesPlaces ==
    ASSUME TypeOK, Places, NEW r \in Rooms
    PROVE  Len(reservations[r]) <= Cardinality(Placed)
<1> DEFINE n == Len(reservations[r])
           mine == {<<r, i>> : i \in 1..n}
<1>1. n \in Nat /\ n <= MaxReservations
  BY DEF TypeOK, Places
<1> HIDE DEF n
<1>2. mine \subseteq Placed
  BY <1>1, BoundsAssumption DEF Placed, n
<1>3. IsFiniteSet(mine) /\ Cardinality(mine) <= Cardinality(Placed)
  BY <1>2, PlacesAreFinite, FS_Subset
<1>5. Cardinality(mine) = n
  BY <1>1, PlacesAreCounted
<1> QED
  BY <1>3, <1>5 DEF n

\* reserve appends one reservation of its user to the room it has found.
LEMMA ReservationAppended ==
    ASSUME TypeOK, NEW u \in Users, InsertReservation(u)
    PROVE  /\ request[u] \in Rooms /\ request'[u] = NoRoom
           /\ \A v \in Users \ {u} : request'[v] = request[v]
           /\ \A q \in Rooms \ {request[u]} : reservations'[q] = reservations[q]
           /\ \E x \in Reservation :
                /\ x.user = u
                /\ reservations'[request[u]] = Append(reservations[request[u]], x)
           /\ Len(reservations'[request[u]]) = Len(reservations[request[u]]) + 1
<1>1. request \in [Users -> Rooms \cup {NoRoom}] /\ reservations \in [Rooms -> Seq(Reservation)]
  BY DEF TypeOK
<1>2. PICK count \in CardCounts :
        reservations' = [reservations EXCEPT
            ![request[u]] = Append(@, [user |-> u, cardCount |-> count])]
  BY DEF InsertReservation
<1>3. [user |-> u, cardCount |-> count] \in Reservation
  BY DEF Reservation
<1>4. request[u] \in Rooms
  BY <1>1 DEF InsertReservation
<1>5. reservations'[request[u]] =
        Append(reservations[request[u]], [user |-> u, cardCount |-> count])
  BY <1>1, <1>2, <1>4
<1>6. Len(reservations'[request[u]]) = Len(reservations[request[u]]) + 1
  BY <1>1, <1>3, <1>4, <1>5
<1> QED
  BY <1>1, <1>2, <1>3, <1>4, <1>5, <1>6 DEF InsertReservation

\* Requests and reservations are written by the HTTP handlers and a crash.
LEMMA ReservationWrites ==
    ASSUME Next
    PROVE  \/ UNCHANGED <<reservations, request>>
           \/ \E u \in Users : Reserve(u)
           \/ Crash
  BY DEF Next, MainLoop, Boot, CreatePending, RoomStep, SyncJob, database, game,
         cleanupAllDuplicateNumbers, recoverActiveRooms, ensurePendingRooms, EndIteration,
         PendingRoomExists, NoPendingRoom, createNewPendingRoom, createNewPendingRoomFails,
         processRoomTimer, PassRoom, DrawNumber, resetRoomTimer, EnoughPlayers,
         TimerExpiredFails, startGame, processCardPurchases, distributeCardsToUsers,
         CommitStart, AbortStart, Commit, SaveDrawnNumber, SaveDrawnNumberFails, FinishRow,
         checkLineWinners, checkFullWinners, FinishRoom, FinishFails, EndSync, SendSync,
         ApplySync, SyncRoom, SyncFails, Deactivate

\* A request takes the place that its reservation fills.
LEMMA PlacesStep == TypeOK /\ Places /\ [Next]_vars => Places'
<1>1. ASSUME TypeOK, Places, Next PROVE Places'
  <2> USE <1>1
  <2>0. /\ IsFiniteSet(Placed) /\ IsFiniteSet(Asking) /\ NoRoom \notin Rooms
        /\ Cardinality(Placed) \in Nat /\ Cardinality(Asking) \in Nat /\ MaxReservations \in Nat
    BY PlacesAreFinite, BoundsAssumption DEF NoRoom, Rooms
  <2>1. CASE UNCHANGED <<reservations, request>>
    BY <2>1 DEF Places, Placed, Asking
  <2>2. CASE Crash
    <3>1. Asking' = {} /\ Placed' = Placed /\ UNCHANGED reservations
      BY <2>2 DEF Crash, Asking, Placed, database
    <3>2. Cardinality(Asking') = 0
      BY <3>1, FS_EmptySet
    <3> QED
      BY <2>0, <3>1, <3>2 DEF Places
  <2>3. ASSUME NEW u \in Users, NEW r \in Rooms, CheckPending(u, r) PROVE Places'
    <3>1. Placed' = Placed /\ UNCHANGED reservations
      BY <2>3 DEF CheckPending, Placed, database
    <3>2. Asking' = Asking \cup {u} /\ u \notin Asking
      BY <2>0, <2>3 DEF CheckPending, Asking, TypeOK
    <3>3. Cardinality(Asking') = Cardinality(Asking) + 1
      BY <2>0, <3>2, FS_AddElement
    <3>4. Cardinality(Placed) + Cardinality(Asking) < MaxReservations
      BY <2>3 DEF CheckPending, Reserved, Reserving, Placed, Asking
    <3> QED
      BY <2>0, <3>1, <3>3, <3>4 DEF Places
  <2>4. ASSUME NEW u \in Users, InsertReservation(u) PROVE Places'
    <3> DEFINE r == request[u]
               n == Len(reservations[r])
    <3>0. r \in Rooms /\ n \in Nat /\ Len(reservations'[r]) = n + 1
      BY <2>4, ReservationAppended DEF TypeOK
    <3>1. Asking' = Asking \ {u} /\ u \in Asking
      BY <2>0, <2>4, <3>0, ReservationAppended DEF Asking
    <3>2. Cardinality(Asking') = Cardinality(Asking) - 1
      BY <2>0, <3>1, FS_RemoveElement
    <3>3. Placed' \subseteq Placed \cup {<<r, n + 1>>}
      <4>1. ASSUME NEW p \in Placed', p \notin Placed PROVE p = <<r, n + 1>>
        <5>1. p \in Rooms \X (1..MaxReservations) /\ p[2] <= Len(reservations'[p[1]])
          BY <4>1 DEF Placed
        <5>2. p[1] = r
          BY <2>4, <4>1, <5>1, ReservationAppended DEF Placed
        <5>3. ~ (p[2] <= n)
          BY <4>1, <5>1, <5>2 DEF Placed
        <5>4. p[2] = n + 1
          BY <2>0, <3>0, <5>1, <5>2, <5>3
        <5> QED
          BY <5>1, <5>2, <5>4
      <4> QED
        BY <4>1
    <3>4. /\ IsFiniteSet(Placed \cup {<<r, n + 1>>})
          /\ Cardinality(Placed \cup {<<r, n + 1>>}) <= Cardinality(Placed) + 1
      BY <2>0, OneMore
    <3>5. Cardinality(Placed') \in Nat /\ Cardinality(Placed') <= Cardinality(Placed) + 1
      <4>1. IsFiniteSet(Placed') /\ Cardinality(Placed') <= Cardinality(Placed \cup {<<r, n + 1>>})
        BY <3>3, <3>4, FS_Subset
      <4> QED
        BY <2>0, <3>4, <4>1, FS_CardinalityType
    <3>6. n + 1 <= MaxReservations
      <4>1. n <= Cardinality(Placed)
        BY <3>0, RoomTakesPlaces
      <4>2. Cardinality(Asking) >= 1
        BY <2>0, <3>1, FS_EmptySet
      <4> QED
        BY <2>0, <3>0, <4>1, <4>2 DEF Places
    <3>7. \A q \in Rooms : Len(reservations'[q]) <= MaxReservations
      BY <2>4, <3>0, <3>6, ReservationAppended DEF Places
    <3> HIDE DEF r, n
    <3> QED
      BY <2>0, <3>2, <3>5, <3>7 DEF Places
  <2> QED
    BY <2>1, <2>2, <2>3, <2>4, ReservationWrites DEF Reserve
<1>2. ASSUME Places, UNCHANGED vars PROVE Places'
  BY <1>2 DEF Places, Placed, Asking, vars
<1> QED
  BY <1>1, <1>2

\* No room has more reservations than the bound.
THEOREM PlacesAreBounded == Spec => []Places
<1>1. Init => Places
  <2> SUFFICES ASSUME Init PROVE Places
    OBVIOUS
  <2>1. Placed = {} /\ Asking = {} /\ \A r \in Rooms : Len(reservations[r]) = 0
    BY DEF Init, Placed, Asking
  <2> QED
    BY <2>1, FS_EmptySet, BoundsAssumption DEF Places
<1> QED
  BY <1>1, PlacesStep, TypeCorrect, PTL DEF Spec

-----------------------------------------------------------------------------
(***************************************************************************)
(* The timers stay within their range                                      *)
(***************************************************************************)
\* A restart may find the timer of a PENDING room already at its lowest value.
TimerFloor ==
    IF main.at \in Booting /\ faults.restarts > 0 THEN 1 - faults.restarts
    ELSE - faults.restarts

\* The main loop handles the expired timer of r.
Expiring(r) == main.at \in {"expired", "begin"} /\ main.room = r

\* The range of the timers, in memory and in the rows.
Timers ==
    InOrder => \A r \in Rooms :
        /\ TimerFloor <= rowSeconds[r] /\ rowSeconds[r] <= StartTimer
        /\ TimerFloor <= roomStates[r].remainingSeconds
        /\ roomStates[r].remainingSeconds <= StartTimer
        /\ roomStates[r].status = "pending" /\ ~ Expiring(r) =>
                1 - faults.restarts <= roomStates[r].remainingSeconds

\* The timer in memory is written by these steps.
LEMMA SecondsMove ==
    ASSUME TypeOK, LifeInv, RowsFollow, InOrder, Next, NEW q \in Rooms,
           roomStates'[q].remainingSeconds # roomStates[q].remainingSeconds
    PROVE  \/ Crash
           \/ /\ processRoomTimer(q)
              /\ roomStates'[q].remainingSeconds = roomStates[q].remainingSeconds - 1
           \/ resetRoomTimer(q) /\ roomStates'[q].remainingSeconds = StartTimer
           \/ recoverActiveRooms /\ roomStates'[q].remainingSeconds = rowSeconds[q]
           \/ /\ ensurePendingRooms /\ q \in PendingRows
              /\ roomStates'[q].remainingSeconds = rowSeconds[q]
           \/ roomStates'[q].remainingSeconds = StartTimer /\ ~ Expiring(q)'
<1>0. /\ roomStates \in [Rooms -> RoomState]
      /\ \A r \in Rooms : roomStates[r] \in RoomState
      /\ ~ Fails /\ ~ AckLost
  BY NothingFails DEF TypeOK, LifeInv
<1>1. ASSUME NEW r \in Rooms, NEW n, LoadRoom(r, n)
      PROVE  IF q = r THEN roomStates'[q].remainingSeconds = n ELSE roomStates'[q] = roomStates[q]
  BY <1>0, <1>1 DEF LoadRoom, addRoomToState, Unloaded
<1>2. CASE recoverActiveRooms
  BY <1>0, <1>2 DEF recoverActiveRooms, Recovered
<1>3. CASE ensurePendingRooms
  <2>1. ~ Expiring(q)'
    BY <1>3, BootEffect DEF LoopIs, Expiring
  <2> QED
    BY <1>0, <1>1, <1>3, <2>1, NextIdIsARoom DEF ensurePendingRooms, PendingRows
<1>4. CASE createNewPendingRoom
  <2>1. ~ Expiring(q)'
    BY <1>4, CreateEffect DEF LoopIs, Expiring
  <2> QED
    BY <1>0, <1>1, <1>4, <2>1, NextIdIsARoom DEF createNewPendingRoom
<1>5. ASSUME NEW r \in Rooms, RoomStep(r)
      PROVE  \/ /\ processRoomTimer(q)
                /\ roomStates'[q].remainingSeconds = roomStates[q].remainingSeconds - 1
             \/ resetRoomTimer(q) /\ roomStates'[q].remainingSeconds = StartTimer
  <2>1. CASE processRoomTimer(r)
    BY <1>0, <2>1 DEF processRoomTimer, RoomState
  <2>2. CASE resetRoomTimer(r)
    BY <1>0, <2>2 DEF resetRoomTimer, RoomState
  <2>3. ~ DrawNumber(r)
    <3> SUFFICES ASSUME DrawNumber(r) PROVE FALSE
      OBVIOUS
    <3>1. PICK n : roomStates' = [roomStates EXCEPT ![r].remainingNumbers = @ \ {n},
                                                    ![r].drawnNumbers = @ \cup {n}]
      BY DEF DrawNumber
    <3> QED
      BY <1>0, <3>1 DEF RoomState
  <2>4. ~ startGame(r) /\ ~ FinishRoom(r)
    BY <1>0 DEF startGame, FinishRoom, RoomState
  <2> QED
    BY <1>0, <1>5, <2>1, <2>2, <2>3, <2>4, NoAbort DEF RoomStep, PassRoom, EnoughPlayers,
       TimerExpiredFails, processCardPurchases, distributeCardsToUsers, CommitStart,
       SaveDrawnNumber, SaveDrawnNumberFails, checkLineWinners, checkFullWinners, FinishRow,
       FinishFails
<1>6. cleanupAllDuplicateNumbers \/ PendingRoomExists \/ NoPendingRoom
      \/ createNewPendingRoomFails \/ EndIteration \/ SyncJob
      \/ (\E r \in Rooms : Deactivate(r)) \/ (\E u \in Users : Reserve(u)) => UNCHANGED roomStates
  BY DEF cleanupAllDuplicateNumbers, PendingRoomExists, NoPendingRoom,
     createNewPendingRoomFails, EndIteration, SyncJob, EndSync, SendSync, ApplySync, SyncRoom,
     SyncFails, Deactivate, Reserve, InsertReservation, CheckPending
<1> QED
  BY <1>2, <1>3, <1>4, <1>5, <1>6 DEF Next, MainLoop, Boot, CreatePending

\* The timer of a row is written by the INSERT and by the sync.
LEMMA RowSecondsMove ==
    ASSUME TypeOK, LifeInv, RowsFollow, InOrder, Next, NEW q \in Rooms
    PROVE  \/ rowSeconds'[q] = rowSeconds[q]
           \/ rowSeconds'[q] = StartTimer
           \/ SyncRoom(q) /\ rowSeconds'[q] = roomStates[q].remainingSeconds
<1>0. rowSeconds \in [Rooms -> Int]
  BY DEF TypeOK
<1>1. CASE ensurePendingRooms \/ createNewPendingRoom \/ createNewPendingRoomFails
  BY <1>0, <1>1, NextIdIsARoom
     DEF ensurePendingRooms, createNewPendingRoom, createNewPendingRoomFails, InsertPendingRow
<1>2. ASSUME NEW r \in Rooms, ApplySync(r) \/ SyncRoom(r)
      PROVE  \/ rowSeconds'[q] = rowSeconds[q]
             \/ SyncRoom(q) /\ rowSeconds'[q] = roomStates[q].remainingSeconds
  BY <1>0, <1>2 DEF ApplySync, SyncRoom, WriteRow, RowsFollow
<1>3. cleanupAllDuplicateNumbers \/ recoverActiveRooms \/ PendingRoomExists \/ NoPendingRoom
      \/ EndIteration \/ EndSync \/ Crash
      \/ (\E r \in Rooms : RoomStep(r) \/ SendSync(r) \/ SyncFails(r) \/ Deactivate(r))
      \/ (\E u \in Users : Reserve(u)) => UNCHANGED rowSeconds
  BY DEF cleanupAllDuplicateNumbers, recoverActiveRooms, PendingRoomExists, NoPendingRoom,
     EndIteration, EndSync, Crash, RoomStep, processRoomTimer, PassRoom, DrawNumber,
     resetRoomTimer, EnoughPlayers, TimerExpiredFails, startGame, processCardPurchases,
     distributeCardsToUsers, CommitStart, AbortStart, Commit, SaveDrawnNumber,
     SaveDrawnNumberFails, checkLineWinners, checkFullWinners, FinishRow, FinishRoom,
     FinishFails, SendSync, SyncFails, Deactivate, Reserve, InsertReservation, CheckPending,
     database
<1> QED
  BY <1>1, <1>2, <1>3 DEF Next, MainLoop, Boot, CreatePending, SyncJob

\* How the handling of an expired timer ends.
LEMMA ExpiryEnds ==
    ASSUME TypeOK, LifeInv, InOrder, Next, NEW q \in Rooms, Expiring(q)
    PROVE  Expiring(q)' \/ resetRoomTimer(q) \/ startGame(q) \/ Crash
<1>0. main.at \in {"expired", "begin"} /\ main.room = q /\ ~ Fails /\ ~ AckLost
  BY NothingFails DEF Expiring, LifeInv
<1>1. ~ Boot /\ ~ CreatePending /\ ~ EndIteration
  BY <1>0 DEF Boot, cleanupAllDuplicateNumbers, recoverActiveRooms, ensurePendingRooms,
     CreatePending, PendingRoomExists, NoPendingRoom, createNewPendingRoom,
     createNewPendingRoomFails, EndIteration
<1>2. ASSUME NEW r \in Rooms, RoomStep(r)
      PROVE  Expiring(q)' \/ resetRoomTimer(q) \/ startGame(q)
  <2>1. r = q /\ (EnoughPlayers(q) \/ resetRoomTimer(q) \/ startGame(q))
    BY <1>0, <1>2 DEF RoomStep, processRoomTimer, PassRoom, DrawNumber, Unvisited,
       resetRoomTimer, EnoughPlayers, TimerExpiredFails, startGame, processCardPurchases,
       distributeCardsToUsers, CommitStart, AbortStart, InTransaction, SaveDrawnNumber,
       SaveDrawnNumberFails, checkLineWinners, checkFullWinners, FinishRow, FinishRoom,
       FinishFails, At
  <2>2. EnoughPlayers(q) => Expiring(q)'
    BY VisitEffect DEF LoopIs, Expiring
  <2> QED
    BY <2>1, <2>2
<1>3. SyncJob \/ (\E r \in Rooms : Deactivate(r)) \/ (\E u \in Users : Reserve(u))
        => UNCHANGED main
  BY DEF SyncJob, EndSync, SendSync, ApplySync, SyncRoom, SyncFails, Deactivate, Reserve,
     InsertReservation, CheckPending
<1> QED
  BY <1>0, <1>1, <1>2, <1>3 DEF Next, MainLoop, Expiring

\* The process boots after a crash only.
LEMMA BootBegins ==
    ASSUME TypeOK, Next, main'.at \in Booting, main.at \notin Booting
    PROVE  Crash
<1>1. ~ CreatePending /\ ~ EndIteration
  BY CreateEffect DEF CreatePending, LoopIs, Booting
<1>2. \A r \in Rooms : ~ RoomStep(r)
  BY VisitEffect, StartEffect, DrawEffect DEF RoomStep, LoopIs, Booting
<1>3. SyncJob \/ (\E r \in Rooms : Deactivate(r)) \/ (\E u \in Users : Reserve(u))
        => UNCHANGED main
  BY DEF SyncJob, EndSync, SendSync, ApplySync, SyncRoom, SyncFails, Deactivate, Reserve,
     InsertReservation, CheckPending
<1>4. ~ Boot
  BY DEF Boot, cleanupAllDuplicateNumbers, recoverActiveRooms, ensurePendingRooms, Booting
<1> QED
  BY <1>1, <1>2, <1>3, <1>4 DEF Next, MainLoop

\* The timer of a PENDING row that the start-up loads.
LEMMA PendingTimer ==
    ASSUME TypeOK, LifeInv, Timers, InOrder, ensurePendingRooms, NEW q \in PendingRows
    PROVE  1 - faults.restarts <= rowSeconds[q]
<1>0. q \in Rooms /\ faults.restarts \in Nat /\ TimerFloor <= rowSeconds[q]
  BY DEF PendingRows, TypeOK, FaultCounts, Timers
<1>1. q \notin Absent /\ main.at \in Booting
  BY DEF PendingRows, Absent, ensurePendingRooms, Booting
<1>2. faults.restarts # 0
  BY <1>0, <1>1 DEF LifeInv, FirstBootIsEmpty
<1> QED
  BY <1>0, <1>1, <1>2 DEF TimerFloor

\* A timer is decremented once after it was at least one, or a restart older.
LEMMA TimersStep == TypeOK /\ LifeInv /\ RowsFollow /\ Timers /\ [Next]_vars => Timers'
<1>1. ASSUME TypeOK, LifeInv, RowsFollow, Timers, Next, InOrder, NEW q \in Rooms
      PROVE  /\ TimerFloor' <= rowSeconds'[q] /\ rowSeconds'[q] <= StartTimer
             /\ TimerFloor' <= roomStates'[q].remainingSeconds
             /\ roomStates'[q].remainingSeconds <= StartTimer
             /\ roomStates'[q].status = "pending" /\ ~ Expiring(q)' =>
                    1 - faults'.restarts <= roomStates'[q].remainingSeconds
  <2> USE <1>1
  <2> DEFINE k == faults.restarts
             left == roomStates[q].remainingSeconds
             leftNow == roomStates'[q].remainingSeconds
  <2>0. /\ k \in Nat /\ left \in Int /\ rowSeconds[q] \in Int /\ StartTimer \in Nat \ {0}
        /\ TimerFloor \in Int
        /\ TimerFloor <= rowSeconds[q] /\ rowSeconds[q] <= StartTimer
        /\ TimerFloor <= left /\ left <= StartTimer
        /\ roomStates[q].status = "pending" /\ ~ Expiring(q) => 1 - k <= left
    BY GameRoomAssumption DEF TypeOK, FaultCounts, RoomState, Timers, TimerFloor
  <2>1. CASE Crash
    <3>1. /\ faults'.restarts = k + 1 /\ main'.at \in Booting
          /\ leftNow = 0 /\ roomStates'[q].status = "unloaded" /\ UNCHANGED rowSeconds
      BY <2>1, FaultCounters DEF Crash, Idle, Booting, Unloaded, database
    <3>2. TimerFloor' = - k
      BY <2>0, <3>1 DEF TimerFloor
    <3>3. - k <= rowSeconds[q]
      BY <2>0 DEF TimerFloor
    <3> QED
      BY <2>0, <3>1, <3>2, <3>3
  <2>2. CASE ~ Crash
    <3>1. /\ faults'.restarts = k /\ TimerFloor' \in Int /\ TimerFloor' <= TimerFloor
          /\ TimerFloor' <= 1 - k /\ (main'.at \notin Booting => TimerFloor' = - k)
      <4>1. faults'.restarts = k
        BY <2>2, FaultCounters
      <4>2. main'.at \in Booting => main.at \in Booting
        BY <2>2, BootBegins
      <4> QED
        BY <2>0, <4>1, <4>2 DEF TimerFloor
    <3>2. TimerFloor' <= rowSeconds'[q] /\ rowSeconds'[q] <= StartTimer
      BY <2>0, <3>1, RowSecondsMove
    <3>3. CASE leftNow # left
      <4>1. CASE processRoomTimer(q)
        <5>1. roomStates[q].status = "pending" /\ ~ Expiring(q) /\ main.at = "loop"
          BY <4>1 DEF processRoomTimer, Unvisited, Expiring
        <5>2. leftNow = left - 1 /\ main'.at \notin Booting
          BY <4>1, VisitEffect DEF processRoomTimer, TypeOK, RoomState, LoopIs, Booting
        <5>3. left - 1 <= 0 => Expiring(q)'
          BY <4>1 DEF processRoomTimer, Expiring, TypeOK, MainState
        <5> QED
          BY <2>0, <3>1, <3>2, <5>1, <5>2, <5>3
      <4>2. CASE leftNow = StartTimer
        BY <2>0, <3>1, <3>2, <4>2
      <4>3. CASE recoverActiveRooms /\ leftNow = rowSeconds[q]
        <5>1. roomStates'[q].status # "pending"
          BY <3>3, <4>3 DEF recoverActiveRooms, Recovered, TypeOK
        <5> QED
          BY <2>0, <3>1, <3>2, <4>3, <5>1
      <4>4. CASE ensurePendingRooms /\ q \in PendingRows /\ leftNow = rowSeconds[q]
        <5>2. 1 - k <= rowSeconds[q]
          BY <4>4, PendingTimer
        <5> QED
          BY <2>0, <3>1, <3>2, <4>4, <5>2
      <4> QED
        BY <2>2, <3>3, <4>1, <4>2, <4>3, <4>4, SecondsMove
    <3>4. CASE leftNow = left
      <4>1. CASE roomStates[q].status = "pending" /\ ~ Expiring(q)
        BY <2>0, <3>1, <3>2, <3>4, <4>1
      <4>2. CASE roomStates'[q].status # "pending" \/ Expiring(q)'
        BY <2>0, <3>1, <3>2, <3>4, <4>2
      <4>3. CASE Expiring(q) /\ ~ Expiring(q)' /\ roomStates'[q].status = "pending"
        <5>1. resetRoomTimer(q)
          BY <2>2, <4>3, ExpiryEnds, StartEffect DEF Becomes
        <5>2. leftNow = StartTimer
          BY <5>1 DEF resetRoomTimer, TypeOK, RoomState
        <5> QED
          BY <2>0, <3>1, <3>2, <5>2
      <4>4. CASE roomStates[q].status # "pending" /\ roomStates'[q].status = "pending"
        <5>1. ensurePendingRooms \/ createNewPendingRoom
          BY <2>2, <4>4, OrderedMemory, StartEffect, DrawEffect DEF Becomes
        <5>2. \/ LoadRoom(q, rowSeconds[q]) /\ ensurePendingRooms /\ q \in PendingRows
              \/ LoadRoom(q, StartTimer)
          BY <4>4, <5>1, LoadEffect, NextIdIsARoom
             DEF ensurePendingRooms, createNewPendingRoom, Becomes, PendingRows
        <5>3. CASE LoadRoom(q, StartTimer)
          BY <2>0, <3>1, <3>2, <5>3 DEF LoadRoom, addRoomToState, Unloaded, TypeOK
        <5>4. CASE LoadRoom(q, rowSeconds[q]) /\ ensurePendingRooms /\ q \in PendingRows
          <6>1. leftNow = rowSeconds[q]
            BY <5>4 DEF LoadRoom, addRoomToState, Unloaded, TypeOK
          <6> QED
            BY <2>0, <3>1, <3>2, <5>4, <6>1, PendingTimer
        <5> QED
          BY <5>2, <5>3, <5>4
      <4> QED
        BY <4>1, <4>2, <4>3, <4>4
    <3> QED
      BY <3>3, <3>4
  <2> QED
    BY <2>1, <2>2
<1>2. ASSUME Timers, UNCHANGED vars PROVE Timers'
  BY <1>2 DEF Timers, TimerFloor, InOrder, Expiring, vars
<1>3. InOrder' <=> InOrder
  BY DEF InOrder
<1> QED
  BY <1>1, <1>2, <1>3 DEF Timers

\* Without faults a timer is below zero after restarts only, by one second each.
THEOREM TimersAreBounded == Spec => []Timers
<1>1. Init => Timers
  BY GameRoomAssumption DEF Init, Timers, TimerFloor, Unloaded
<1> QED
  BY <1>1, TimersStep, TypeCorrect, LifeIsOrdered, MemoryAndRowsFollow, PTL DEF Spec

-----------------------------------------------------------------------------
(***************************************************************************)
(* The engine implements what its tables promise                           *)
(***************************************************************************)
Seated == [r \in Rooms |-> PlayerCount(r)]
\* The numbers, players and types of win that the readers of the tables see.
DrawnNow == [r \in Rooms |-> Drawn(r)]
Won == [r \in Rooms |-> {t \in WinType : winnerRows[r][t] # <<>>}]

\* What the refinement rests on.
RowsInv == LifeInv /\ RowsFollow /\ Places /\ Timers /\ WinnerInv

\* An UPDATE that writes a status it may write.
LEMMA RowIsWritten ==
    ASSUME NEW r \in Rooms, NEW new \in Rows!Successors(r), NEW left \in RowSeconds,
           rowStatus' = [rowStatus EXCEPT ![r] = new],
           rowSeconds' = [rowSeconds EXCEPT ![r] = left],
           UNCHANGED <<Seated, DrawnNow, Won>>
    PROVE  Rows!Next
  BY DEF Rows!Next, Rows!WriteRow, Seated, DrawnNow, Won

\* The other tables are left alone.
LEMMA TablesStay ==
    /\ UNCHANGED reservations => UNCHANGED Seated
    /\ UNCHANGED drawnRows => UNCHANGED DrawnNow
    /\ UNCHANGED winnerRows => UNCHANGED Won
  BY DEF Seated, PlayerCount, DrawnNow, Drawn, Won

\* What may be written to the timer of a row.
LEMMA TimersFit ==
    ASSUME TypeOK, RowsInv, InOrder, NEW r \in Rooms
    PROVE  /\ rowSeconds[r] \in RowSeconds /\ StartTimer \in RowSeconds
           /\ roomStates[r].remainingSeconds \in RowSeconds
<1>1. /\ faults.restarts \in Nat /\ faults.restarts <= MaxRestarts /\ MaxRestarts \in Nat
      /\ MaxErrors = 0 /\ StartTimer \in Nat
      /\ rowSeconds[r] \in Int /\ roomStates[r].remainingSeconds \in Int
  BY BoundsAssumption, GameRoomAssumption
     DEF TypeOK, FaultCounts, RoomState, RowsInv, LifeInv, FaultsBounded, InOrder
<1>2. /\ - faults.restarts <= TimerFloor /\ TimerFloor \in Int
      /\ TimerFloor <= rowSeconds[r] /\ rowSeconds[r] <= StartTimer
      /\ TimerFloor <= roomStates[r].remainingSeconds
      /\ roomStates[r].remainingSeconds <= StartTimer
  BY <1>1 DEF RowsInv, Timers, TimerFloor
<1> QED
  BY <1>1, <1>2 DEF RowSeconds

\* While a number is checked the row of the room is STARTED.
LEMMA GameRowIsStarted ==
    ASSUME TypeOK, RowsInv, InOrder, NEW r \in Rooms, main.room = r,
           main.at \in InGame \ {"report"}
    PROVE  rowStatus[r] = "started"
<1>1. roomStates[r].status = "started" /\ RowFollows(r)
  BY DEF RowsInv, LifeInv, LoopKnowsStatus, RowsFollow
<1> QED
  BY <1>1 DEF RowFollows, InGame, InTransaction

\* The steps that write what the readers of the tables see.
LEMMA VisibleSteps ==
    ASSUME TypeOK, LifeInv, RowsFollow, InOrder, Next
    PROVE  \/ UNCHANGED <<rowStatus, rowSeconds, reservations, drawnRows, winnerRows>>
           \/ cleanupAllDuplicateNumbers \/ ensurePendingRooms \/ createNewPendingRoom
           \/ \E r \in Rooms : CommitStart(r) \/ FinishRow(r) \/ SyncRoom(r) \/ SaveDrawnNumber(r)
                               \/ checkLineWinners(r) \/ checkFullWinners(r)
           \/ \E u \in Users : InsertReservation(u)
<1>0. ~ Fails /\ ~ AckLost /\ \A r \in Rooms : ~ AbortStart(r)
  BY NothingFails, NoAbort DEF LifeInv
<1> QED
  BY <1>0 DEF Next, MainLoop, Boot, CreatePending, RoomStep, SyncJob, Reserve, database, game,
     recoverActiveRooms, EndIteration, PendingRoomExists, NoPendingRoom,
     createNewPendingRoomFails, processRoomTimer, PassRoom, DrawNumber, resetRoomTimer,
     EnoughPlayers, TimerExpiredFails, startGame, processCardPurchases,
     distributeCardsToUsers, SaveDrawnNumberFails, FinishRoom, FinishFails, EndSync, SendSync,
     ApplySync, SyncFails, Deactivate, CheckPending, Crash, RowsFollow

\* The INSERT of a PENDING row is a write of RoomRows.
LEMMA InsertIsWrite ==
    ASSUME TypeOK, RowsInv, InOrder, ensurePendingRooms \/ createNewPendingRoom
    PROVE  Rows!Next \/ UNCHANGED Rows!vars
<1>0. UNCHANGED <<Seated, DrawnNow, Won>>
  BY TablesStay DEF ensurePendingRooms, createNewPendingRoom, game
<1>1. CASE Absent # {} /\ InsertPendingRow(NextId)
  <2>1. NextId \in Rooms /\ rowStatus[NextId] = "absent" /\ StartTimer \in RowSeconds
    BY <1>1, NextIdIsARoom, TimersFit DEF Absent
  <2>2. "pending" \in Rows!Successors(NextId)
    BY <2>1 DEF Rows!Successors
  <2> QED
    BY <1>0, <1>1, <2>1, <2>2, RowIsWritten DEF InsertPendingRow
<1>2. CASE UNCHANGED <<rowStatus, rowSeconds>>
  BY <1>0, <1>2 DEF Rows!vars, Seated, DrawnNow, Won
<1> QED
  BY <1>1, <1>2 DEF ensurePendingRooms, createNewPendingRoom

\* The COMMIT of a start turns PENDING into STARTED.
LEMMA CommitIsWrite ==
    ASSUME TypeOK, RowsInv, InOrder, NEW r \in Rooms, CommitStart(r)
    PROVE  Rows!Next
<1>0. UNCHANGED <<Seated, DrawnNow, Won>>
  BY TablesStay DEF CommitStart, Commit
<1>1. rowStatus[r] = "pending"
  BY DEF CommitStart, RowsInv, RowsFollow, RowFollows, InTransaction
<1>2. "started" \in Rows!Successors(r)
  BY <1>1 DEF Rows!Successors
<1>3. rowSeconds' = [rowSeconds EXCEPT ![r] = rowSeconds[r]]
  BY DEF CommitStart, Commit, TypeOK
<1> QED
  BY <1>0, <1>2, <1>3, RowIsWritten, TimersFit DEF CommitStart, Commit

\* The UPDATE after a full-card win turns STARTED into FINISHED.
LEMMA FinishIsWrite ==
    ASSUME TypeOK, RowsInv, InOrder, NEW r \in Rooms, FinishRow(r)
    PROVE  Rows!Next
<1>0. UNCHANGED <<Seated, DrawnNow, Won>>
  BY TablesStay DEF FinishRow, game
<1>1. rowStatus[r] = "started"
  BY GameRowIsStarted DEF FinishRow, At, InGame
<1>2. winnerRows[r]["full"] # <<>>
  BY DEF RowsInv, WinnerInv, FinishAnnounced, FinishRow, At
<1>3. "finished" \in Rows!Successors(r)
  BY <1>1, <1>2 DEF Rows!Successors, WinType
<1>4. rowSeconds' = [rowSeconds EXCEPT ![r] = rowSeconds[r]]
  BY DEF FinishRow, TypeOK
<1> QED
  BY <1>0, <1>3, <1>4, RowIsWritten, TimersFit DEF FinishRow

\* The sync writes what may follow in the row.
LEMMA SyncIsWrite ==
    ASSUME TypeOK, RowsInv, InOrder, NEW r \in Rooms, SyncRoom(r)
    PROVE  Rows!Next
<1> DEFINE memory == roomStates[r].status
<1>0. UNCHANGED <<Seated, DrawnNow, Won>>
  BY TablesStay DEF SyncRoom, game
<1>1. memory \in {"pending", "started", "finished"} /\ RowFollows(r)
  BY DEF SyncRoom, Unsynced, Loaded, TypeOK, RoomState, RoomStatus, RowsInv, RowsFollow, RowFollows
<1>2. CASE memory = "pending"
  <2>1. rowStatus[r] = "pending"
    BY <1>1, <1>2 DEF RowFollows
  <2> QED
    BY <1>0, <1>2, <2>1, RowIsWritten, TimersFit DEF SyncRoom, WriteRow, Rows!Successors
<1>3. CASE memory = "started"
  <2>1. rowStatus[r] \in {"started", "finished"}
    BY <1>1, <1>3 DEF RowFollows, SyncRoom, WriteRow, RowLocked
  <2>2. "started" \in Rows!Successors(r)
    BY <2>1 DEF Rows!Successors
  <2> QED
    BY <1>0, <1>3, <2>2, RowIsWritten, TimersFit DEF SyncRoom, WriteRow
<1>4. CASE memory = "finished"
  <2>1. rowStatus[r] \in {"started", "finished"}
    BY <1>1, <1>4 DEF RowFollows
  <2>2. winnerRows[r]["full"] # <<>>
    BY <1>4 DEF RowsInv, WinnerInv, FinishedRoomsHaveAWinner
  <2>3. "finished" \in Rows!Successors(r)
    BY <2>1, <2>2 DEF Rows!Successors, WinType
  <2> QED
    BY <1>0, <1>4, <2>3, RowIsWritten, TimersFit DEF SyncRoom, WriteRow
<1> QED
  BY <1>1, <1>2, <1>3, <1>4

\* The users who have reservations are at most as many as the reservations.
LEMMA BuyersAreFew ==
    ASSUME NEW rs \in Seq(Reservation)
    PROVE  /\ IsFiniteSet(Buyers(rs))
           /\ Cardinality(Buyers(rs)) \in Nat /\ Cardinality(Buyers(rs)) <= Len(rs)
<1> DEFINE n == Len(rs)
           f == [i \in 1..n |-> rs[i].user]
<1>1. n \in Nat /\ DOMAIN rs = 1..n
  OBVIOUS
<1>2. f \in Surjection(1..n, Buyers(rs))
  BY <1>1 DEF Buyers, Surjection
<1>3. IsFiniteSet(1..n) /\ Cardinality(1..n) = n
  BY <1>1, FS_Interval
<1> HIDE DEF f, n
<1>4. IsFiniteSet(Buyers(rs)) /\ Cardinality(Buyers(rs)) <= Cardinality(1..n)
  BY <1>2, <1>3, FS_Surjection
<1> QED
  BY <1>3, <1>4, FS_CardinalityType DEF n

\* One more reservation adds its user.
LEMMA BuyerIsAdded ==
    ASSUME NEW rs \in Seq(Reservation), NEW x \in Reservation
    PROVE  Buyers(Append(rs, x)) = Buyers(rs) \cup {x.user}
<1>1. Len(Append(rs, x)) = Len(rs) + 1 /\ Len(rs) \in Nat
  OBVIOUS
<1>2. \A i \in 1..Len(rs) : Append(rs, x)[i] = rs[i]
  OBVIOUS
<1>3. Append(rs, x)[Len(rs) + 1] = x
  OBVIOUS
<1>4. DOMAIN Append(rs, x) = 1..Len(rs) \cup {Len(rs) + 1} /\ DOMAIN rs = 1..Len(rs)
  BY <1>1
<1> QED
  BY <1>2, <1>3, <1>4 DEF Buyers

\* A reservation adds a player, or one who is a player already.
LEMMA ReserveIsReserve ==
    ASSUME TypeOK, RowsInv, InOrder, Places', NEW u \in Users, InsertReservation(u)
    PROVE  Rows!Next \/ UNCHANGED Rows!vars
<1> DEFINE r == request[u]
           before == Buyers(reservations[r])
           after == Buyers(reservations'[r])
<1>0. /\ r \in Rooms /\ rowStatus[r] # "absent"
      /\ UNCHANGED <<rowStatus, rowSeconds, drawnRows, winnerRows>>
  BY ReservationAppended DEF RowsInv, LifeInv, RowsExist, Absent, InsertReservation, game
<1>1. UNCHANGED <<DrawnNow, Won>>
  BY <1>0, TablesStay
<1>2. PICK x \in Reservation : reservations'[r] = Append(reservations[r], x)
  BY ReservationAppended
<1>3. reservations[r] \in Seq(Reservation) /\ reservations'[r] \in Seq(Reservation)
  BY <1>0, <1>2 DEF TypeOK
<1>4. after = before \cup {x.user}
  BY <1>2, <1>3, BuyerIsAdded
<1>5. IsFiniteSet(before) /\ Cardinality(before) \in Nat
  BY <1>3, BuyersAreFew
<1>6. Cardinality(after) \in {Cardinality(before), Cardinality(before) + 1}
  BY <1>4, <1>5, FS_AddElement
<1>7. Cardinality(after) \in Nat /\ Cardinality(after) <= MaxReservations
  <2>1. Cardinality(after) \in Nat /\ Cardinality(after) <= Len(reservations'[r])
    BY <1>3, BuyersAreFew
  <2>2. Len(reservations'[r]) \in Nat /\ Len(reservations'[r]) <= MaxReservations
    BY <1>0, <1>3 DEF Places
  <2> QED
    BY <2>1, <2>2, BoundsAssumption
<1>8. Seated' = [Seated EXCEPT ![r] = Cardinality(after)]
  BY <1>0, ReservationAppended DEF Seated, PlayerCount
<1>9. Seated[r] = Cardinality(before)
  BY <1>0 DEF Seated, PlayerCount
<1>10. CASE Cardinality(after) = Cardinality(before)
  <2>1. Seated' = Seated
    BY <1>8, <1>9, <1>10 DEF Seated
  <2> QED
    BY <1>0, <1>1, <2>1 DEF Rows!vars, Seated, DrawnNow, Won
<1>11. CASE Cardinality(after) = Cardinality(before) + 1
  <2>1. Seated' = [Seated EXCEPT ![r] = @ + 1] /\ Seated[r] < MaxReservations
    BY <1>5, <1>7, <1>8, <1>9, <1>11, BoundsAssumption
  <2> HIDE DEF r, before, after
  <2> QED
    BY <1>0, <1>1, <2>1 DEF Rows!Next, Rows!Reserve, Seated, DrawnNow, Won
<1> QED
  BY <1>6, <1>10, <1>11

\* The INSERT into drawn_numbers is a draw.
LEMMA SaveIsDraw ==
    ASSUME TypeOK, RowsInv, InOrder, NEW r \in Rooms, SaveDrawnNumber(r)
    PROVE  Rows!Next
<1>0. rowStatus[r] = "started" /\ main.number \in Numbers
  BY GameRowIsStarted DEF SaveDrawnNumber, At, InGame, TypeOK, MainState
<1>1. UNCHANGED <<Seated, Won>>
  BY TablesStay DEF SaveDrawnNumber
<1>2. drawnRows' = [drawnRows EXCEPT ![r][main.number] = @ + 1]
      /\ drawnRows \in [Rooms -> [Numbers -> Nat]]
  BY DEF SaveDrawnNumber, InsertDrawnRow, TypeOK
<1>3. Drawn(r)' = Drawn(r) \cup {main.number} /\ \A q \in Rooms \ {r} : Drawn(q)' = Drawn(q)
  BY <1>0, <1>2 DEF Drawn
<1>4. DrawnNow' = [DrawnNow EXCEPT ![r] = @ \cup {main.number}]
  BY <1>3 DEF DrawnNow
<1> QED
  BY <1>0, <1>1, <1>4 DEF Rows!Next, Rows!Draw, SaveDrawnNumber, Seated, DrawnNow, Won

\* Saved winners add their type of win to the room, if there are any.
LEMMA SavedIsWin ==
    ASSUME TypeOK, NEW r \in Rooms, rowStatus[r] = "started", NEW t \in WinType, NEW w \in CardsHeld,
           SaveWinners(r, t, w), UNCHANGED <<rowStatus, rowSeconds, reservations, drawnRows>>
    PROVE  Rows!Next \/ UNCHANGED Rows!vars
<1>0. UNCHANGED <<Seated, DrawnNow>> /\ winnerRows \in [Rooms -> [WinType -> Seq(CardsHeld)]]
  BY TablesStay DEF TypeOK
<1>1. CASE w = {}
  <2>1. UNCHANGED winnerRows
    BY <1>0, <1>1 DEF SaveWinners
  <2> QED
    BY <1>0, <2>1, TablesStay DEF Rows!vars, Seated, DrawnNow, Won
<1>2. CASE w # {}
  <2>1. winnerRows' = [winnerRows EXCEPT ![r][t] = Append(@, w)]
    BY <1>2 DEF SaveWinners
  <2>2. Append(winnerRows[r][t], w) # <<>>
    BY <1>0, AppendIsNotEmpty
  <2>3. Won' = [Won EXCEPT ![r] = @ \cup {t}]
    <3>1. ASSUME NEW q \in Rooms
          PROVE  Won'[q] = IF q = r THEN Won[q] \cup {t} ELSE Won[q]
      BY <1>0, <2>1, <2>2 DEF Won
    <3> QED
      BY <3>1 DEF Won
  <2> QED
    BY <1>0, <2>3 DEF Rows!Next, Rows!Win, Seated, DrawnNow, Won
<1> QED
  BY <1>1, <1>2

\* The two winner checks win, or find nobody.
LEMMA CheckIsWin ==
    ASSUME TypeOK, RowsInv, InOrder, NEW r \in Rooms, checkLineWinners(r) \/ checkFullWinners(r)
    PROVE  Rows!Next \/ UNCHANGED Rows!vars
<1>1. rowStatus[r] = "started"
  BY GameRowIsStarted DEF checkLineWinners, checkFullWinners, At, InGame
<1>2. PICK t \in WinType, w \in CardsHeld : SaveWinners(r, t, w)
  BY WinnersAreCards DEF checkLineWinners, checkFullWinners, WinType
<1> QED
  BY <1>1, <1>2, SavedIsWin DEF checkLineWinners, checkFullWinners

\* The clean-up removes duplicates only.
LEMMA CleanUpIsQuiet ==
    ASSUME TypeOK, cleanupAllDuplicateNumbers
    PROVE  UNCHANGED Rows!vars
<1>0. drawnRows \in [Rooms -> [Numbers -> Nat]]
  BY DEF TypeOK
<1>1. ASSUME NEW r \in Rooms PROVE Drawn(r)' = Drawn(r)
  <2>1. ASSUME NEW n \in Numbers PROVE drawnRows'[r][n] > 0 <=> drawnRows[r][n] > 0
    BY <1>0 DEF cleanupAllDuplicateNumbers, Cleaned, Smaller
  <2> QED
    BY <2>1 DEF Drawn
<1>2. DrawnNow' = DrawnNow
  BY <1>1 DEF DrawnNow
<1>3. UNCHANGED <<Seated, Won>>
  BY TablesStay DEF cleanupAllDuplicateNumbers
<1> QED
  BY <1>2, <1>3 DEF cleanupAllDuplicateNumbers, Rows!vars, Seated, DrawnNow, Won

\* Every step of the engine is a step of the tables, or changes nothing their
\* readers see.
LEMMA RowsStep ==
    ASSUME TypeOK, RowsInv, Places', InOrder, [Next]_vars
    PROVE  [Rows!Next]_(Rows!vars)
<1>1. CASE UNCHANGED <<rowStatus, rowSeconds, reservations, drawnRows, winnerRows>>
  BY <1>1, TablesStay DEF Rows!vars, Seated, DrawnNow, Won
<1>2. CASE UNCHANGED vars
  BY <1>1, <1>2 DEF vars
<1>3. CASE Next
  BY <1>1, <1>3, VisibleSteps, CleanUpIsQuiet, InsertIsWrite, CommitIsWrite, FinishIsWrite,
     SyncIsWrite, SaveIsDraw, CheckIsWin, ReserveIsReserve DEF RowsInv
<1> QED
  BY <1>2, <1>3

\* The empty database is the empty table.
LEMMA InitRows == Init => Rows!Init
<1> SUFFICES ASSUME Init PROVE Rows!Init
  OBVIOUS
<1>1. \A r \in Rooms : PlayerCount(r) = 0
  <2>1. \A r \in Rooms : Buyers(reservations[r]) = {}
    BY DEF Init, Buyers
  <2> QED
    BY <2>1, FS_EmptySet DEF PlayerCount
<1>2. \A r \in Rooms : Drawn(r) = {} /\ {t \in WinType : winnerRows[r][t] # <<>>} = {}
  BY DEF Init, Drawn
<1> QED
  BY <1>1, <1>2 DEF Init, Rows!Init

\* Without failing calls, and through any restarts, whoever only reads the
\* tables sees RoomRows: games start once, draw and win only while STARTED, and
\* are FINISHED only after a full-card win.
THEOREM EngineImplementsRoomRows == ASSUME InOrder PROVE Spec => ImplementsRoomRows
<1>1. TypeOK /\ RowsInv /\ Places' /\ [Next]_vars => [Rows!Next]_(Rows!vars)
  BY RowsStep
<1>2. LifeInv /\ RowsFollow /\ Places /\ Timers /\ WinnerInv => RowsInv
  BY DEF RowsInv
<1>3. Init => Rows!Init
  BY InitRows
<1> QED
  BY <1>1, <1>2, <1>3, TypeCorrect, LifeIsOrdered, MemoryAndRowsFollow, PlacesAreBounded,
     TimersAreBounded, WinnersCorrect, PTL DEF Spec, ImplementsRoomRows, Rows!Spec

-----------------------------------------------------------------------------
(***************************************************************************)
(* The comparisons with reference definitions that TLC makes on samples,   *)
(* from DealingIsInOrder and WinningIsByNumbers, which have no samples.    *)
(***************************************************************************)
\* An array is a sequence.
LEMMA ArrayIsSequence ==
    ASSUME NEW S, NEW n \in Nat, NEW f \in [1..n -> S]
    PROVE  f \in Seq(S)
  OBVIOUS

\* In every state, and whatever reservations are still to come, the cards are
\* dealt in the order of the reservations (distributeCardsToUsers).
THEOREM DealsInOrder == Spec => []DealtInOrderOfReservation
<1>1. TypeOK => DealtInOrderOfReservation
  <2> SUFFICES ASSUME TypeOK, NEW r \in Rooms, NEW later \in Later
               PROVE  DealtInOrder(reservations[r] \o later, Deck)
    BY DEF DealtInOrderOfReservation
  <2> DEFINE R == [user : Users \cup {"v", "w"}, cardCount : Nat \ {0}]
             Sample == [user : {"v", "w"}, cardCount : 1..4]
  <2>1. reservations[r] \in Seq(R)
    <3>1. reservations[r] \in Seq(Reservation)
      BY DEF TypeOK
    <3>2. Reservation \subseteq R
      BY CardCountsAssumption DEF Reservation
    <3> HIDE DEF R
    <3> QED
      BY <3>1, <3>2
  <2>2. later \in Seq(R)
    <3>1. PICK n \in 0..2 : later \in [1..n -> Sample]
      BY DEF Later
    <3>2. Sample \subseteq R
      OBVIOUS
    <3> HIDE DEF R, Sample
    <3>3. later \in Seq(Sample)
      BY <3>1, ArrayIsSequence
    <3> QED
      BY <3>2, <3>3
  <2>3. reservations[r] \o later \in Seq(R) /\ \A x \in R : x.cardCount \in Nat \ {0}
    <3>1. \A x \in R : x.cardCount \in Nat \ {0}
      OBVIOUS
    <3> HIDE DEF R
    <3> QED
      BY <2>1, <2>2, <3>1
  <2>4. Deck \in Seq({"A", "B", "C"})
    BY DEF Deck
  <2> HIDE DEF R
  <2> QED
    BY <2>3, <2>4, DealingIsInOrder
<1> QED
  BY <1>1, TypeCorrect, PTL

\* Whatever a room has drawn, lines and cards of two by two are complete when
\* their numbers are drawn (rooms.service.ts isLineComplete, isCardComplete).
THEOREM WinsByNumbers == Spec => []CompletionIsByNumbers
<1>1. CompletionIsByNumbers
  <2>1. ASSUME NEW m \in Matrices PROVE m \in Seq(Seq(Nat))
    <3>1. Numbers \cup {0} \subseteq Nat
      BY NumbersAssumption
    <3>2. \A i \in 1..2 : m[i] \in Seq(Nat)
      <4>1. \A i \in 1..2 : m[i] \in [1..2 -> Nat]
        BY <3>1 DEF Matrices
      <4> QED
        BY <4>1, ArrayIsSequence
    <3>3. m \in [1..2 -> Seq(Nat)]
      BY <3>2 DEF Matrices
    <3> QED
      BY <3>3, ArrayIsSequence
  <2> QED
    BY <2>1, WinningIsByNumbers DEF CompletionIsByNumbers
<1> QED
  BY <1>1, PTL

-----------------------------------------------------------------------------
(***************************************************************************)
(* The full card of a room is won once, as long as nothing fails           *)
(***************************************************************************)
\* A user is in it with one card at most.
OneCardEach(w) == \A h, k \in w : h[1] = k[1] => h = k

\* What a winner check adds: cards of different users, never none.
LEMMA WinnerRowsMove ==
    ASSUME TypeOK, Next, NEW r \in Rooms, NEW t \in WinType,
           winnerRows'[r][t] # winnerRows[r][t]
    PROVE  /\ \E w \in CardsHeld \ {{}} :
                OneCardEach(w) /\ winnerRows'[r][t] = Append(winnerRows[r][t], w)
           /\ t = "full" => At("checkFull", r)
<1>0. winnerRows \in [Rooms -> [WinType -> Seq(CardsHeld)]]
  BY DEF TypeOK
<1>1. PICK q \in Rooms : checkLineWinners(q) \/ checkFullWinners(q)
  BY WinnerWrites
<1>2. \A w \in LineWinners(q) \cup FullWinners(q) : \A saved \in SUBSET w :
        OneCardEach(saved) /\ saved \in CardsHeld
  <2>1. \A w \in LineWinners(q) \cup FullWinners(q) : OneCardEach(w)
    BY DEF LineWinners, FullWinners, OnePerUser, OneCardEach
  <2> QED
    BY <2>1, WinnersAreCards DEF OneCardEach
<1>3. ASSUME NEW s \in WinType, NEW w \in CardsHeld, OneCardEach(w), SaveWinners(q, s, w)
      PROVE  /\ q = r /\ s = t
             /\ \E v \in CardsHeld \ {{}} :
                    OneCardEach(v) /\ winnerRows'[r][t] = Append(winnerRows[r][t], v)
  <2>1. w # {}
    BY <1>0, <1>3 DEF SaveWinners
  <2>2. winnerRows' = [winnerRows EXCEPT ![q][s] = Append(winnerRows[q][s], w)]
    BY <1>3, <2>1 DEF SaveWinners
  <2>3. q = r /\ s = t
    BY <1>0, <2>2
  <2> QED
    BY <1>0, <1>3, <2>1, <2>2, <2>3
<1>4. CASE checkLineWinners(q)
  <2>1. \E w \in CardsHeld : OneCardEach(w) /\ SaveWinners(q, "line", w)
    BY <1>2, <1>4 DEF checkLineWinners
  <2> QED
    BY <1>3, <2>1 DEF WinType
<1>5. CASE checkFullWinners(q)
  <2>1. \E w \in CardsHeld : OneCardEach(w) /\ SaveWinners(q, "full", w)
    BY <1>2, <1>5 DEF checkFullWinners
  <2> QED
    BY <1>3, <1>5, <2>1 DEF WinType, checkFullWinners
<1> QED
  BY <1>1, <1>4, <1>5

\* Every set of winner rows has a row and names a user once; as long as
\* nothing has failed and nothing was restarted a room has one for full cards.
FullWins ==
    /\ \A r \in Rooms, t \in WinType : \A i \in DOMAIN winnerRows[r][t] :
            winnerRows[r][t][i] # {} /\ OneCardEach(winnerRows[r][t][i])
    /\ faults.errors + faults.restarts = 0 =>
            \A r \in Rooms : Len(winnerRows[r]["full"]) <= 1

\* One more element at the end.
LEMMA AppendedLast ==
    ASSUME NEW S, NEW s \in Seq(S), NEW e \in S
    PROVE  /\ Len(Append(s, e)) = Len(s) + 1
           /\ \A i \in DOMAIN Append(s, e) : \/ i \in DOMAIN s /\ Append(s, e)[i] = s[i]
                                             \/ Append(s, e)[i] = e
  OBVIOUS

LEMMA FullWinsStep ==
    TypeOK /\ LifeInv /\ WinIsReported /\ FullWins /\ [Next]_vars => FullWins'
<1>1. ASSUME TypeOK, LifeInv, WinIsReported, FullWins, Next PROVE FullWins'
  <2>0. winnerRows \in [Rooms -> [WinType -> Seq(CardsHeld)]]
    BY <1>1 DEF TypeOK
  <2>1. ASSUME NEW r \in Rooms, NEW t \in WinType, NEW i \in DOMAIN winnerRows'[r][t]
        PROVE  winnerRows'[r][t][i] # {} /\ OneCardEach(winnerRows'[r][t][i])
    <3>1. CASE winnerRows'[r][t] = winnerRows[r][t]
      BY <1>1, <2>1, <3>1 DEF FullWins
    <3>2. CASE winnerRows'[r][t] # winnerRows[r][t]
      <4>1. PICK w \in CardsHeld \ {{}} :
                OneCardEach(w) /\ winnerRows'[r][t] = Append(winnerRows[r][t], w)
        BY <1>1, <3>2, WinnerRowsMove
      <4>2. \/ i \in DOMAIN winnerRows[r][t] /\ winnerRows'[r][t][i] = winnerRows[r][t][i]
            \/ winnerRows'[r][t][i] = w
        BY <2>0, <2>1, <4>1, AppendedLast
      <4> QED
        BY <1>1, <4>1, <4>2 DEF FullWins
    <3> QED
      BY <3>1, <3>2
  <2>2. ASSUME faults'.errors + faults'.restarts = 0, NEW r \in Rooms
        PROVE  Len(winnerRows'[r]["full"]) <= 1
    <3>1. faults.errors + faults.restarts = 0
      <4>1. faults \in FaultCounts /\ faults' \in FaultCounts
        BY <1>1, TypeStep DEF TypeOK
      <4> QED
        BY <1>1, <2>2, <4>1, FaultCounters DEF FaultCounts
    <3>2. CASE winnerRows'[r]["full"] = winnerRows[r]["full"]
      BY <1>1, <3>1, <3>2 DEF FullWins
    <3>3. CASE winnerRows'[r]["full"] # winnerRows[r]["full"]
      <4>1. /\ \E w \in CardsHeld : winnerRows'[r]["full"] = Append(winnerRows[r]["full"], w)
            /\ At("checkFull", r)
        BY <1>1, <3>3, WinnerRowsMove DEF WinType
      <4>2. winnerRows[r]["full"] = <<>>
        BY <1>1, <3>1, <4>1 DEF At, WinIsReported, LifeInv, LoopKnowsStatus, InGame
      <4>3. winnerRows[r]["full"] \in Seq(CardsHeld) /\ Len(winnerRows[r]["full"]) = 0
        BY <2>0, <4>2 DEF WinType
      <4> QED
        BY <4>1, <4>3, AppendedLast
    <3> QED
      BY <3>2, <3>3
  <2> QED
    BY <2>1, <2>2 DEF FullWins
<1>2. ASSUME FullWins, UNCHANGED vars PROVE FullWins'
  BY <1>2 DEF FullWins, vars
<1> QED
  BY <1>1, <1>2

LEMMA FullWinsKnown == Spec => [](FullWins /\ WinIsReported)
<1>1. Init => WinIsReported
  BY DEF Init, WinIsReported, WinType
<1>2. Init => FullWins
  BY DEF Init, FullWins, WinType
<1> QED
  BY <1>1, <1>2, WinIsReportedStep, FullWinsStep, TypeCorrect, LifeIsOrdered, PTL DEF Spec

\* A user wins the full card of a room once (rooms.service.ts:290), as long as
\* no database call has failed and the process was not restarted; after a
\* restart they may win it again, as the run engine_second_full_win shows.
THEOREM FullIsWonOnce ==
    Spec => [](faults.errors + faults.restarts = 0 => NoUserWinsFullTwice)
<1>1. TypeOK /\ FullWins => (faults.errors + faults.restarts = 0 => NoUserWinsFullTwice)
  <2> SUFFICES ASSUME TypeOK, FullWins, faults.errors + faults.restarts = 0,
                      NEW r \in Rooms, NEW i \in DOMAIN winnerRows[r]["full"],
                      NEW j \in DOMAIN winnerRows[r]["full"],
                      NEW w \in winnerRows[r]["full"][i], NEW v \in winnerRows[r]["full"][j],
                      w[1] = v[1]
               PROVE  i = j /\ w = v
    BY DEF NoUserWinsFullTwice
  <2>1. winnerRows[r]["full"] \in Seq(CardsHeld) /\ Len(winnerRows[r]["full"]) <= 1
    BY DEF TypeOK, FullWins, WinType
  <2>2. i = j
    BY <2>1
  <2> QED
    BY <2>2 DEF FullWins, OneCardEach, WinType
<1> QED
  BY <1>1, FullWinsKnown, TypeCorrect, PTL

-----------------------------------------------------------------------------
(***************************************************************************)
(* The engine and the gateway together: the gateway is proved about over   *)
(* any tables of RoomRows, and the engine's are such tables.               *)
(***************************************************************************)
\* What is proved of the gateway over any tables of RoomRows.
GP == INSTANCE RoomsGateway_proofs WITH
    Played <- Rooms, WinTypes <- WinType, Seconds <- RowSeconds,
    MaxReserved <- MaxReservations, MaxFaults <- MaxCacheFaults,
    status <- rowStatus, seconds <- rowSeconds,
    reserved <- [r \in Rooms |-> PlayerCount(r)],
    drawn <- [r \in Rooms |-> Drawn(r)],
    winners <- [r \in Rooms |-> WonTypes(r)],
    sync <- cacheSync, faults <- cacheFaults

\* An instance of the gateway's proofs proves of its own copy of the gateway.
LEMMA SameGateway ==
    /\ G!StartSync = GP!StartSync
    /\ G!FindRooms = GP!FindRooms
    /\ G!CountPlayers = GP!CountPlayers
    /\ G!FindFails = GP!FindFails
    /\ G!MergeRooms = GP!MergeRooms
    /\ G!getDrawnNumbers = GP!getDrawnNumbers
    /\ G!FindWinners = GP!FindWinners
    /\ G!FindFinished = GP!FindFinished
    /\ G!getRoomInfo = GP!getRoomInfo
    /\ G!WinnersFail = GP!WinnersFail
    /\ G!ApplyDetails = GP!ApplyDetails
    /\ G!DetailsFail = GP!DetailsFail
    /\ G!decrementRemainingSeconds = GP!decrementRemainingSeconds
    /\ G!Restart = GP!Restart
<1> USE DEF G!tables, GP!tables, G!vars, GP!vars, G!Cached, GP!Cached, G!Live, GP!Live,
       G!ShownStatus, GP!ShownStatus, G!Fails, GP!Fails, G!Idle, GP!Idle, G!Job, GP!Job,
       G!NoDetails, GP!NoDetails, G!NotCached, GP!NotCached, G!MaxCards, GP!MaxCards,
       G!CountsDown, GP!CountsDown, G!NewEntry, GP!NewEntry, G!Updated, GP!Updated,
       G!Merged, GP!Merged, G!NeedsDetails, GP!NeedsDetails, G!Proceed, GP!Proceed,
       G!Pruned, GP!Pruned, G!Waiting, GP!Waiting, G!Answer, GP!Answer, G!Asked,
       GP!Asked, G!Finished, GP!Finished, G!WithDetails, GP!WithDetails, G!FinishRoom,
       GP!FinishRoom, G!Min, GP!Min, G!SetToSeqs, GP!SetToSeqs, G!Cardinality,
       GP!Cardinality, G!IsFiniteSet, GP!IsFiniteSet
<1>1. G!StartSync = GP!StartSync
  BY DEF G!StartSync, GP!StartSync
<1>2. G!FindRooms = GP!FindRooms
  BY DEF G!FindRooms, GP!FindRooms
<1>3. G!CountPlayers = GP!CountPlayers
  BY DEF G!CountPlayers, GP!CountPlayers
<1>4. G!FindFails = GP!FindFails
  BY DEF G!FindFails, GP!FindFails
<1>5. G!MergeRooms = GP!MergeRooms
  BY DEF G!MergeRooms, GP!MergeRooms
<1>6. G!getDrawnNumbers = GP!getDrawnNumbers
  BY DEF G!getDrawnNumbers, GP!getDrawnNumbers
<1>7. G!FindWinners = GP!FindWinners
  BY DEF G!FindWinners, GP!FindWinners
<1>8. G!FindFinished = GP!FindFinished
  BY DEF G!FindFinished, GP!FindFinished
<1>9. G!getRoomInfo = GP!getRoomInfo
  BY DEF G!getRoomInfo, GP!getRoomInfo
<1>10. G!WinnersFail = GP!WinnersFail
  BY DEF G!WinnersFail, GP!WinnersFail
<1>11. G!ApplyDetails = GP!ApplyDetails
  BY DEF G!ApplyDetails, GP!ApplyDetails
<1>12. G!DetailsFail = GP!DetailsFail
  BY DEF G!DetailsFail, GP!DetailsFail
<1>13. G!decrementRemainingSeconds = GP!decrementRemainingSeconds
  BY DEF G!decrementRemainingSeconds, GP!decrementRemainingSeconds
<1>14. G!Restart = GP!Restart
  BY DEF G!Restart, GP!Restart
<1> QED
  BY <1>1, <1>2, <1>3, <1>4, <1>5, <1>6, <1>7, <1>8, <1>9, <1>10, <1>11, <1>12, <1>13, <1>14

\* The system starts and runs the engine of GameEngine.
LEMMA SystemRunsTheEngine ==
    /\ Start => Init
    /\ [Step]_allVars => [Next]_vars
  BY DEF Start, Step, EngineRuns, GatewayRuns, ProcessRestarts, allVars, vars, Next

\* The tables as the gateway meets them are the rows that the engine promises.
LEMMA TablesAreRows ==
    /\ Rows!Next => GP!Tables!Next
    /\ Rows!Init => GP!Tables!Init
    /\ UNCHANGED Rows!vars => UNCHANGED GP!tables
  BY DEF Rows!Next, GP!Tables!Next, Rows!WriteRow, GP!Tables!WriteRow, Rows!Reserve,
     GP!Tables!Reserve, Rows!Draw, GP!Tables!Draw, Rows!Win, GP!Tables!Win, Rows!Successors,
     GP!Tables!Successors, Rows!Init, GP!Tables!Init, Rows!vars, GP!tables, WonTypes

\* Both start with nothing in the tables and nothing in the cache.
LEMMA StartIsInit == Start => GP!Init
<1> SUFFICES ASSUME Start PROVE GP!Init
  OBVIOUS
<1>1. GP!Tables!Init
  BY InitRows, TablesAreRows DEF Start
<1> QED
  BY <1>1 DEF Start, GP!Init, G!NotCached, GP!NotCached, G!Job, GP!Job, G!NoDetails, GP!NoDetails,
     G!MaxCards, GP!MaxCards

\* A step of the engine changes the tables as RoomRows may, and the gateway
\* only itself.
LEMMA SystemStep ==
    ASSUME TypeOK, RowsInv, Places', InOrder, [Step]_allVars
    PROVE  [GP!Next]_(GP!vars)
<1>1. [Rows!Next]_(Rows!vars)
  BY RowsStep, SystemRunsTheEngine
<1>2. CASE UNCHANGED gateway
  <2>1. CASE Rows!Next
    BY <1>2, <2>1, TablesAreRows DEF GP!Next, GP!EngineStep, gateway
  <2>2. CASE UNCHANGED Rows!vars
    BY <1>2, <2>2, TablesAreRows DEF GP!vars, GP!tables, gateway
  <2> QED
    BY <1>1, <2>1, <2>2
<1>3. CASE GatewayRuns
  BY <1>3, SameGateway DEF GatewayRuns, G!SyncStep, GP!SyncStep, GP!Next
<1>4. CASE ProcessRestarts
  BY <1>4, SameGateway DEF ProcessRestarts, GP!Next
<1> QED
  BY <1>2, <1>3, <1>4 DEF Step, EngineRuns, allVars, gateway

\* The constants of the engine meet what the gateway assumes of its own.
LEMMA GatewayAssumptions ==
    /\ GP!IsFiniteSet(Rooms)
    /\ RowSeconds \subseteq Int
    /\ Rooms \subseteq Rooms /\ MaxReservations \in Nat /\ MaxCacheFaults \in Nat
<1>1. GP!IsFiniteSet(Rooms)
  <2>1. IsFiniteSet(Rooms)
    BY BoundsAssumption, FS_Interval DEF Rooms
  <2> QED
    BY <2>1 DEF GP!IsFiniteSet, IsFiniteSet
<1>2. RowSeconds \subseteq Int
  BY BoundsAssumption DEF RowSeconds
<1>3. MaxReservations \in Nat /\ MaxCacheFaults \in Nat
  BY BoundsAssumption, CacheFaultsAssumption
<1> QED
  BY <1>1, <1>2, <1>3

\* Whatever the engine alone can be relied upon for, holds here too.
LEMMA SystemIsSpec == System => Spec
  BY SystemRunsTheEngine, PTL DEF System, Spec

\* The system is a gateway over the tables of a game engine ...
LEMMA SystemImplementsGP == ASSUME InOrder PROVE System => GP!Spec
<1>1. TypeOK /\ RowsInv /\ Places' /\ [Step]_allVars => [GP!Next]_(GP!vars)
  BY SystemStep
<1>2. LifeInv /\ RowsFollow /\ Places /\ Timers /\ WinnerInv => RowsInv
  BY DEF RowsInv
<1>3. Start => GP!Init
  BY StartIsInit
<1> QED
  BY <1>1, <1>2, <1>3, SystemIsSpec, TypeCorrect, LifeIsOrdered, MemoryAndRowsFollow,
     PlacesAreBounded, TimersAreBounded, WinnersCorrect, PTL DEF System, GP!Spec

\* Both copies of the gateway see the same tables.
LEMMA SameTables == G!Tables!Next = GP!Tables!Next /\ G!Tables!Init = GP!Tables!Init
  BY DEF G!Tables!Next, GP!Tables!Next, G!Tables!WriteRow, GP!Tables!WriteRow,
     G!Tables!Reserve, GP!Tables!Reserve, G!Tables!Draw, GP!Tables!Draw, G!Tables!Win,
     GP!Tables!Win, G!Tables!Successors, GP!Tables!Successors, G!Tables!Init, GP!Tables!Init

\* ... in either copy.
LEMMA SameSpec ==
    /\ GP!Init => G!Init
    /\ [GP!Next]_(GP!vars) => [G!Next]_(G!vars)
  BY SameGateway, SameTables DEF GP!Init, G!Init, GP!Next, G!Next, GP!EngineStep, G!EngineStep,
     GP!vars, G!vars, GP!tables, G!tables, G!SyncStep, GP!SyncStep,
     G!NotCached, GP!NotCached, G!Job, GP!Job, G!NoDetails, GP!NoDetails, G!MaxCards, GP!MaxCards

\* Without failing calls of the engine, and through any restarts of both, engine
\* and gateway together are a gateway over RoomRows: whatever is proved of that
\* one (rooms.gateway.ts) holds of the answers in the running program.
THEOREM SystemImplementsGateway == ASSUME InOrder PROVE System => ImplementsGateway
  BY SystemImplementsGP, SameSpec, PTL DEF GP!Spec, G!Spec, ImplementsGateway

\* So no answer runs ahead of the tables.
LEMMA SystemAnswers == ASSUME InOrder PROVE System => []G!AnswersTrailTheTables
<1>1. GP!Spec => []GP!AnswersTrailTheTables
  BY GatewayAssumptions, GP!AnswersAreBorneOut
<1>2. GP!AnswersTrailTheTables => G!AnswersTrailTheTables
  BY DEF GP!AnswersTrailTheTables, G!AnswersTrailTheTables, GP!roomInfo, G!roomInfo,
     GP!MaxCards, G!MaxCards, GP!numberDrawn, G!numberDrawn, GP!win, G!win, GP!Finished,
     G!Finished, GP!Cached, G!Cached, GP!NotCached, G!NotCached
<1> QED
  BY <1>1, <1>2, SystemImplementsGP, PTL

\* What the engine has broadcast is in the tables.
BroadcastsTrailTheTables ==
    \A r \in Rooms :
        /\ announced[r].winners \subseteq WonTypes(r)
        /\ announced[r].gameFinished => "full" \in WonTypes(r)

\* ... and stays there, whoever steps.
LEMMA BroadcastsStep ==
    TypeOK /\ WinnerInv /\ BroadcastsTrailTheTables /\ [Step]_allVars
        => BroadcastsTrailTheTables'
<1> SUFFICES ASSUME TypeOK, WinnerInv, BroadcastsTrailTheTables, [Step]_allVars
             PROVE  BroadcastsTrailTheTables'
  OBVIOUS
<1>1. [Next]_vars
  BY SystemRunsTheEngine
<1>2. ASSUME NEW r \in Rooms PROVE WonTypes(r) \subseteq WonTypes(r)'
  <2>1. CASE UNCHANGED vars
    BY <2>1 DEF WonTypes, vars
  <2>2. CASE Next
    BY <2>2, WinsStay DEF WonTypes
  <2> QED
    BY <1>1, <2>1, <2>2
<1>3. CASE UNCHANGED announced
  BY <1>2, <1>3 DEF BroadcastsTrailTheTables
<1>4. CASE EmitToNamespace
  <2> SUFFICES ASSUME NEW r \in Rooms
               PROVE  /\ announced'[r].winners \subseteq WonTypes(r)'
                      /\ announced'[r].gameFinished => "full" \in WonTypes(r)'
    BY DEF BroadcastsTrailTheTables
  <2>1. CASE Emits(r)
    <3>1. announced'[r] = [winners |-> WonTypes(r)', gameFinished |-> At("report", r)]
      BY <1>4, <2>1 DEF EmitToNamespace
    <3>2. At("report", r) => "full" \in WonTypes(r)
      BY DEF WinnerInv, FinishAnnounced, At, WonTypes, WinType
    <3> QED
      BY <1>2, <3>1, <3>2
  <2>2. CASE ~ Emits(r)
    <3>1. announced'[r] = announced[r]
      BY <1>4, <2>2 DEF EmitToNamespace
    <3> QED
      BY <1>2, <3>1 DEF BroadcastsTrailTheTables
  <2> QED
    BY <2>1, <2>2
<1> QED
  BY <1>3, <1>4 DEF Step, EngineRuns, GatewayRuns, ProcessRestarts, allVars

LEMMA SystemBroadcasts == System => []BroadcastsTrailTheTables
<1>1. Start => BroadcastsTrailTheTables
  BY DEF Start, NotAnnounced, BroadcastsTrailTheTables
<1> QED
  BY <1>1, BroadcastsStep, SystemIsSpec, TypeCorrect, WinnersCorrect, PTL DEF System

\* What a client is told of a win, by an answer (win, rooms.gateway.ts) or by
\* the engine's broadcast (checkLineWinners and checkFullWinners), is true of
\* the cards and the numbers of the room, for every matrix and any restarts.
THEOREM SystemTellsOfWins == ASSUME InOrder PROVE System => []WinsToldAreWon
<1>1. TypeOK /\ WinnersHoldCompletedCards /\ FullWins /\ G!AnswersTrailTheTables
        /\ BroadcastsTrailTheTables => WinsToldAreWon
  <2> SUFFICES ASSUME TypeOK, WinnersHoldCompletedCards, FullWins, G!AnswersTrailTheTables,
                      BroadcastsTrailTheTables,
                      NEW r \in Rooms, NEW told \in {G!win(r), announced[r]}
               PROVE  /\ "line" \in told.winners => LineCards(Held(r), Drawn(r)) # {}
                      /\ "full" \in told.winners \/ told.gameFinished =>
                            FullCards(Held(r), Drawn(r)) # {}
    BY DEF WinsToldAreWon
  <2>1. told.winners \subseteq WonTypes(r) /\ (told.gameFinished => "full" \in WonTypes(r))
    BY DEF G!AnswersTrailTheTables, BroadcastsTrailTheTables
  <2>2. \A t \in told.winners : t \in WinType /\ winnerRows[r][t] # <<>>
    BY <2>1 DEF WonTypes
  <2>3. told.gameFinished => winnerRows[r]["full"] # <<>>
    BY <2>1 DEF WonTypes
  <2>4. ASSUME NEW t \in WinType, winnerRows[r][t] # <<>>
        PROVE  1 \in DOMAIN winnerRows[r][t] /\ winnerRows[r][t][1] # {}
    <3>1. winnerRows[r][t] \in Seq(CardsHeld)
      BY DEF TypeOK
    <3>2. 1 \in DOMAIN winnerRows[r][t]
      BY <2>4, <3>1
    <3> QED
      BY <3>2 DEF FullWins
  <2> QED
    BY <2>2, <2>3, <2>4 DEF WinnersHoldCompletedCards, WinType
<1>2. WinnerInv => WinnersHoldCompletedCards
  BY DEF WinnerInv
<1>3. System => []G!AnswersTrailTheTables
  BY SystemAnswers
<1> QED
  BY <1>1, <1>2, <1>3, SystemBroadcasts, SystemIsSpec, TypeCorrect, WinnersCorrect, FullWinsKnown,
     PTL

\* A number that clients have been shown is not among those the engine draws
\* from (remainingNumbers, auto-timer.service.ts).
THEOREM SystemShowsNumbers == ASSUME InOrder PROVE System => []NumbersShownAreNotDrawnAgain
<1>1. NothingRepeated
  BY DEF InOrder, Orderly, NothingRepeated
<1>2. MemDraw /\ G!AnswersTrailTheTables => NumbersShownAreNotDrawnAgain
  <2> SUFFICES ASSUME MemDraw, G!AnswersTrailTheTables, NEW r \in Rooms,
                      roomStates[r].status = "started"
               PROVE  G!numberDrawn(r) \cap roomStates[r].remainingNumbers = {}
    BY DEF NumbersShownAreNotDrawnAgain
  <2>1. G!numberDrawn(r) \subseteq Drawn(r)
    BY DEF G!AnswersTrailTheTables
  <2> QED
    BY <1>1, <2>1 DEF MemDraw, NumbersAgree
<1>3. System => []G!AnswersTrailTheTables
  BY SystemAnswers
<1> QED
  BY <1>2, <1>3, SystemIsSpec, NumbersAreKnown, PTL

=============================================================================
