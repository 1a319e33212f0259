------------------------- MODULE GameEngine_proofs -------------------------
(***************************************************************************)
(* Theorems about GameEngine for every set of users, cards and numbers,    *)
(* every matrix and every bound on rooms and faults:                       *)
(*   TypeCorrect            the types;                                     *)
(*   WinnersHoldTheirCards  winner rows name held and completed cards;     *)
(*   LineIsWonOnce          the line of a room is won by one check;        *)
(*   FinishedMeansWon       FINISHED is never written without a winner;    *)
(*   GameOnlyGrows          cards and drawn numbers are never taken back.  *)
(* And about the operators of BingoCards, for every list of reservations,  *)
(* every shuffle and every matrix:                                         *)
(*   CardsGoToOneUser       no card is dealt to two users;                 *)
(*   WhoeverReservedIsServed  each user has a card, or all are dealt;      *)
(*   DealingIsInOrder       the k-th card goes to who asked for it;        *)
(*   WinningIsByNumbers     lines and cards are completed by numbers.      *)
(*                                                                         *)
(* The types are inductive by themselves.  The three facts about winning   *)
(* follow from WinnerInv, which adds FinishAnnounced: between the winner   *)
(* rows and the write of FINISHED the room is only known to the program    *)
(* counters of the main loop and of the sync.                              *)
(***************************************************************************)
EXTENDS GameEngine, SmallestNumber, FiniteSetTheorems, TLAPS

-----------------------------------------------------------------------------
\* The initial state.
LEMMA InitTyped == Init => TypeOK
<1> SUFFICES ASSUME Init PROVE TypeOK
  OBVIOUS
<1>1. main \in MainState /\ sync \in SyncState
  BY DEF Init, MainState, SyncState, Idle, SyncIdle, MainSteps, Booting, NoRoom, NoNumber
<1>2. tx \in TxState
  BY DEF Init, TxState, NoTx, CardsHeld
<1>3. roomStates \in [Rooms -> RoomState]
  BY DEF Init, RoomState, Unloaded
<1>4. faults \in FaultCounts
  BY DEF Init, FaultCounts
<1> QED
  BY <1>1, <1>2, <1>3, <1>4 DEF Init, TypeOK, CardsHeld, WinType, NoRoom

\* LeaveRoom and GoTo keep the type of the loop's program counter.
LEMMA MainMoves ==
    ASSUME TypeOK
    PROVE  /\ LeaveRoom => main' \in MainState
           /\ \A step \in MainSteps \ {"saveNumber"} : GoTo(step) => main' \in MainState
<1>1. main \in MainState /\ "loop" \in MainSteps /\ "loop" # "saveNumber"
  BY DEF TypeOK, MainSteps
<1>2. LeaveRoom => main' \in MainState
  BY <1>1 DEF LeaveRoom, MainState, NoRoom, NoNumber
<1>3. ASSUME NEW step \in MainSteps \ {"saveNumber"}, GoTo(step) PROVE main' \in MainState
  BY <1>1, <1>3 DEF GoTo, MainState
<1> QED
  BY <1>2, <1>3

\* The resting values of the jobs, of the transaction and of a room.
LEMMA IdleTyped ==
    /\ Idle("loop") \in MainState /\ Idle("cleanup") \in MainState
    /\ SyncIdle \in SyncState /\ NoTx \in TxState /\ Unloaded \in RoomState
<1>1. Idle("loop") \in MainState /\ Idle("cleanup") \in MainState
  BY DEF Idle, MainState, MainSteps, Booting, NoRoom, NoNumber
<1>2. SyncIdle \in SyncState
  BY DEF SyncIdle, SyncState, NoRoom
<1>3. NoTx \in TxState
  BY DEF NoTx, TxState, CardsHeld
<1>4. Unloaded \in RoomState
  BY DEF Unloaded, RoomState
<1> QED
  BY <1>1, <1>2, <1>3, <1>4

\* Fail-or-not leaves fault counts.
LEMMA FaultsTyped ==
    ASSUME TypeOK, Fails \/ AckLost \/ UNCHANGED faults
    PROVE  faults' \in FaultCounts
<1>1. ASSUME NEW f \in FaultCounts
      PROVE  /\ [f EXCEPT !.errors = @ + 1] \in FaultCounts
             /\ [f EXCEPT !.lostAcks = @ + 1] \in FaultCounts
  BY DEF FaultCounts
<1>2. faults \in FaultCounts
  BY DEF TypeOK
<1> QED
  BY <1>1, <1>2 DEF Fails, AckLost

\* handleRoomError turns a RoomState into a RoomState ...
LEMMA CountedTyped == ASSUME NEW s \in RoomState PROVE ErrorCounted(s) \in RoomState
<1> DEFINE t == IF s.errorCount + 1 >= 3 THEN "deactivated" ELSE s.status
<1>1. t \in RoomStatus \cup {"unloaded"} /\ s.errorCount + 1 \in Nat
  BY DEF RoomState, RoomStatus
<1> HIDE DEF t
<1>2. [s EXCEPT !.errorCount = s.errorCount + 1, !.status = t] \in RoomState
  BY <1>1 DEF RoomState
<1> QED
  BY <1>2 DEF ErrorCounted, t

\* ... and keeps memory and the deactivations on their way well typed.
LEMMA ErrorTyped ==
    ASSUME TypeOK, NEW r \in Rooms, NEW s \in RoomState, handleRoomError(r, s)
    PROVE  /\ roomStates' \in [Rooms -> RoomState]
           /\ deactivating' \subseteq Rooms
<1>1. ErrorCounted(s) \in RoomState
  BY CountedTyped
<1> QED
  BY <1>1 DEF TypeOK, handleRoomError

\* addRoomToState loads a well-typed room.
LEMMA LoadedTyped ==
    ASSUME TypeOK, NEW r \in Rooms, NEW n \in Int, LoadRoom(r, n)
    PROVE  roomStates' \in [Rooms -> RoomState]
<1>1. addRoomToState("pending", n) \in RoomState
  BY DEF addRoomToState, Unloaded, RoomState, RoomStatus
<1> QED
  BY <1>1 DEF TypeOK, LoadRoom

\* The INSERT of a PENDING row.
LEMMA PendingRowTyped ==
    ASSUME TypeOK, NEW r \in Rooms, InsertPendingRow(r)
    PROVE  /\ rowStatus' \in [Rooms -> RoomStatus \cup {"absent"}]
           /\ rowSeconds' \in [Rooms -> Int]
  BY GameRoomAssumption DEF TypeOK, InsertPendingRow, RoomStatus

\* The least id that is absent exists.
LEMMA NextIdIsARoom == Absent # {} => NextId \in Absent /\ NextId \in Rooms
<1> SUFFICES ASSUME Absent # {} PROVE NextId \in Absent /\ NextId \in Rooms
  OBVIOUS
<1>1. Absent \subseteq Rooms /\ Absent \subseteq Nat
  BY BoundsAssumption DEF Absent, Rooms
<1>2. \E r \in Absent : \A q \in Absent : r <= q
  BY <1>1, SmallestExists
<1> QED
  BY <1>1, <1>2 DEF NextId

\* What processCardPurchases charges is a natural number.
LEMMA AmountTyped ==
    ASSUME NEW rs \in Seq(Reservation), NEW u
    PROVE  PurchaseAmount(rs, u) \in Nat
<1>1. IsFiniteSet(DOMAIN rs)
  BY FS_Interval
<1>2. Cardinality({i \in DOMAIN rs : rs[i].user = u}) \in Nat
  BY <1>1, FS_Subset, FS_CardinalityType
<1> QED
  BY <1>2, EntryFeeAssumption DEF PurchaseAmount

\* In whatever order the SELECT returns the reservations, they are the same.
LEMMA OrdersKeepRows ==
    ASSUME NEW R, NEW rs \in Seq(R), NEW os \in Orders(rs)
    PROVE  os \in Seq(R) /\ Buyers(os) = Buyers(rs)
<1>1. PICK p \in Reorderings(DOMAIN rs) : os = [i \in DOMAIN rs |-> rs[p[i]]]
  BY DEF Orders
<1>2. /\ p \in [DOMAIN rs -> DOMAIN rs]
      /\ \A j \in DOMAIN rs : \E i \in DOMAIN rs : p[i] = j
  BY <1>1 DEF Reorderings
<1>3. os \in Seq(R)
  <2>1. DOMAIN rs = 1..Len(rs) /\ Len(rs) \in Nat /\ \A i \in DOMAIN rs : rs[i] \in R
    OBVIOUS
  <2>2. os \in [1..Len(rs) -> R]
    BY <1>1, <1>2, <2>1
  <2> QED
    BY <2>1, <2>2
<1>4. DOMAIN os = DOMAIN rs /\ \A i \in DOMAIN rs : os[i] = rs[p[i]]
  BY <1>1
<1>5. Buyers(os) = Buyers(rs)
  <2>1. ASSUME NEW u \in Buyers(os) PROVE u \in Buyers(rs)
    BY <1>2, <1>4 DEF Buyers
  <2>2. ASSUME NEW u \in Buyers(rs) PROVE u \in Buyers(os)
    <3>1. PICK j \in DOMAIN rs : rs[j].user = u
      BY DEF Buyers
    <3>2. PICK i \in DOMAIN rs : p[i] = j
      BY <1>2
    <3> QED
      BY <1>4, <3>1, <3>2 DEF Buyers
  <2> QED
    BY <2>1, <2>2
<1> QED
  BY <1>3, <1>5

\* distributeCardsToUsers deals cards to users, never anything else.
LEMMA DealtTyped ==
    ASSUME NEW rs \in Seq(Reservation), NEW deck \in Shuffles
    PROVE  Dealt(rs, deck) \in CardsHeld
<1>1. ASSUME NEW i \in DOMAIN rs PROVE rs[i].user \in Users
  <2>1. rs[i] \in Reservation
    OBVIOUS
  <2> QED
    BY <2>1 DEF Reservation
<1>2. \A k \in DOMAIN deck : deck[k] \in Cards
  BY DEF Shuffles
<1>3. ASSUME NEW h \in Dealt(rs, deck) PROVE h \in Users \X Cards
  <2>1. \E i \in DOMAIN rs, k \in DOMAIN deck : h = <<rs[i].user, deck[k]>>
    BY DEF Dealt
  <2> QED
    BY <1>1, <1>2, <2>1
<1> QED
  BY <1>3 DEF CardsHeld

\* The INSERT of winner rows.
LEMMA WinnersTyped ==
    ASSUME TypeOK, NEW r \in Rooms, NEW t \in WinType, NEW w \in CardsHeld,
           SaveWinners(r, t, w)
    PROVE  winnerRows' \in [Rooms -> [WinType -> Seq(CardsHeld)]]
  BY DEF TypeOK, SaveWinners

\* The COMMIT of a start transaction.
LEMMA CommitTyped ==
    ASSUME TypeOK, NEW r \in Rooms, Commit(r)
    PROVE  /\ rowStatus' \in [Rooms -> RoomStatus \cup {"absent"}]
           /\ purchases' \in [Rooms -> [Users -> Seq(Nat)]]
           /\ reservedCards' \in [Rooms -> CardsHeld]
<1>1. tx.charges \in [Users -> Seq(Nat)] /\ tx.cards \in CardsHeld
  BY DEF TypeOK, TxState
<1>2. rowStatus' \in [Rooms -> RoomStatus \cup {"absent"}]
  BY DEF TypeOK, Commit, RoomStatus
<1>3. [u \in Users |-> purchases[r][u] \o tx.charges[u]] \in [Users -> Seq(Nat)]
  BY <1>1 DEF TypeOK
<1>4. reservedCards[r] \cup tx.cards \in CardsHeld
  BY <1>1 DEF TypeOK, CardsHeld
<1> QED
  BY <1>2, <1>3, <1>4 DEF TypeOK, Commit

\* Every step of the loop, the sync, the handlers and a crash keeps the types.
THEOREM TypeStep == TypeOK /\ [Next]_vars => TypeOK'
<1> SUFFICES ASSUME TypeOK, Next PROVE TypeOK'
  BY DEF vars, TypeOK
<1>boot. CASE Boot
  <2>1. CASE cleanupAllDuplicateNumbers
    <3>1. drawnRows' \in [Rooms -> [Numbers -> Nat]]
      <4>1. \A k \in Nat : Smaller(k, 1) \in Nat
        BY DEF Smaller
      <4>2. drawnRows \in [Rooms -> [Numbers -> Nat]]
        BY DEF TypeOK
      <4>3. \A r \in Rooms : Cleaned(r) \in [Numbers -> Nat]
        BY <4>1, <4>2 DEF Cleaned
      <4> QED
        BY <2>1, <4>2, <4>3 DEF cleanupAllDuplicateNumbers
    <3>2. main' \in MainState /\ faults' \in FaultCounts
      BY <2>1, MainMoves, FaultsTyped DEF cleanupAllDuplicateNumbers, MainSteps, Booting
    <3> QED
      BY <2>1, <3>1, <3>2 DEF cleanupAllDuplicateNumbers, TypeOK
  <2>2. CASE recoverActiveRooms
    <3>1. ASSUME NEW r \in Rooms PROVE Recovered(r) \in RoomState
      BY DEF Recovered, RoomState, RoomStatus, TypeOK, Drawn
    <3>2. roomStates' \in [Rooms -> RoomState]
      BY <2>2, <3>1 DEF recoverActiveRooms, TypeOK
    <3>3. main' \in MainState /\ faults' \in FaultCounts
      BY <2>2, MainMoves, FaultsTyped DEF recoverActiveRooms, MainSteps, Booting
    <3> QED
      BY <2>2, <3>2, <3>3 DEF recoverActiveRooms, TypeOK, database
  <2>3. CASE ensurePendingRooms
    <3>1. main' \in MainState /\ faults' \in FaultCounts
      BY <2>3, MainMoves, FaultsTyped DEF ensurePendingRooms, MainSteps, Booting
    <3>2. /\ rowStatus' \in [Rooms -> RoomStatus \cup {"absent"}]
          /\ rowSeconds' \in [Rooms -> Int]
          /\ roomStates' \in [Rooms -> RoomState]
      <4>1. CASE \E r \in PendingRows : LoadRoom(r, rowSeconds[r]) /\ UNCHANGED <<rowStatus, rowSeconds>>
        BY <4>1, LoadedTyped DEF PendingRows, TypeOK
      <4>2. CASE Absent # {} /\ InsertPendingRow(NextId) /\ LoadRoom(NextId, StartTimer)
        BY <4>2, NextIdIsARoom, LoadedTyped, PendingRowTyped, GameRoomAssumption
      <4>3. CASE UNCHANGED <<rowStatus, rowSeconds, roomStates>>
        BY <4>3 DEF TypeOK
      <4> QED
        BY <2>3, <4>1, <4>2, <4>3 DEF ensurePendingRooms
    <3> QED
      BY <2>3, <3>1, <3>2 DEF ensurePendingRooms, TypeOK, game
  <2> QED
    BY <1>boot, <2>1, <2>2, <2>3 DEF Boot
<1>create. CASE CreatePending
  <2>1. CASE PendingRoomExists \/ NoPendingRoom
    <3>1. main' \in MainState
      BY <2>1, MainMoves DEF PendingRoomExists, NoPendingRoom, MainSteps
    <3> QED
      BY <2>1, <3>1 DEF PendingRoomExists, NoPendingRoom, TypeOK, database
  <2>2. CASE createNewPendingRoom
    <3>1. main' \in MainState
      BY <2>2, MainMoves DEF createNewPendingRoom
    <3>2. /\ rowStatus' \in [Rooms -> RoomStatus \cup {"absent"}]
          /\ rowSeconds' \in [Rooms -> Int]
          /\ roomStates' \in [Rooms -> RoomState]
      BY <2>2, NextIdIsARoom, LoadedTyped, PendingRowTyped, GameRoomAssumption
         DEF createNewPendingRoom
    <3> QED
      BY <2>2, <3>1, <3>2 DEF createNewPendingRoom, TypeOK, game
  <2>3. CASE createNewPendingRoomFails
    <3>1. main' \in MainState /\ faults' \in FaultCounts
      BY <2>3, MainMoves, FaultsTyped DEF createNewPendingRoomFails
    <3>2. /\ rowStatus' \in [Rooms -> RoomStatus \cup {"absent"}]
          /\ rowSeconds' \in [Rooms -> Int]
      <4>1. CASE UNCHANGED <<rowStatus, rowSeconds>>
        BY <4>1 DEF TypeOK
      <4>2. CASE Absent # {} /\ InsertPendingRow(NextId)
        BY <4>2, NextIdIsARoom, PendingRowTyped
      <4> QED
        BY <2>3, <4>1, <4>2 DEF createNewPendingRoomFails
    <3> QED
      BY <2>3, <3>1, <3>2 DEF createNewPendingRoomFails, TypeOK, game
  <2> QED
    BY <1>create, <2>1, <2>2, <2>3 DEF CreatePending
<1>end. CASE EndIteration
  BY <1>end, IdleTyped DEF EndIteration, TypeOK, database
<1>room. ASSUME NEW r \in Rooms, RoomStep(r) PROVE TypeOK'
  <2>0. roomStates[r] \in RoomState /\ main \in MainState
    BY DEF TypeOK
  <2>1. CASE processRoomTimer(r)
    <3>1. [roomStates[r] EXCEPT !.remainingSeconds = @ - 1] \in RoomState
      BY <2>0 DEF RoomState
    <3>2. roomStates' \in [Rooms -> RoomState]
      BY <2>1, <3>1 DEF processRoomTimer, TypeOK
    <3>3. main' \in MainState
      BY <2>0, <2>1 DEF processRoomTimer, Unvisited, MainState, MainSteps
    <3> QED
      BY <2>1, <3>2, <3>3 DEF processRoomTimer, TypeOK, database
  <2>2. CASE PassRoom(r)
    <3>1. main' \in MainState
      BY <2>0, <2>2 DEF PassRoom, Unvisited, MainState
    <3> QED
      BY <2>2, <3>1 DEF PassRoom, TypeOK, database
  <2>3. CASE DrawNumber(r)
    <3>1. PICK n \in roomStates[r].remainingNumbers :
            /\ roomStates' = [roomStates EXCEPT ![r].remainingNumbers = @ \ {n},
                                                ![r].drawnNumbers = @ \cup {n}]
            /\ main' = [at |-> "saveNumber", room |-> r, visited |-> main.visited \cup {r},
                        number |-> n]
      BY <2>3 DEF DrawNumber
    <3>2. n \in Numbers
      BY <2>0, <3>1 DEF RoomState
    <3>3. [roomStates[r] EXCEPT !.remainingNumbers = @ \ {n}, !.drawnNumbers = @ \cup {n}]
            \in RoomState
      BY <2>0, <3>2 DEF RoomState
    <3>4. roomStates' \in [Rooms -> RoomState]
      BY <3>1, <3>3 DEF TypeOK
    <3>5. main' \in MainState
      BY <2>0, <3>1, <3>2 DEF MainState, MainSteps
    <3> QED
      BY <2>3, <3>4, <3>5 DEF DrawNumber, TypeOK, database
  <2>4. CASE resetRoomTimer(r)
    <3>1. [roomStates[r] EXCEPT !.remainingSeconds = StartTimer, !.status = "pending"] \in RoomState
      <4>1. StartTimer \in Int /\ "pending" \in RoomStatus
        BY GameRoomAssumption DEF RoomStatus
      <4> QED
        BY <2>0, <4>1 DEF RoomState
    <3>2. roomStates' \in [Rooms -> RoomState]
      BY <2>4, <3>1 DEF resetRoomTimer, TypeOK
    <3>3. main' \in MainState
      BY <2>4, MainMoves DEF resetRoomTimer
    <3> QED
      BY <2>4, <3>2, <3>3 DEF resetRoomTimer, TypeOK, database
  <2>5. CASE EnoughPlayers(r)
    <3>1. main' \in MainState
      BY <2>5, MainMoves DEF EnoughPlayers, MainSteps
    <3> QED
      BY <2>5, <3>1 DEF EnoughPlayers, TypeOK, database
  <2>6. CASE TimerExpiredFails(r)
    <3>1. main' \in MainState /\ faults' \in FaultCounts
      BY <2>6, MainMoves, FaultsTyped DEF TimerExpiredFails
    <3>2. roomStates' \in [Rooms -> RoomState] /\ deactivating' \subseteq Rooms
      BY <2>0, <2>6, ErrorTyped DEF TimerExpiredFails
    <3> QED
      BY <2>6, <3>1, <3>2 DEF TimerExpiredFails, TypeOK, database
  <2>7. CASE startGame(r)
    <3>1. [roomStates[r] EXCEPT !.status = "started", !.remainingNumbers = Numbers,
                                !.drawnNumbers = {}] \in RoomState
      BY <2>0 DEF RoomState, RoomStatus
    <3>2. roomStates' \in [Rooms -> RoomState]
      BY <2>7, <3>1 DEF startGame, TypeOK
    <3>3. main' \in MainState /\ tx' \in TxState
      BY <2>7, MainMoves, IdleTyped DEF startGame, MainSteps, InTransaction
    <3> QED
      BY <2>7, <3>2, <3>3 DEF startGame, TypeOK, database
  <2>8. CASE processCardPurchases(r)
    <3>1. main' \in MainState
      BY <2>8, MainMoves DEF processCardPurchases, MainSteps, InTransaction
    <3>2. \A u \in Users : PurchaseAmount(reservations[r], u) \in Nat
      BY AmountTyped DEF TypeOK
    <3>3. [u \in Users |-> IF u \in Buyers(reservations[r])
                           THEN <<PurchaseAmount(reservations[r], u)>> ELSE <<>>]
            \in [Users -> Seq(Nat)]
      BY <3>2
    <3>4. tx' \in TxState
      BY <2>8, <3>3 DEF processCardPurchases, TypeOK, TxState
    <3> QED
      BY <2>8, <3>1, <3>4 DEF processCardPurchases, TypeOK, database
  <2>9. CASE distributeCardsToUsers(r)
    <3>1. main' \in MainState
      BY <2>9, MainMoves DEF distributeCardsToUsers, MainSteps, InTransaction
    <3>2. PICK deck \in Shuffles, rs \in Orders(reservations[r]) :
            tx' = [tx EXCEPT !.cards = Dealt(rs, deck)]
      BY <2>9 DEF distributeCardsToUsers
    <3>3. Dealt(rs, deck) \in CardsHeld
      <4>1. reservations[r] \in Seq(Reservation)
        BY DEF TypeOK
      <4>2. rs \in Seq(Reservation)
        BY <4>1, OrdersKeepRows
      <4> QED
        BY <4>2, DealtTyped
    <3>4. tx' \in TxState
      BY <3>2, <3>3 DEF TypeOK, TxState
    <3> QED
      BY <2>9, <3>1, <3>4 DEF distributeCardsToUsers, TypeOK, database
  <2>10. CASE CommitStart(r)
    <3>1. main' \in MainState /\ tx' \in TxState
      BY <2>10, MainMoves, IdleTyped DEF CommitStart, MainSteps
    <3>2. Commit(r)
      BY <2>10 DEF CommitStart
    <3> QED
      BY <2>10, <3>1, <3>2, CommitTyped DEF CommitStart, Commit, TypeOK
  <2>11. CASE AbortStart(r)
    <3>1. main' \in MainState /\ tx' \in TxState /\ faults' \in FaultCounts
      BY <2>11, MainMoves, IdleTyped, FaultsTyped DEF AbortStart
    <3>2. roomStates' \in [Rooms -> RoomState] /\ deactivating' \subseteq Rooms
      BY <2>0, <2>11, CountedTyped, ErrorTyped DEF AbortStart
    <3>3. CASE UNCHANGED database
      BY <2>11, <3>1, <3>2, <3>3 DEF AbortStart, TypeOK, database
    <3>4. CASE Commit(r)
      BY <2>11, <3>1, <3>2, <3>4, CommitTyped DEF AbortStart, Commit, TypeOK
    <3> QED
      BY <2>11, <3>3, <3>4 DEF AbortStart
  <2>12. CASE SaveDrawnNumber(r) \/ SaveDrawnNumberFails(r)
    <3>1. main' \in MainState /\ faults' \in FaultCounts
      BY <2>12, MainMoves, FaultsTyped DEF SaveDrawnNumber, SaveDrawnNumberFails, MainSteps
    <3>2. main.number \in Numbers
      BY <2>0, <2>12 DEF SaveDrawnNumber, SaveDrawnNumberFails, At, MainState
    <3>3. drawnRows' \in [Rooms -> [Numbers -> Nat]]
      <4>1. CASE UNCHANGED drawnRows
        BY <4>1 DEF TypeOK
      <4>2. CASE InsertDrawnRow(r)
        <5>1. drawnRows \in [Rooms -> [Numbers -> Nat]]
          BY DEF TypeOK
        <5>2. drawnRows[r][main.number] + 1 \in Nat
          BY <3>2, <5>1
        <5>3. [drawnRows[r] EXCEPT ![main.number] = drawnRows[r][main.number] + 1]
                \in [Numbers -> Nat]
          BY <3>2, <5>1, <5>2
        <5> QED
          BY <4>2, <5>1, <5>3 DEF InsertDrawnRow
      <4> QED
        BY <2>12, <4>1, <4>2 DEF SaveDrawnNumber, SaveDrawnNumberFails
    <3>4. [roomStates[r] EXCEPT !.drawnNumbers = @ \ {main.number},
                                !.remainingNumbers = @ \cup {main.number}] \in RoomState
      BY <2>0, <3>2 DEF RoomState
    <3>5. roomStates' \in [Rooms -> RoomState] /\ deactivating' \subseteq Rooms
      BY <2>12, <3>4, ErrorTyped DEF SaveDrawnNumber, SaveDrawnNumberFails, TypeOK
    <3> QED
      BY <2>12, <3>1, <3>3, <3>5 DEF SaveDrawnNumber, SaveDrawnNumberFails, TypeOK
  <2>13. CASE checkLineWinners(r)
    <3>1. main' \in MainState /\ faults' \in FaultCounts
      BY <2>13, MainMoves, FaultsTyped DEF checkLineWinners, MainSteps
    <3>2. \A w \in LineWinners(r) : w \in CardsHeld
      BY DEF LineWinners, OnePerUser, LineCards, Held, CardsHeld, TypeOK
    <3>3. \E w \in CardsHeld : SaveWinners(r, "line", w)
      BY <2>13, <3>2 DEF checkLineWinners, CardsHeld
    <3>4. winnerRows' \in [Rooms -> [WinType -> Seq(CardsHeld)]]
      BY <3>3, WinnersTyped DEF WinType
    <3> QED
      BY <2>13, <3>1, <3>4 DEF checkLineWinners, TypeOK
  <2>14. CASE checkFullWinners(r)
    <3>1. main' \in MainState /\ faults' \in FaultCounts
      BY <2>14, MainMoves, FaultsTyped DEF checkFullWinners, MainSteps
    <3>2. \A w \in FullWinners(r) : w \in CardsHeld
      BY DEF FullWinners, OnePerUser, FullCards, Held, CardsHeld, TypeOK
    <3>3. \E w \in CardsHeld : SaveWinners(r, "full", w)
      BY <2>14, <3>2 DEF checkFullWinners, CardsHeld
    <3>4. winnerRows' \in [Rooms -> [WinType -> Seq(CardsHeld)]]
      BY <3>3, WinnersTyped DEF WinType
    <3> QED
      BY <2>14, <3>1, <3>4 DEF checkFullWinners, TypeOK
  <2>15. CASE FinishRow(r)
    <3>1. main' \in MainState
      BY <2>15, MainMoves DEF FinishRow, MainSteps
    <3> QED
      BY <2>15, <3>1 DEF FinishRow, TypeOK, RoomStatus, game
  <2>16. CASE FinishRoom(r)
    <3>1. [roomStates[r] EXCEPT !.status = "finished"] \in RoomState
      BY <2>0 DEF RoomState, RoomStatus
    <3>2. main' \in MainState /\ roomStates' \in [Rooms -> RoomState]
      BY <2>16, <3>1, MainMoves DEF FinishRoom, TypeOK
    <3> QED
      BY <2>16, <3>2 DEF FinishRoom, TypeOK, database
  <2>17. CASE FinishFails(r)
    <3>1. main' \in MainState /\ faults' \in FaultCounts
      BY <2>17, MainMoves, FaultsTyped DEF FinishFails
    <3> QED
      BY <2>17, <3>1 DEF FinishFails, TypeOK, database
  <2> QED
    BY <1>room, <2>1, <2>2, <2>3, <2>4, <2>5, <2>6, <2>7, <2>8, <2>9, <2>10, <2>11, <2>12,
       <2>13, <2>14, <2>15, <2>16, <2>17 DEF RoomStep
<1>sync. CASE SyncJob
  <2>1. CASE EndSync
    BY <2>1, IdleTyped DEF EndSync, TypeOK, database
  <2>2. ASSUME NEW r \in Rooms, SendSync(r) \/ ApplySync(r) \/ SyncRoom(r) \/ SyncFails(r)
        PROVE  TypeOK'
    <3>0. roomStates[r] \in RoomState /\ sync \in SyncState
      BY DEF TypeOK
    <3>1. SyncDone(r) => sync' \in SyncState
      BY <3>0 DEF SyncDone, SyncIdle, SyncState, NoRoom
    <3>2. ASSUME NEW s \in RoomStatus, NEW n \in Int, WriteRow(r, s, n)
          PROVE  /\ rowStatus' \in [Rooms -> RoomStatus \cup {"absent"}]
                 /\ rowSeconds' \in [Rooms -> Int]
      BY <3>2 DEF WriteRow, TypeOK
    <3>3. Unsynced(r) => roomStates[r].status \in RoomStatus /\ roomStates[r].remainingSeconds \in Int
      BY <3>0 DEF Unsynced, Loaded, RoomState
    <3>4. CASE SendSync(r)
      <4>1. sync' \in SyncState
        BY <3>0, <3>3, <3>4 DEF SendSync, SyncState
      <4> QED
        BY <3>4, <4>1 DEF SendSync, TypeOK, database
    <3>5. CASE ApplySync(r)
      <4>1. sync.status \in RoomStatus /\ sync.seconds \in Int
        BY <3>0, <3>5 DEF ApplySync, SyncState
      <4> QED
        BY <3>1, <3>2, <3>5, <4>1 DEF ApplySync, TypeOK, game
    <3>6. CASE SyncRoom(r)
      BY <3>1, <3>2, <3>3, <3>6 DEF SyncRoom, TypeOK, game
    <3>7. CASE SyncFails(r)
      BY <3>1, <3>7, FaultsTyped DEF SyncFails, TypeOK, database
    <3> QED
      BY <2>2, <3>4, <3>5, <3>6, <3>7
  <2> QED
    BY <1>sync, <2>1, <2>2 DEF SyncJob
<1>deactivate. ASSUME NEW r \in Rooms, Deactivate(r) PROVE TypeOK'
  <2>1. faults' \in FaultCounts
    BY <1>deactivate, FaultsTyped DEF Deactivate
  <2> QED
    BY <1>deactivate, <2>1 DEF Deactivate, TypeOK, RoomStatus, game
<1>reserve. ASSUME NEW u \in Users, Reserve(u) PROVE TypeOK'
  <2>1. ASSUME NEW r \in Rooms, CheckPending(u, r) PROVE TypeOK'
    BY <2>1 DEF CheckPending, TypeOK, database
  <2>2. CASE InsertReservation(u)
    <3>1. request[u] \in Rooms
      BY <2>2 DEF InsertReservation, TypeOK
    <3>2. \A count \in CardCounts : [user |-> u, cardCount |-> count] \in Reservation
      BY DEF Reservation
    <3>3. reservations' \in [Rooms -> Seq(Reservation)]
      BY <2>2, <3>1, <3>2 DEF InsertReservation, TypeOK
    <3> QED
      BY <2>2, <3>3 DEF InsertReservation, TypeOK, game
  <2> QED
    BY <1>reserve, <2>1, <2>2 DEF Reserve
<1>crash. CASE Crash
  <2>1. \A f \in FaultCounts : [f EXCEPT !.restarts = @ + 1] \in FaultCounts
    BY DEF FaultCounts
  <2>2. faults' \in FaultCounts
    BY <1>crash, <2>1 DEF Crash, TypeOK
  <2> QED
    BY <1>crash, <2>2, IdleTyped DEF Crash, TypeOK, database, NoRoom
<1> QED
  BY <1>boot, <1>create, <1>end, <1>room, <1>sync, <1>deactivate, <1>reserve, <1>crash
     DEF Next, MainLoop

-----------------------------------------------------------------------------
\* A room is over for the main loop, or for the sync, only once it has winners.
FinishAnnounced ==
    \A r \in Rooms :
        (\/ main.room = r /\ main.at \in {"finishRow", "report"}
         \/ sync.at = "sent" /\ sync.room = r /\ sync.status = "finished")
        => winnerRows[r]["full"] # <<>>

\* The inductive invariant behind the theorems on winning.
WinnerInv ==
    /\ WinnersHoldCompletedCards /\ LineWonOnce
    /\ FinishedRoomsHaveAWinner /\ FinishAnnounced

\* More cards held and more numbers drawn never complete fewer cards.
LEMMA CompletionGrows ==
    ASSUME NEW held, NEW held2, held \subseteq held2,
           NEW drawn, NEW drawn2, drawn \subseteq drawn2
    PROVE  /\ LineCards(held, drawn) \subseteq LineCards(held2, drawn2)
           /\ FullCards(held, drawn) \subseteq FullCards(held2, drawn2)
<1>1. \A row : Covered(row, drawn) => Covered(row, drawn2)
  BY DEF Covered
<1>2. \A m : /\ isLineComplete(m, drawn) => isLineComplete(m, drawn2)
             /\ isCardComplete(m, drawn) => isCardComplete(m, drawn2)
  BY <1>1 DEF isLineComplete, isCardComplete
<1> QED
  BY <1>2 DEF LineCards, FullCards

\* winnerRows is written by the two winner checks only.
LEMMA WinnerWrites ==
    ASSUME Next
    PROVE  \/ UNCHANGED winnerRows
           \/ \E r \in Rooms : checkLineWinners(r) \/ checkFullWinners(r)
  BY DEF Next, MainLoop, Boot, CreatePending, RoomStep, SyncJob, Reserve, database, game,
         cleanupAllDuplicateNumbers, recoverActiveRooms, ensurePendingRooms, EndIteration,
         PendingRoomExists, NoPendingRoom, createNewPendingRoom, createNewPendingRoomFails,
         processRoomTimer, PassRoom, DrawNumber, resetRoomTimer, EnoughPlayers,
         TimerExpiredFails, startGame, processCardPurchases, distributeCardsToUsers,
         CommitStart, AbortStart, Commit, SaveDrawnNumber, SaveDrawnNumberFails, FinishRow,
         FinishRoom, FinishFails, EndSync, SendSync, ApplySync, SyncRoom, SyncFails,
         Deactivate, CheckPending, InsertReservation, Crash

\* reservedCards is written by the COMMIT of a start only.
LEMMA HeldWrites ==
    ASSUME Next
    PROVE  \/ UNCHANGED reservedCards
           \/ \E r \in Rooms : Commit(r)
  BY DEF Next, MainLoop, Boot, CreatePending, RoomStep, SyncJob, Reserve, database, game,
         cleanupAllDuplicateNumbers, recoverActiveRooms, ensurePendingRooms, EndIteration,
         PendingRoomExists, NoPendingRoom, createNewPendingRoom, createNewPendingRoomFails,
         processRoomTimer, PassRoom, DrawNumber, resetRoomTimer, EnoughPlayers,
         TimerExpiredFails, startGame, processCardPurchases, distributeCardsToUsers,
         CommitStart, AbortStart, SaveDrawnNumber, SaveDrawnNumberFails, FinishRow,
         checkLineWinners, checkFullWinners, FinishRoom, FinishFails, EndSync, SendSync,
         ApplySync, SyncRoom, SyncFails, Deactivate, CheckPending, InsertReservation, Crash

\* drawnRows is written by the INSERT of a number and by the clean-up only.
LEMMA DrawnWrites ==
    ASSUME Next
    PROVE  \/ UNCHANGED drawnRows
           \/ cleanupAllDuplicateNumbers
           \/ \E r \in Rooms : InsertDrawnRow(r) /\ At("saveNumber", r)
  BY DEF Next, MainLoop, Boot, CreatePending, RoomStep, SyncJob, Reserve, database, game,
         recoverActiveRooms, ensurePendingRooms, EndIteration,
         PendingRoomExists, NoPendingRoom, createNewPendingRoom, createNewPendingRoomFails,
         processRoomTimer, PassRoom, DrawNumber, resetRoomTimer, EnoughPlayers,
         TimerExpiredFails, startGame, processCardPurchases, distributeCardsToUsers,
         CommitStart, AbortStart, Commit, SaveDrawnNumber, SaveDrawnNumberFails, FinishRow,
         checkLineWinners, checkFullWinners, FinishRoom, FinishFails, EndSync, SendSync,
         ApplySync, SyncRoom, SyncFails, Deactivate, CheckPending, InsertReservation, Crash

\* No step takes back a card that was dealt or a number that was drawn.
LEMMA NothingTakenBack ==
    ASSUME TypeOK, Next, NEW r \in Rooms
    PROVE  Held(r) \subseteq Held(r)' /\ Drawn(r) \subseteq Drawn(r)'
<1>1. Held(r) \subseteq Held(r)'
  <2>1. CASE UNCHANGED reservedCards
    BY <2>1 DEF Held
  <2>2. ASSUME NEW q \in Rooms, Commit(q) PROVE Held(r) \subseteq Held(r)'
    BY <2>2 DEF Commit, Held, TypeOK
  <2> QED
    BY <2>1, <2>2, HeldWrites
<1>2. Drawn(r) \subseteq Drawn(r)'
  <2>0. drawnRows \in [Rooms -> [Numbers -> Nat]]
    BY DEF TypeOK
  <2>1. CASE UNCHANGED drawnRows
    BY <2>1 DEF Drawn
  <2>2. CASE cleanupAllDuplicateNumbers
    <3>1. \A k \in Nat : k > 0 => Smaller(k, 1) > 0
      BY DEF Smaller
    <3>2. \A n \in Numbers : \/ drawnRows'[r][n] = drawnRows[r][n]
                             \/ drawnRows'[r][n] = Smaller(drawnRows[r][n], 1)
      BY <2>0, <2>2 DEF cleanupAllDuplicateNumbers, Cleaned
    <3> QED
      BY <2>0, <3>1, <3>2 DEF Drawn
  <2>3. ASSUME NEW q \in Rooms, InsertDrawnRow(q), At("saveNumber", q)
        PROVE  Drawn(r) \subseteq Drawn(r)'
    <3>1. \A n \in Numbers : \/ drawnRows'[r][n] = drawnRows[r][n]
                             \/ drawnRows'[r][n] = drawnRows[r][n] + 1
      BY <2>0, <2>3 DEF InsertDrawnRow
    <3> QED
      BY <2>0, <3>1 DEF Drawn
  <2> QED
    BY <2>1, <2>2, <2>3, DrawnWrites
<1> QED
  BY <1>1, <1>2

\* A room becomes FINISHED in memory by FinishRoom only.
LEMMA MemoryFinishes ==
    ASSUME TypeOK, Next, NEW q \in Rooms, roomStates'[q].status = "finished"
    PROVE  roomStates[q].status = "finished" \/ FinishRoom(q)
<1>0. roomStates \in [Rooms -> RoomState]
  BY DEF TypeOK
<1>1. ASSUME NEW r \in Rooms, NEW s \in RoomState, handleRoomError(r, s),
             s.status = roomStates[r].status \/ s.status # "finished"
      PROVE  roomStates[q].status = "finished"
  <2>1. ErrorCounted(s).status \in {s.status, "deactivated"}
    BY <1>1 DEF ErrorCounted, RoomState
  <2> QED
    BY <1>0, <1>1, <2>1 DEF handleRoomError
<1>2. ASSUME NEW r \in Rooms, NEW n, LoadRoom(r, n) PROVE roomStates[q].status = "finished"
  BY <1>0, <1>2 DEF LoadRoom, addRoomToState, Unloaded
<1>3. CASE Boot
  <2>1. ensurePendingRooms => roomStates[q].status = "finished"
    BY <1>2, NextIdIsARoom DEF ensurePendingRooms, PendingRows
  <2> QED
    BY <1>0, <1>3, <2>1 DEF Boot, cleanupAllDuplicateNumbers, recoverActiveRooms, Recovered
<1>4. CASE CreatePending
  BY <1>0, <1>2, <1>4, NextIdIsARoom DEF CreatePending, PendingRoomExists, NoPendingRoom,
     createNewPendingRoom, createNewPendingRoomFails
<1>5. ASSUME NEW r \in Rooms, RoomStep(r)
      PROVE  roomStates[q].status = "finished" \/ FinishRoom(q)
  <2>1. CASE processRoomTimer(r) \/ DrawNumber(r) \/ resetRoomTimer(r) \/ startGame(r)
    <3>0. roomStates[r] \in RoomState
      BY <1>0
    <3>1. \A n, m : /\ [roomStates[r] EXCEPT !.remainingSeconds = n].status = roomStates[r].status
                    /\ [roomStates[r] EXCEPT !.remainingSeconds = n, !.status = "pending"].status
                            = "pending"
                    /\ [roomStates[r] EXCEPT !.remainingNumbers = n, !.drawnNumbers = m].status
                            = roomStates[r].status
                    /\ [roomStates[r] EXCEPT !.status = "started", !.remainingNumbers = n,
                                             !.drawnNumbers = m].status = "started"
      BY <3>0 DEF RoomState
    <3>2. CASE processRoomTimer(r)
      BY <1>0, <3>1, <3>2 DEF processRoomTimer
    <3>3. CASE DrawNumber(r)
      BY <1>0, <3>1, <3>3 DEF DrawNumber
    <3>4. CASE resetRoomTimer(r)
      BY <1>0, <3>1, <3>4 DEF resetRoomTimer
    <3>5. CASE startGame(r)
      BY <1>0, <3>1, <3>5 DEF startGame
    <3> QED
      BY <2>1, <3>2, <3>3, <3>4, <3>5
  <2>2. CASE TimerExpiredFails(r)
    BY <1>0, <1>1, <2>2 DEF TimerExpiredFails
  <2>3. CASE AbortStart(r)
    <3>1. ErrorCounted(roomStates[r]) \in RoomState
      BY <1>0, CountedTyped
    <3>2. ErrorCounted(roomStates[r]).status \in {roomStates[r].status, "deactivated"}
      BY <1>0 DEF ErrorCounted, RoomState
    <3>3. /\ roomStates[r] \in RoomState
          /\ handleRoomError(r, ErrorCounted(roomStates[r])) \/ handleRoomError(r, roomStates[r])
      BY <1>0, <2>3 DEF AbortStart
    <3> QED
      BY <1>1, <2>3, <3>1, <3>2, <3>3
  <2>4. CASE SaveDrawnNumberFails(r)
    <3> DEFINE s == [roomStates[r] EXCEPT !.drawnNumbers = @ \ {main.number},
                                          !.remainingNumbers = @ \cup {main.number}]
    <3>1. main.number \in Numbers
      BY <2>4 DEF SaveDrawnNumberFails, At, TypeOK, MainState
    <3>2. s \in RoomState /\ s.status = roomStates[r].status
      BY <1>0, <3>1 DEF RoomState
    <3> QED
      BY <1>1, <2>4, <3>2 DEF SaveDrawnNumberFails
  <2>5. CASE FinishRoom(r)
    BY <1>0, <2>5 DEF FinishRoom
  <2> QED
    BY <1>5, <2>1, <2>2, <2>3, <2>4, <2>5 DEF RoomStep, PassRoom, EnoughPlayers,
       processCardPurchases, distributeCardsToUsers, CommitStart, SaveDrawnNumber,
       checkLineWinners, checkFullWinners, FinishRow, FinishFails
<1>6. CASE Crash
  BY <1>6 DEF Crash, Unloaded
<1> QED
  BY <1>3, <1>4, <1>5, <1>6 DEF Next, MainLoop, EndIteration, SyncJob, EndSync, SendSync,
     ApplySync, SyncRoom, SyncFails, Deactivate, Reserve, CheckPending, InsertReservation

\* A row becomes FINISHED by FinishRow or by a statement of the sync that carries it.
LEMMA RowFinishes ==
    ASSUME TypeOK, Next, NEW q \in Rooms, rowStatus'[q] = "finished"
    PROVE  \/ rowStatus[q] = "finished"
           \/ FinishRow(q)
           \/ ApplySync(q) /\ sync.status = "finished"
           \/ SyncRoom(q) /\ roomStates[q].status = "finished"
<1>0. rowStatus \in [Rooms -> RoomStatus \cup {"absent"}]
  BY DEF TypeOK
<1>1. ASSUME NEW r \in Rooms, InsertPendingRow(r) PROVE rowStatus[q] = "finished"
  BY <1>0, <1>1 DEF InsertPendingRow
<1>2. CASE Boot
  BY <1>1, <1>2, NextIdIsARoom DEF Boot, cleanupAllDuplicateNumbers, recoverActiveRooms,
     ensurePendingRooms, database
<1>3. CASE CreatePending
  BY <1>1, <1>3, NextIdIsARoom DEF CreatePending, PendingRoomExists, NoPendingRoom,
     createNewPendingRoom, createNewPendingRoomFails, database
<1>4. ASSUME NEW r \in Rooms, RoomStep(r) PROVE rowStatus[q] = "finished" \/ FinishRow(q)
  <2>1. ASSUME Commit(r) PROVE rowStatus[q] = "finished"
    BY <1>0, <2>1 DEF Commit
  <2>2. CASE FinishRow(r)
    BY <1>0, <2>2 DEF FinishRow
  <2> QED
    BY <1>4, <2>1, <2>2 DEF RoomStep, processRoomTimer, PassRoom, DrawNumber, resetRoomTimer,
       EnoughPlayers, TimerExpiredFails, startGame, processCardPurchases,
       distributeCardsToUsers, CommitStart, AbortStart, SaveDrawnNumber,
       SaveDrawnNumberFails, checkLineWinners, checkFullWinners, FinishRoom, FinishFails,
       database
<1>5. ASSUME NEW r \in Rooms, ApplySync(r) \/ SyncRoom(r)
      PROVE  \/ rowStatus[q] = "finished"
             \/ ApplySync(q) /\ sync.status = "finished"
             \/ SyncRoom(q) /\ roomStates[q].status = "finished"
  BY <1>0, <1>5 DEF ApplySync, SyncRoom, WriteRow
<1>6. ASSUME NEW r \in Rooms, Deactivate(r) PROVE rowStatus[q] = "finished"
  BY <1>0, <1>6 DEF Deactivate
<1> QED
  BY <1>2, <1>3, <1>4, <1>5, <1>6 DEF Next, MainLoop, EndIteration, SyncJob, EndSync,
     SendSync, SyncFails, Reserve, CheckPending, InsertReservation, Crash, database

\* How the main loop comes to finish a room.
LEMMA LoopFinishes ==
    ASSUME TypeOK, Next, main'.at \in {"finishRow", "report"}
    PROVE  \/ main' = main
           \/ \E r \in Rooms : FinishRow(r) /\ main'.room = r
           \/ \E r \in Rooms : /\ checkFullWinners(r) /\ main'.room = r
                             /\ \E w \in FullWinners(r) : w # {} /\ SaveWinners(r, "full", w)
<1>1. main \in MainState
  BY DEF TypeOK
<1>2. /\ LeaveRoom => main'.at = "loop"
      /\ \A step : GoTo(step) => main'.at = step /\ main'.room = main.room
  BY <1>1 DEF LeaveRoom, GoTo, MainState
<1>3. ~ Boot
  BY <1>2 DEF Boot, cleanupAllDuplicateNumbers, recoverActiveRooms, ensurePendingRooms
<1>4. ~ CreatePending
  BY <1>2 DEF CreatePending, PendingRoomExists, NoPendingRoom, createNewPendingRoom,
     createNewPendingRoomFails
<1>5. ~ EndIteration /\ ~ Crash
  BY DEF EndIteration, Crash, Idle
<1>6. ASSUME NEW r \in Rooms, RoomStep(r)
      PROVE  \/ FinishRow(r) /\ main'.room = r
             \/ /\ checkFullWinners(r) /\ main'.room = r
                /\ \E w \in FullWinners(r) : w # {} /\ SaveWinners(r, "full", w)
  <2>1. ~ processRoomTimer(r) /\ ~ PassRoom(r) /\ ~ DrawNumber(r)
    <3>1. \A S : [main EXCEPT !.visited = S].at = main.at
      BY <1>1 DEF MainState
    <3>2. ~ processRoomTimer(r)
      BY <1>1 DEF processRoomTimer, MainState
    <3>3. ~ PassRoom(r)
      BY <3>1 DEF PassRoom, Unvisited
    <3>4. ~ DrawNumber(r)
      <4>1. DrawNumber(r) => main'.at = "saveNumber"
        BY DEF DrawNumber
      <4> QED
        BY <4>1
    <3> QED
      BY <3>2, <3>3, <3>4
  <2>2. ~ (resetRoomTimer(r) \/ EnoughPlayers(r) \/ TimerExpiredFails(r))
    BY <1>2 DEF resetRoomTimer, EnoughPlayers, TimerExpiredFails
  <2>3. ~ (startGame(r) \/ processCardPurchases(r) \/ distributeCardsToUsers(r)
            \/ CommitStart(r) \/ AbortStart(r))
    BY <1>2 DEF startGame, processCardPurchases, distributeCardsToUsers, CommitStart,
       AbortStart
  <2>4. ~ (SaveDrawnNumber(r) \/ SaveDrawnNumberFails(r) \/ checkLineWinners(r))
    BY <1>2 DEF SaveDrawnNumber, SaveDrawnNumberFails, checkLineWinners
  <2>5. ~ (FinishRoom(r) \/ FinishFails(r))
    BY <1>2 DEF FinishRoom, FinishFails
  <2>6. CASE FinishRow(r)
    BY <1>2, <2>6 DEF FinishRow, At
  <2>7. CASE checkFullWinners(r)
    BY <1>2, <2>7 DEF checkFullWinners, At
  <2> QED
    BY <1>6, <2>1, <2>2, <2>3, <2>4, <2>5, <2>6, <2>7 DEF RoomStep
<1> QED
  BY <1>3, <1>4, <1>5, <1>6 DEF Next, MainLoop, SyncJob, EndSync, SendSync, ApplySync,
     SyncRoom, SyncFails, Deactivate, Reserve, CheckPending, InsertReservation

\* What the winner checks save are cards that users hold.
LEMMA WinnersAreCards ==
    ASSUME TypeOK, NEW r \in Rooms, NEW w \in LineWinners(r) \cup FullWinners(r)
    PROVE  \A saved \in SUBSET w : saved \in CardsHeld
  BY DEF LineWinners, FullWinners, OnePerUser, LineCards, FullCards, Held, CardsHeld, TypeOK

\* A sequence one has appended to is not empty.
LEMMA AppendIsNotEmpty ==
    ASSUME NEW R, NEW s \in Seq(R), NEW x \in R
    PROVE  Append(s, x) # <<>>
<1>1. Len(Append(s, x)) = Len(s) + 1 /\ Len(s) \in Nat
  OBVIOUS
<1>2. Len(<<>>) = 0
  OBVIOUS
<1> QED
  BY <1>1, <1>2

\* A won line or full card stays won: rows of active_room_winners only come.
LEMMA WinsStay ==
    ASSUME TypeOK, Next, NEW r \in Rooms, NEW t \in WinType, winnerRows[r][t] # <<>>
    PROVE  winnerRows'[r][t] # <<>>
<1>0. winnerRows \in [Rooms -> [WinType -> Seq(CardsHeld)]]
  BY DEF TypeOK
<1>1. ASSUME NEW q \in Rooms, NEW s \in WinType, NEW w \in CardsHeld, SaveWinners(q, s, w)
      PROVE  winnerRows'[r][t] # <<>>
  <2>1. \A x \in Seq(CardsHeld) : Append(x, w) # <<>>
    BY AppendIsNotEmpty
  <2> QED
    BY <1>0, <1>1, <2>1 DEF SaveWinners
<1>2. ASSUME NEW q \in Rooms, checkLineWinners(q) PROVE winnerRows'[r][t] # <<>>
  <2>1. \E w \in CardsHeld : SaveWinners(q, "line", w)
    BY <1>2, WinnersAreCards DEF checkLineWinners
  <2> QED
    BY <1>1, <2>1 DEF WinType
<1>3. ASSUME NEW q \in Rooms, checkFullWinners(q) PROVE winnerRows'[r][t] # <<>>
  <2>1. \E w \in CardsHeld : SaveWinners(q, "full", w)
    BY <1>3, WinnersAreCards DEF checkFullWinners
  <2> QED
    BY <1>1, <2>1 DEF WinType
<1> QED
  BY <1>2, <1>3, WinnerWrites

\* A winning room stays a winning one.
LEMMA WinnersStay ==
    ASSUME TypeOK, Next, NEW r \in Rooms, winnerRows[r]["full"] # <<>>
    PROVE  winnerRows'[r]["full"] # <<>>
  BY WinsStay DEF WinType

\* A check that saves winners leaves the room with winners.
LEMMA WinnersAreSaved ==
    ASSUME TypeOK, NEW r \in Rooms, NEW w \in CardsHeld, w # {}, SaveWinners(r, "full", w)
    PROVE  winnerRows'[r]["full"] # <<>>
<1>1. winnerRows[r]["full"] \in Seq(CardsHeld)
  BY DEF TypeOK, WinType
<1>2. winnerRows'[r]["full"] = Append(winnerRows[r]["full"], w)
  BY DEF SaveWinners, TypeOK, WinType
<1> QED
  BY <1>1, <1>2

\* No step finishes a room, or announces that it will, before it has winners.
THEOREM FinishStep ==
    ASSUME TypeOK, Next, FinishedRoomsHaveAWinner, FinishAnnounced
    PROVE  FinishedRoomsHaveAWinner' /\ FinishAnnounced'
<1>1. ASSUME NEW q \in Rooms, FinishRow(q) \/ FinishRoom(q)
      PROVE  winnerRows'[q]["full"] # <<>>
  BY <1>1, WinnersStay DEF FinishRow, FinishRoom, At, FinishAnnounced
<1>2. ASSUME NEW q \in Rooms, rowStatus'[q] = "finished" \/ roomStates'[q].status = "finished"
      PROVE  winnerRows'[q]["full"] # <<>>
  <2>1. CASE rowStatus'[q] = "finished"
    <3>1. CASE rowStatus[q] = "finished" \/ (SyncRoom(q) /\ roomStates[q].status = "finished")
      BY <3>1, WinnersStay DEF FinishedRoomsHaveAWinner
    <3>2. CASE ApplySync(q) /\ sync.status = "finished"
      BY <3>2, WinnersStay DEF ApplySync, FinishAnnounced
    <3> QED
      BY <1>1, <2>1, <3>1, <3>2, RowFinishes
  <2>2. CASE roomStates'[q].status = "finished"
    BY <1>1, <2>2, MemoryFinishes, WinnersStay DEF FinishedRoomsHaveAWinner
  <2> QED
    BY <1>2, <2>1, <2>2
<1>3. ASSUME NEW q \in Rooms, main'.room = q, main'.at \in {"finishRow", "report"}
      PROVE  winnerRows'[q]["full"] # <<>>
  <2>1. CASE main' = main
    BY <1>3, <2>1, WinnersStay DEF FinishAnnounced
  <2>2. CASE \E r \in Rooms : FinishRow(r) /\ main'.room = r
    BY <1>1, <1>3, <2>2
  <2>3. ASSUME NEW w \in FullWinners(q), w # {}, SaveWinners(q, "full", w)
        PROVE  winnerRows'[q]["full"] # <<>>
    <3>1. w \in CardsHeld
      BY WinnersAreCards
    <3> QED
      BY <2>3, <3>1, WinnersAreSaved
  <2> QED
    BY <1>3, <2>1, <2>2, <2>3, LoopFinishes
<1>4. ASSUME NEW q \in Rooms, sync'.at = "sent", sync'.room = q, sync'.status = "finished"
      PROVE  winnerRows'[q]["full"] # <<>>
  <2>1. CASE UNCHANGED sync
    BY <1>4, <2>1, WinnersStay DEF FinishAnnounced
  <2>2. ASSUME NEW r \in Rooms, SendSync(r) PROVE winnerRows'[q]["full"] # <<>>
    BY <1>4, <2>2, WinnersStay DEF SendSync, FinishedRoomsHaveAWinner
  <2>3. SyncJob => UNCHANGED sync \/ \E r \in Rooms : SendSync(r)
    <3>1. \A r : SyncDone(r) => sync'.at = "loop"
      BY DEF SyncDone, SyncIdle
    <3> QED
      BY <1>4, <3>1 DEF SyncJob, EndSync, ApplySync, SyncRoom, SyncFails, SyncIdle
  <2>4. Crash => FALSE
    BY <1>4 DEF Crash, SyncIdle
  <2>5. Boot \/ CreatePending \/ EndIteration => UNCHANGED sync
    BY DEF Boot, CreatePending, cleanupAllDuplicateNumbers, recoverActiveRooms,
       ensurePendingRooms, EndIteration, PendingRoomExists, NoPendingRoom,
       createNewPendingRoom, createNewPendingRoomFails
  <2>6. \A r \in Rooms : RoomStep(r) \/ Deactivate(r) => UNCHANGED sync
    BY DEF RoomStep, processRoomTimer, PassRoom, DrawNumber, resetRoomTimer, EnoughPlayers,
       TimerExpiredFails, startGame, processCardPurchases, distributeCardsToUsers,
       CommitStart, AbortStart, SaveDrawnNumber, SaveDrawnNumberFails, checkLineWinners,
       checkFullWinners, FinishRow, FinishRoom, FinishFails, Deactivate
  <2>7. \A u \in Users : Reserve(u) => UNCHANGED sync
    BY DEF Reserve, CheckPending, InsertReservation
  <2> QED
    BY <2>1, <2>2, <2>3, <2>4, <2>5, <2>6, <2>7 DEF Next, MainLoop
<1>5. FinishedRoomsHaveAWinner'
  BY <1>2 DEF FinishedRoomsHaveAWinner
<1>6. FinishAnnounced'
  BY <1>3, <1>4 DEF FinishAnnounced
<1> QED
  BY <1>5, <1>6

\* What a check saves is complete when it is saved, and the line only once.
THEOREM WinnersStep ==
    ASSUME TypeOK, Next, WinnersHoldCompletedCards, LineWonOnce
    PROVE  WinnersHoldCompletedCards' /\ LineWonOnce'
<1>0. winnerRows \in [Rooms -> [WinType -> Seq(CardsHeld)]]
  BY DEF TypeOK
<1>1. ASSUME NEW r \in Rooms
      PROVE  /\ LineCards(Held(r), Drawn(r)) \subseteq LineCards(Held(r)', Drawn(r)')
             /\ FullCards(Held(r), Drawn(r)) \subseteq FullCards(Held(r)', Drawn(r)')
  BY NothingTakenBack, CompletionGrows
<1>2. CASE UNCHANGED winnerRows
  BY <1>1, <1>2 DEF WinnersHoldCompletedCards, LineWonOnce, LineCards, FullCards
<1>3. ASSUME NEW q \in Rooms, checkLineWinners(q)
      PROVE  WinnersHoldCompletedCards' /\ LineWonOnce'
  <2>1. PICK w : /\ SaveWinners(q, "line", w)
                 /\ w \subseteq LineCards(Held(q), Drawn(q))
                 /\ winnerRows[q]["line"] # <<>> => w = {}
    BY <1>3 DEF checkLineWinners, LineWinners, OnePerUser
  <2>2. CASE w = {}
    <3>1. UNCHANGED winnerRows
      BY <1>0, <2>1, <2>2 DEF SaveWinners, WinType
    <3> QED
      BY <1>2, <3>1
  <2>3. CASE w # {}
    <3>1. winnerRows'[q]["line"] = <<w>>
      <4>1. winnerRows[q]["line"] = <<>>
        BY <2>1, <2>3
      <4>2. winnerRows'[q]["line"] = Append(winnerRows[q]["line"], w)
        BY <1>0, <2>1, <2>3 DEF SaveWinners, WinType
      <4> QED
        BY <4>1, <4>2
    <3>2. /\ \A r \in Rooms : winnerRows'[r]["full"] = winnerRows[r]["full"]
          /\ \A r \in Rooms \ {q} : winnerRows'[r]["line"] = winnerRows[r]["line"]
      BY <1>0, <2>1 DEF SaveWinners, WinType
    <3>3. /\ DOMAIN winnerRows'[q]["line"] = {1} /\ winnerRows'[q]["line"][1] = w
          /\ Len(winnerRows'[q]["line"]) <= 1
      BY <3>1
    <3>4. LineWonOnce'
      <4>1. ASSUME NEW r \in Rooms PROVE Len(winnerRows'[r]["line"]) <= 1
        <5>1. CASE r = q
          BY <3>3, <5>1
        <5>2. CASE r # q
          BY <3>2, <5>2 DEF LineWonOnce
        <5> QED
          BY <5>1, <5>2
      <4> QED
        BY <4>1 DEF LineWonOnce
    <3>5. w \subseteq LineCards(Held(q)', Drawn(q)')
      BY <1>1, <2>1
    <3> QED
      BY <1>1, <3>2, <3>3, <3>4, <3>5 DEF WinnersHoldCompletedCards, LineCards, FullCards
  <2> QED
    BY <2>2, <2>3
<1>4. ASSUME NEW q \in Rooms, checkFullWinners(q)
      PROVE  WinnersHoldCompletedCards' /\ LineWonOnce'
  <2>1. PICK w : /\ SaveWinners(q, "full", w)
                 /\ w \subseteq FullCards(Held(q), Drawn(q))
    BY <1>4 DEF checkFullWinners, FullWinners, OnePerUser
  <2>2. w \in CardsHeld
    BY <2>1 DEF FullCards, Held, CardsHeld, TypeOK
  <2>3. \A r \in Rooms : winnerRows'[r]["line"] = winnerRows[r]["line"]
    BY <1>0, <2>1 DEF SaveWinners, WinType
  <2>4. \A r \in Rooms : \A i \in DOMAIN winnerRows'[r]["full"] :
            \/ i \in DOMAIN winnerRows[r]["full"] /\ winnerRows'[r]["full"][i] = winnerRows[r]["full"][i]
            \/ r = q /\ winnerRows'[r]["full"][i] = w
    BY <1>0, <2>1, <2>2 DEF SaveWinners, WinType
  <2> QED
    BY <1>1, <2>1, <2>3, <2>4 DEF WinnersHoldCompletedCards, LineWonOnce, LineCards, FullCards
<1> QED
  BY <1>2, <1>3, <1>4, WinnerWrites

-----------------------------------------------------------------------------
\* TypeOK is inductive by itself.
THEOREM TypeCorrect == Spec => []TypeOK
<1>1. Init => TypeOK
  BY InitTyped
<1> QED
  BY <1>1, TypeStep, PTL DEF Spec

\* Nobody has won and nothing is finished in the empty database.
LEMMA InitWinners == Init => WinnerInv
  BY DEF Init, WinnerInv, WinnersHoldCompletedCards, LineWonOnce, FinishedRoomsHaveAWinner,
     FinishAnnounced, Unloaded, Idle, SyncIdle, WinType

\* The invariant of winning is inductive relative to TypeOK.
LEMMA WinnerInvStep == TypeOK /\ WinnerInv /\ [Next]_vars => WinnerInv'
<1> SUFFICES ASSUME TypeOK, WinnerInv, [Next]_vars PROVE WinnerInv'
  OBVIOUS
<1>1. CASE Next
  BY <1>1, WinnersStep, FinishStep DEF WinnerInv
<1>2. CASE UNCHANGED vars
  BY <1>2 DEF vars, WinnerInv, WinnersHoldCompletedCards, LineWonOnce, FinishAnnounced,
     FinishedRoomsHaveAWinner, LineCards, FullCards, Held, Drawn
<1> QED
  BY <1>1, <1>2

\* The invariant of winning holds in every reachable state.
THEOREM WinnersCorrect == Spec => []WinnerInv
  BY TypeCorrect, InitWinners, WinnerInvStep, PTL DEF Spec

\* Every winner row, at any moment and through any faults, names a card its
\* user holds in the room and that the drawn numbers complete (rooms.service.ts
\* checkLineWinners and checkFullWinners).
THEOREM WinnersHoldTheirCards == Spec => []WinnersHoldCompletedCards
<1>1. WinnerInv => WinnersHoldCompletedCards
  BY DEF WinnerInv
<1> QED
  BY <1>1, WinnersCorrect, PTL

\* The line of a room is won once.
THEOREM LineIsWonOnce == Spec => []LineWonOnce
<1>1. WinnerInv => LineWonOnce
  BY DEF WinnerInv
<1> QED
  BY <1>1, WinnersCorrect, PTL

\* FINISHED is never written for a room nobody has won.
THEOREM FinishedMeansWon == Spec => []FinishedRoomsHaveAWinner
<1>1. WinnerInv => FinishedRoomsHaveAWinner
  BY DEF WinnerInv
<1> QED
  BY <1>1, WinnersCorrect, PTL

\* Cards and numbers stay dealt and drawn through every fault and restart.
THEOREM GameOnlyGrows == Spec => NothingIsTakenBack
<1>1. TypeOK /\ [Next]_vars =>
        [\A r \in Rooms : Held(r) \subseteq Held(r)' /\ Drawn(r) \subseteq Drawn(r)']_vars
  BY NothingTakenBack
<1> QED
  BY <1>1, TypeCorrect, PTL DEF Spec, NothingIsTakenBack

-----------------------------------------------------------------------------
(***************************************************************************)
(* How the shuffled deck is dealt, for every list of reservations and      *)
(* every deck.  CardIndex is a recursive function; what it computes is     *)
(* proved by looking at the first position where it would be wrong.        *)
(***************************************************************************)
\* f is the index up to the m-th reservation.
IsIndex(f, m, rs, size) ==
    f = [i \in 0..m |-> IF i = 0 THEN 0
                        ELSE f[i-1] + Smaller(rs[i].cardCount, size - f[i-1])]

\* Every prefix of the reservations has an index.
LEMMA IndexExists ==
    ASSUME NEW rs, NEW size, NEW n \in Nat
    PROVE  \E f : IsIndex(f, n, rs, size)
<1> DEFINE Bad == {m \in Nat : ~ \E f : IsIndex(f, m, rs, size)}
<1> SUFFICES ASSUME Bad # {} PROVE FALSE
  OBVIOUS
<1>1. PICK b \in Bad : \A m \in Bad : b <= m
  BY SmallestExists
<1>2. b \in Nat /\ ~ \E f : IsIndex(f, b, rs, size)
  OBVIOUS
<1>3. b # 0
  <2>1. IsIndex([i \in 0..0 |-> 0], 0, rs, size)
    BY DEF IsIndex
  <2> QED
    BY <1>2, <2>1
<1>4. b - 1 \in Nat /\ b - 1 \notin Bad
  BY <1>1, <1>2, <1>3
<1>5. PICK f : IsIndex(f, b - 1, rs, size)
  BY <1>4
<1> DEFINE last == f[b-1] + Smaller(rs[b].cardCount, size - f[b-1])
           g == [i \in 0..b |-> IF i = b THEN last ELSE f[i]]
<1> HIDE DEF Bad
<1>6. ASSUME NEW i \in 0..b
      PROVE  g[i] = IF i = 0 THEN 0 ELSE g[i-1] + Smaller(rs[i].cardCount, size - g[i-1])
  <2>1. CASE i = b
    <3>1. g[i-1] = f[b-1] /\ g[i] = last
      BY <1>2, <1>3, <2>1
    <3> QED
      BY <1>3, <2>1, <3>1
  <2>2. CASE i # b
    <3>1. i \in 0..(b-1)
      BY <1>2, <2>2
    <3>2. f[i] = IF i = 0 THEN 0 ELSE f[i-1] + Smaller(rs[i].cardCount, size - f[i-1])
      BY <1>5, <3>1 DEF IsIndex
    <3>3. g[i] = f[i] /\ (i # 0 => g[i-1] = f[i-1])
      BY <1>2, <2>2
    <3> QED
      BY <3>2, <3>3
  <2> QED
    BY <2>1, <2>2
<1>7. IsIndex(g, b, rs, size)
  BY <1>6 DEF IsIndex
<1> QED
  BY <1>2, <1>7

\* CardIndex obeys its own equation.
LEMMA IndexEquation ==
    ASSUME NEW rs, NEW size, Len(rs) \in Nat
    PROVE  IsIndex(CardIndex(rs, size), Len(rs), rs, size)
<1>1. \E f : IsIndex(f, Len(rs), rs, size)
  BY IndexExists
<1> QED
  BY <1>1 DEF CardIndex, IsIndex

\* One reservation moves the index on, if there is anything left to deal.
LEMMA NextIndex ==
    ASSUME NEW size \in Nat, NEW x \in 0..size, NEW count \in Nat \ {0}
    PROVE  /\ x + Smaller(count, size - x) \in 0..size
           /\ x <= x + Smaller(count, size - x)
           /\ x < size => x < x + Smaller(count, size - x)
  BY DEF Smaller

\* An index grows with the reservations and never leaves the deck.
LEMMA IndexIsMonotone ==
    ASSUME NEW R, \A x \in R : x.cardCount \in Nat \ {0}, NEW rs \in Seq(R), NEW size \in Nat
    PROVE  /\ \A i \in 0..Len(rs) : CardIndex(rs, size)[i] \in 0..size
           /\ \A i \in 1..Len(rs) :
                /\ CardIndex(rs, size)[i-1] <= CardIndex(rs, size)[i]
                /\ CardIndex(rs, size)[i-1] < size =>
                        CardIndex(rs, size)[i-1] < CardIndex(rs, size)[i]
           /\ CardIndex(rs, size)[0] = 0
<1> DEFINE index == CardIndex(rs, size)
<1>0. Len(rs) \in Nat /\ DOMAIN rs = 1..Len(rs)
  OBVIOUS
<1>1. IsIndex(index, Len(rs), rs, size)
  BY IndexEquation
<1> HIDE DEF index
<1>2. index[0] = 0
  BY <1>0, <1>1 DEF IsIndex
<1>3. ASSUME NEW i \in 1..Len(rs)
      PROVE  index[i] = index[i-1] + Smaller(rs[i].cardCount, size - index[i-1])
  <2>1. i \in 0..Len(rs) /\ i # 0
    BY <1>0
  <2> QED
    BY <1>1, <2>1 DEF IsIndex
<1>4. ASSUME NEW i \in 1..Len(rs) PROVE rs[i].cardCount \in Nat \ {0}
  <2>1. rs[i] \in R
    BY <1>0
  <2> QED
    BY <2>1
<1>5. ASSUME NEW i \in 1..Len(rs), index[i-1] \in 0..size
      PROVE  /\ index[i] \in 0..size /\ index[i-1] <= index[i]
             /\ index[i-1] < size => index[i-1] < index[i]
  BY <1>3, <1>4, <1>5, NextIndex
<1> DEFINE Bad == {i \in 0..Len(rs) : index[i] \notin 0..size}
<1>6. Bad = {}
  <2> SUFFICES ASSUME Bad # {} PROVE FALSE
    OBVIOUS
  <2>0. Bad \in SUBSET Nat
    BY <1>0
  <2>1. PICK b \in Bad : \A i \in Bad : b <= i
    BY <2>0, SmallestExists
  <2>2. b \in 1..Len(rs) /\ b - 1 \in 0..Len(rs)
    <3>1. b \in 0..Len(rs) /\ index[b] \notin 0..size
      OBVIOUS
    <3>2. b # 0
      BY <1>2, <3>1
    <3> QED
      BY <1>0, <3>1, <3>2
  <2>3. index[b-1] \in 0..size
    BY <2>1, <2>2
  <2> QED
    BY <1>5, <2>2, <2>3
<1>7. \A i \in 0..Len(rs) : index[i] \in 0..size
  BY <1>6
<1>8. \A i \in 1..Len(rs) :
        index[i-1] <= index[i] /\ (index[i-1] < size => index[i-1] < index[i])
  <2>1. \A i \in 1..Len(rs) : i - 1 \in 0..Len(rs)
    BY <1>0
  <2> QED
    BY <1>5, <1>7, <2>1
<1> QED
  BY <1>2, <1>7, <1>8 DEF index

\* ... over any distance.
LEMMA IndexGrows ==
    ASSUME NEW R, \A x \in R : x.cardCount \in Nat \ {0}, NEW rs \in Seq(R), NEW size \in Nat,
           NEW i \in 0..Len(rs), NEW j \in 0..Len(rs), i <= j
    PROVE  CardIndex(rs, size)[i] <= CardIndex(rs, size)[j]
<1> DEFINE index == CardIndex(rs, size)
<1>1. /\ \A k \in 0..Len(rs) : index[k] \in 0..size
      /\ \A k \in 1..Len(rs) : index[k-1] <= index[k]
  BY IndexIsMonotone
<1> HIDE DEF index
<1>0. Len(rs) \in Nat
  OBVIOUS
<1> DEFINE Bad == {k \in i..Len(rs) : ~ (index[i] <= index[k])}
<1>2. Bad = {}
  <2> SUFFICES ASSUME Bad # {} PROVE FALSE
    OBVIOUS
  <2>0. Bad \in SUBSET Nat
    BY <1>0
  <2>1. PICK b \in Bad : \A k \in Bad : b <= k
    BY <2>0, SmallestExists
  <2>b. b \in i..Len(rs) /\ ~ (index[i] <= index[b])
    OBVIOUS
  <2>2. b # i
    BY <1>1, <2>b
  <2>3. b - 1 \in i..Len(rs) /\ b \in 1..Len(rs) /\ b - 1 \in 0..Len(rs)
    BY <1>0, <2>2, <2>b
  <2>4. index[i] <= index[b-1]
    BY <2>1, <2>3
  <2>5. index[i] \in Int /\ index[b-1] \in Int /\ index[b] \in Int /\ index[b-1] <= index[b]
    BY <1>1, <2>3
  <2> QED
    BY <2>b, <2>4, <2>5
<1> QED
  BY <1>2 DEF index

\* A shuffle of the cards holds every card exactly once.
LEMMA ShufflesAreInjective ==
    ASSUME NEW deck \in Shuffles, NEW p \in DOMAIN deck, NEW q \in DOMAIN deck,
           deck[p] = deck[q]
    PROVE  p = q
<1>1. Cardinality(Cards) \in Nat
  BY CardsAssumption, FS_CardinalityType
<1>2. /\ IsFiniteSet(1..Cardinality(Cards))
      /\ Cardinality(1..Cardinality(Cards)) = Cardinality(Cards)
  BY <1>1, FS_Interval
<1>3. deck \in Surjection(1..Cardinality(Cards), Cards)
  BY DEF Shuffles, Surjection
<1>4. deck \in Injection(1..Cardinality(Cards), Cards)
  BY <1>2, <1>3, FS_SurjSameCardinalityImpliesInj
<1> QED
  BY <1>4 DEF Shuffles, Injection, IsInjective

\* The deck that is dealt has as many positions as there are cards.
LEMMA DeckSize ==
    ASSUME NEW deck \in Shuffles
    PROVE  Len(deck) \in Nat /\ DOMAIN deck = 1..Len(deck)
<1>1. Cardinality(Cards) \in Nat
  BY CardsAssumption, FS_CardinalityType
<1>2. deck \in Seq(Cards)
  BY <1>1 DEF Shuffles
<1> QED
  BY <1>1, <1>2 DEF Shuffles

\* However the deck is shuffled and whoever reserves what, a card is dealt to
\* one user only (auto-timer.service.ts distributeCardsToUsers).
THEOREM CardsGoToOneUser ==
    ASSUME NEW R, \A x \in R : x.cardCount \in Nat \ {0}, NEW rs \in Seq(R), NEW deck \in Shuffles,
           NEW h \in Dealt(rs, deck), NEW k \in Dealt(rs, deck), h[2] = k[2]
    PROVE  h[1] = k[1]
<1> DEFINE index == CardIndex(rs, Len(deck))
<1>1. Len(deck) \in Nat /\ DOMAIN deck = 1..Len(deck)
  BY DeckSize
<1>2. /\ \A i \in 0..Len(rs) : index[i] \in 0..Len(deck)
      /\ \A i \in 0..Len(rs), j \in 0..Len(rs) : i <= j => index[i] <= index[j]
  BY <1>1, IndexIsMonotone, IndexGrows
<1>pos. ASSUME NEW d \in Dealt(rs, deck)
        PROVE  \E i \in 1..Len(rs), p \in DOMAIN deck :
                    index[i-1] < p /\ p <= index[i] /\ d = <<rs[i].user, deck[p]>>
  <2>1. PICK i \in DOMAIN rs :
            d \in {<<rs[i].user, deck[p]>> : p \in {q \in DOMAIN deck :
                                                    index[i-1] < q /\ q <= index[i]}}
    BY DEF Dealt
  <2> QED
    BY <2>1
<1>3. PICK i \in 1..Len(rs), p \in DOMAIN deck :
        index[i-1] < p /\ p <= index[i] /\ h = <<rs[i].user, deck[p]>>
  BY <1>pos
<1>4. PICK j \in 1..Len(rs), q \in DOMAIN deck :
        index[j-1] < q /\ q <= index[j] /\ k = <<rs[j].user, deck[q]>>
  BY <1>pos
<1> HIDE DEF index
<1>5. p = q
  BY <1>3, <1>4, ShufflesAreInjective
<1>6. ASSUME NEW a \in 1..Len(rs), NEW b \in 1..Len(rs), index[a-1] < p, p <= index[a],
             index[b-1] < p, p <= index[b]
      PROVE  ~ (a < b)
  <2> SUFFICES ASSUME a < b PROVE FALSE
    OBVIOUS
  <2>1. a \in 0..Len(rs) /\ b - 1 \in 0..Len(rs) /\ a <= b - 1
    OBVIOUS
  <2>2. index[a] <= index[b-1] /\ index[a] \in Int /\ index[b-1] \in Int /\ p \in Int
    BY <1>1, <1>2, <2>1
  <2> QED
    BY <1>6, <2>2
<1>7. i = j
  BY <1>3, <1>4, <1>5, <1>6
<1> QED
  BY <1>3, <1>4, <1>7

\* Each user who has reserved is dealt a card, or the whole deck is dealt: a
\* short deck leaves nobody without while there are cards left, and an empty
\* one has none to deal.
THEOREM WhoeverReservedIsServed ==
    ASSUME NEW R, \A x \in R : x.cardCount \in Nat \ {0}, NEW rs \in Seq(R), NEW deck \in Shuffles,
           NEW u \in Buyers(rs)
    PROVE  Served(u, Dealt(rs, deck))
<1> DEFINE index == CardIndex(rs, Len(deck))
           n == Len(rs)
<1>1. Len(deck) \in Nat /\ DOMAIN deck = 1..Len(deck)
  BY DeckSize
<1>2. /\ \A i \in 0..n : index[i] \in 0..Len(deck)
      /\ \A i \in 1..n : index[i-1] < Len(deck) => index[i-1] < index[i]
      /\ \A i \in 0..n, j \in 0..n : i <= j => index[i] <= index[j]
      /\ index[0] = 0
  BY <1>1, IndexIsMonotone, IndexGrows
<1>3. PICK i \in 1..n : rs[i].user = u
  BY DEF Buyers
<1> DEFINE slice(m) == {q \in DOMAIN deck : index[m-1] < q /\ q <= index[m]}
           Piece(m) == {<<rs[m].user, deck[q]>> : q \in slice(m)}
<1>d. Dealt(rs, deck) = UNION {Piece(m) : m \in DOMAIN rs}
  BY DEF Dealt
<1> HIDE DEF index
<1>4. ASSUME NEW j \in 1..n, NEW k \in DOMAIN deck, index[j-1] < k, k <= index[j]
      PROVE  <<rs[j].user, deck[k]>> \in Dealt(rs, deck)
  <2>1. j \in DOMAIN rs /\ k \in slice(j)
    BY <1>4
  <2>2. <<rs[j].user, deck[k]>> \in Piece(j)
    BY <2>1
  <2> HIDE DEF Piece
  <2> QED
    BY <1>d, <2>1, <2>2
<1>5. i - 1 \in 0..n /\ i \in 0..n /\ n \in 0..n
  OBVIOUS
<1>6. CASE index[i-1] < Len(deck)
  <2>1. index[i] \in DOMAIN deck /\ index[i-1] < index[i] /\ index[i] <= index[i]
    BY <1>1, <1>2, <1>5, <1>6
  <2>2. <<u, deck[index[i]]>> \in Dealt(rs, deck)
    BY <1>3, <1>4, <2>1
  <2> QED
    BY <2>2 DEF Served
<1>7. CASE ~ (index[i-1] < Len(deck))
  <2>1. index[n] = Len(deck)
    <3>1. index[i-1] \in 0..Len(deck) /\ index[n] \in 0..Len(deck)
      BY <1>2, <1>5
    <3>2. n \in Nat /\ i - 1 <= n
      OBVIOUS
    <3>3. index[i-1] <= index[n]
      BY <1>2, <1>5, <3>2
    <3> QED
      BY <1>1, <1>7, <3>1, <3>3
  <2>2. ASSUME NEW c \in Cards PROVE \E h \in Dealt(rs, deck) : h[2] = c
    <3>1. PICK k \in DOMAIN deck : deck[k] = c
      BY DEF Shuffles
    <3> DEFINE Reach == {j \in 0..n : k <= index[j]}
    <3>2. n \in Reach /\ Reach \in SUBSET Nat
      BY <1>1, <1>5, <2>1
    <3>3. PICK j \in Reach : \A m \in Reach : j <= m
      <4> HIDE DEF Reach
      <4> QED
        BY <3>2, SmallestExists
    <3>4. j \in 0..n /\ k <= index[j] /\ j # 0
      BY <1>1, <1>2, <3>3
    <3>5. j \in 1..n /\ j - 1 \in 0..n /\ j - 1 \notin Reach
      BY <3>3, <3>4
    <3>6. index[j-1] < k
      BY <1>1, <1>2, <3>5
    <3> QED
      BY <1>4, <3>1, <3>4, <3>5, <3>6
  <2>3. ASSUME NEW h \in Dealt(rs, deck) PROVE h[2] \in Cards
    <3>1. PICK j \in DOMAIN rs, k \in DOMAIN deck : h = <<rs[j].user, deck[k]>>
      BY DEF Dealt
    <3> QED
      BY <3>1 DEF Shuffles
  <2> QED
    BY <2>2, <2>3 DEF Served
<1> QED
  BY <1>6, <1>7

\* n numbered places of one room are n places.
LEMMA PlacesAreCounted ==
    ASSUME NEW r, NEW n \in Nat
    PROVE  Cardinality({<<r, i>> : i \in 1..n}) = n
<1> DEFINE mine == {<<r, i>> : i \in 1..n}
           f == [i \in 1..n |-> <<r, i>>]
<1>1. IsFiniteSet(1..n) /\ Cardinality(1..n) = n
  BY FS_Interval
<1>2. f \in Injection(1..n, mine)
  BY DEF Injection, IsInjective
<1>3. f \in Surjection(1..n, mine)
  BY DEF Surjection
<1>4. ExistsBijection(1..n, mine)
  BY <1>2, <1>3 DEF ExistsBijection, Bijection
<1> QED
  BY <1>1, <1>4, FS_Bijection

-----------------------------------------------------------------------------
(***************************************************************************)
(* The reference definitions of BingoCards.                                *)
(***************************************************************************)
\* A line or a card is complete when all its numbers are drawn, for every card
\* and every set of numbers (rooms.service.ts isLineComplete, isCardComplete).
THEOREM WinningIsByNumbers ==
    ASSUME NEW matrix \in Seq(Seq(Nat)), NEW drawn
    PROVE  CompletedByNumbers(matrix, drawn)
<1>1. ASSUME NEW i \in DOMAIN matrix
      PROVE  Covered(matrix[i], drawn) <=> RowNumbers(matrix[i]) \subseteq drawn
  <2>1. matrix[i] \in Seq(Nat)
    OBVIOUS
  <2> DEFINE row == matrix[i]
  <2>2. \A j \in DOMAIN row : row[j] \in Nat
    BY <2>1
  <2> HIDE DEF row
  <2>3. \A j \in DOMAIN row : row[j] <= 0 <=> row[j] = 0
    BY <2>2
  <2>4. Covered(row, drawn) <=> RowNumbers(row) \subseteq drawn
    BY <2>3 DEF Covered, RowNumbers
  <2> QED
    BY <2>4 DEF row
<1> QED
  BY <1>1 DEF CompletedByNumbers, isLineComplete, isCardComplete

(***************************************************************************)
(* Dealing.  Who has asked for which card: what every reservation asks     *)
(* for, joined (FlattenSeq).  cardIndex is how much that is, up to the     *)
(* end of the deck.                                                        *)
(***************************************************************************)
\* f joins the sequences of seqs up to the m-th.
IsJoined(f, seqs, m) ==
    f = [i \in 1..m |-> IF i = 1 THEN seqs[i] ELSE f[i-1] \o seqs[i]]

\* Every prefix of a sequence of sequences can be joined.
LEMMA JoinedExists ==
    ASSUME NEW seqs, NEW n \in Nat
    PROVE  \E f : IsJoined(f, seqs, n)
<1> DEFINE Bad == {m \in Nat : ~ \E f : IsJoined(f, seqs, m)}
<1> SUFFICES ASSUME Bad # {} PROVE FALSE
  OBVIOUS
<1>1. PICK b \in Bad : \A m \in Bad : b <= m
  BY SmallestExists
<1>2. b \in Nat /\ ~ \E f : IsJoined(f, seqs, b)
  OBVIOUS
<1>3. b # 0
  <2> DEFINE g == [i \in 1..0 |-> seqs[i]]
  <2>1. g = [i \in 1..0 |-> IF i = 1 THEN seqs[i] ELSE g[i-1] \o seqs[i]]
    OBVIOUS
  <2>2. IsJoined(g, seqs, 0)
    BY <2>1 DEF IsJoined
  <2> QED
    BY <1>2, <2>2
<1>4. b - 1 \in Nat /\ b - 1 \notin Bad
  BY <1>1, <1>2, <1>3
<1>5. PICK f : IsJoined(f, seqs, b - 1)
  BY <1>4
<1> DEFINE last == IF b = 1 THEN seqs[b] ELSE f[b-1] \o seqs[b]
           g == [i \in 1..b |-> IF i = b THEN last ELSE f[i]]
<1> HIDE DEF Bad
<1>6. ASSUME NEW i \in 1..b
      PROVE  g[i] = IF i = 1 THEN seqs[i] ELSE g[i-1] \o seqs[i]
  <2>1. CASE i = b
    <3>1. g[i] = last /\ (i # 1 => g[i-1] = f[b-1])
      BY <1>2, <1>3, <2>1
    <3> QED
      BY <2>1, <3>1
  <2>2. CASE i # b
    <3>1. i \in 1..(b-1)
      BY <1>2, <2>2
    <3>2. f[i] = IF i = 1 THEN seqs[i] ELSE f[i-1] \o seqs[i]
      BY <1>5, <3>1 DEF IsJoined
    <3>3. g[i] = f[i] /\ (i # 1 => g[i-1] = f[i-1])
      BY <1>2, <2>2
    <3> QED
      BY <3>2, <3>3
  <2> QED
    BY <2>1, <2>2
<1>7. IsJoined(g, seqs, b)
  BY <1>6 DEF IsJoined
<1> QED
  BY <1>2, <1>7

\* The cards each reservation asks for, as a sequence of its user.
Asked(rs) == [i \in DOMAIN rs |-> [k \in 1..rs[i].cardCount |-> rs[i].user]]

\* Who has asked for which card is found by joining.
LEMMA WantedIsJoined ==
    ASSUME NEW R, NEW rs \in Seq(R), rs # <<>>
    PROVE  \E f : IsJoined(f, Asked(rs), Len(rs)) /\ Wanted(rs) = f[Len(rs)]
<1>0. Len(rs) \in Nat \ {0} /\ Len(Asked(rs)) = Len(rs)
  BY DEF Asked
<1> DEFINE Joins(f) == f = [i \in 1..Len(Asked(rs)) |->
                                IF i = 1 THEN Asked(rs)[i] ELSE f[i-1] \o Asked(rs)[i]]
           h == CHOOSE f : Joins(f)
<1>1. \E f : Joins(f)
  <2>1. PICK f : IsJoined(f, Asked(rs), Len(rs))
    BY <1>0, JoinedExists
  <2>2. Joins(f)
    BY <1>0, <2>1 DEF IsJoined
  <2> HIDE DEF Joins
  <2> QED
    BY <2>2
<1>2. Joins(h)
  <2> HIDE DEF Joins
  <2> QED
    BY <1>1
<1>3. IsJoined(h, Asked(rs), Len(rs))
  BY <1>0, <1>2 DEF IsJoined
<1>4. Wanted(rs) = Seqs!FlattenSeq(Asked(rs))
  BY DEF Wanted, Asked
<1>5. Seqs!FlattenSeq(Asked(rs)) = IF Len(Asked(rs)) = 0 THEN Asked(rs) ELSE h[Len(Asked(rs))]
  BY DEF Seqs!FlattenSeq
<1> HIDE DEF h
<1> QED
  BY <1>0, <1>3, <1>4, <1>5

\* How many cards the first i reservations ask for.
JoinedLength(f, i) == IF i = 0 THEN 0 ELSE Len(f[i])

\* The i-th reservation adds its cards, all for its user, to those before it.
JoinedAt(f, rs, i) ==
    /\ f[i] \in Seq({rs[j].user : j \in 1..Len(rs)})
    /\ JoinedLength(f, i) = JoinedLength(f, i-1) + rs[i].cardCount
    /\ \A k \in 1..JoinedLength(f, i-1) : f[i][k] = f[i-1][k]
    /\ \A k \in (JoinedLength(f, i-1) + 1)..JoinedLength(f, i) : f[i][k] = rs[i].user

\* c times the same element is a sequence of length c.
LEMMA RepeatedIsASequence ==
    ASSUME NEW U, NEW x \in U, NEW c \in Nat
    PROVE  /\ [k \in 1..c |-> x] \in Seq(U) /\ Len([k \in 1..c |-> x]) = c
           /\ \A k \in 1..c : [m \in 1..c |-> x][k] = x
  OBVIOUS

\* What joining two sequences gives.
LEMMA TwoJoined ==
    ASSUME NEW U, NEW p \in Seq(U), NEW q \in Seq(U)
    PROVE  /\ p \o q \in Seq(U) /\ Len(p \o q) = Len(p) + Len(q)
           /\ \A k \in 1..Len(p) : (p \o q)[k] = p[k]
           /\ \A k \in (Len(p) + 1)..(Len(p) + Len(q)) : (p \o q)[k] = q[k - Len(p)]
<1>1. p \o q \in Seq(U) /\ Len(p \o q) = Len(p) + Len(q)
  OBVIOUS
<1>2. \A k \in 1..Len(p) : (p \o q)[k] = p[k]
  OBVIOUS
<1>3. \A k \in (Len(p) + 1)..(Len(p) + Len(q)) : (p \o q)[k] = q[k - Len(p)]
  OBVIOUS
<1> QED
  BY <1>1, <1>2, <1>3

\* Each reservation adds its part.
LEMMA JoinedSteps ==
    ASSUME NEW R, \A x \in R : x.cardCount \in Nat \ {0}, NEW rs \in Seq(R),
           NEW f, IsJoined(f, Asked(rs), Len(rs))
    PROVE  \A i \in 1..Len(rs) : JoinedAt(f, rs, i)
<1> DEFINE U == {rs[j].user : j \in 1..Len(rs)}
           Bad == {i \in 1..Len(rs) : ~ JoinedAt(f, rs, i)}
<1>0. Len(rs) \in Nat /\ DOMAIN rs = 1..Len(rs)
  OBVIOUS
<1>1. ASSUME NEW i \in 1..Len(rs)
      PROVE  /\ rs[i].cardCount \in Nat \ {0}
             /\ Asked(rs)[i] \in Seq(U) /\ Len(Asked(rs)[i]) = rs[i].cardCount
             /\ \A k \in 1..rs[i].cardCount : Asked(rs)[i][k] = rs[i].user
  <2>1. rs[i] \in R
    BY <1>0
  <2>2. rs[i].cardCount \in Nat \ {0}
    BY <2>1
  <2>3. Asked(rs)[i] = [k \in 1..rs[i].cardCount |-> rs[i].user]
    BY <1>0 DEF Asked
  <2>4. rs[i].user \in U
    OBVIOUS
  <2> HIDE DEF U
  <2> QED
    BY <2>2, <2>3, <2>4, RepeatedIsASequence
<1>2. ASSUME NEW i \in 1..Len(rs)
      PROVE  f[i] = IF i = 1 THEN Asked(rs)[i] ELSE f[i-1] \o Asked(rs)[i]
  BY DEF IsJoined
<1> SUFFICES Bad = {}
  OBVIOUS
<1> SUFFICES ASSUME Bad # {} PROVE FALSE
  OBVIOUS
<1>3. PICK b \in Bad : \A i \in Bad : b <= i
  <2>1. Bad \in SUBSET Nat
    BY <1>0
  <2> HIDE DEF Bad
  <2> QED
    BY <2>1, SmallestExists
<1>4. b \in 1..Len(rs) /\ ~ JoinedAt(f, rs, b)
  OBVIOUS
<1>5. CASE b = 1
  <2>1. f[1] = Asked(rs)[1] /\ b - 1 = 0
    BY <1>2, <1>4, <1>5
  <2>2. JoinedLength(f, 0) = 0 /\ JoinedLength(f, 1) = rs[1].cardCount
    <3>1. Len(f[1]) = rs[1].cardCount
      BY <1>1, <1>4, <1>5, <2>1
    <3> QED
      BY <3>1 DEF JoinedLength
  <2>3. f[1] \in Seq(U) /\ rs[1].cardCount \in Nat
    BY <1>1, <1>4, <1>5, <2>1
  <2>4. \A k \in 1..rs[1].cardCount : f[1][k] = rs[1].user
    BY <1>1, <1>4, <1>5, <2>1
  <2>5. JoinedAt(f, rs, 1)
    <3>1. 1 - 1 = 0 /\ \A k : k \in 1..JoinedLength(f, 0) => FALSE
      BY <2>2
    <3> QED
      BY <2>2, <2>3, <2>4, <3>1 DEF JoinedAt
  <2> QED
    BY <1>4, <1>5, <2>5
<1>6. CASE b # 1
  <2>1. b - 1 \in 1..Len(rs) /\ b - 1 \notin Bad
    <3>1. b - 1 \in 1..Len(rs) /\ ~ (b <= b - 1)
      BY <1>0, <1>4, <1>6
    <3> HIDE DEF Bad
    <3> QED
      BY <1>3, <3>1
  <2>2. f[b-1] \in Seq(U)
    <3>1. JoinedAt(f, rs, b - 1)
      BY <2>1
    <3> QED
      BY <3>1 DEF JoinedAt
  <2>3. f[b] = f[b-1] \o Asked(rs)[b]
    BY <1>2, <1>4, <1>6
  <2> DEFINE p == f[b-1]
             q == Asked(rs)[b]
             c == rs[b].cardCount
  <2>4. p \in Seq(U) /\ q \in Seq(U) /\ Len(q) = c /\ c \in Nat
        /\ \A k \in 1..c : q[k] = rs[b].user
    BY <1>1, <1>4, <2>2
  <2>5. JoinedLength(f, b-1) = Len(p) /\ JoinedLength(f, b) = Len(f[b]) /\ f[b] = p \o q
    <3>1. b - 1 # 0 /\ b # 0
      BY <1>4, <1>6
    <3> QED
      BY <2>3, <3>1 DEF JoinedLength
  <2>6. f[b-1] = p /\ rs[b].cardCount = c
    OBVIOUS
  <2> HIDE DEF U, Bad, p, q, c
  <2>7. /\ p \o q \in Seq(U) /\ Len(p \o q) = Len(p) + c
        /\ \A k \in 1..Len(p) : (p \o q)[k] = p[k]
    BY <2>4, TwoJoined
  <2>8. \A k \in (Len(p) + 1)..(Len(p) + c) : (p \o q)[k] = rs[b].user
    <3> SUFFICES ASSUME NEW k \in (Len(p) + 1)..(Len(p) + c) PROVE (p \o q)[k] = rs[b].user
      OBVIOUS
    <3>1. Len(p) \in Nat /\ k - Len(p) \in 1..c
      BY <2>4
    <3>2. (p \o q)[k] = q[k - Len(p)]
      BY <2>4, TwoJoined
    <3> QED
      BY <2>4, <3>1, <3>2
  <2>9. JoinedAt(f, rs, b)
    BY <2>5, <2>6, <2>7, <2>8 DEF JoinedAt, U
  <2> QED
    BY <1>4, <2>9
<1> QED
  BY <1>5, <1>6

\* The k-th card asked for is asked for by the reservation it falls into.
LEMMA JoinedSlices ==
    ASSUME NEW R, \A x \in R : x.cardCount \in Nat \ {0}, NEW rs \in Seq(R),
           NEW f, IsJoined(f, Asked(rs), Len(rs)),
           NEW i \in 1..Len(rs), NEW j \in i..Len(rs),
           NEW k \in (JoinedLength(f, i-1) + 1)..JoinedLength(f, i)
    PROVE  /\ JoinedLength(f, i-1) \in Nat /\ JoinedLength(f, i) \in Nat
           /\ JoinedLength(f, j) \in Nat /\ JoinedLength(f, i) <= JoinedLength(f, j)
           /\ f[j][k] = rs[i].user
<1>0. Len(rs) \in Nat /\ i \in Nat
  OBVIOUS
<1>1. ASSUME NEW m \in 1..Len(rs)
      PROVE  /\ JoinedLength(f, m) = JoinedLength(f, m-1) + rs[m].cardCount
             /\ \A n \in 1..JoinedLength(f, m-1) : f[m][n] = f[m-1][n]
             /\ \A n \in (JoinedLength(f, m-1) + 1)..JoinedLength(f, m) : f[m][n] = rs[m].user
  <2>1. JoinedAt(f, rs, m)
    BY JoinedSteps
  <2> QED
    BY <2>1 DEF JoinedAt
<1>2. ASSUME NEW m \in 0..Len(rs) PROVE JoinedLength(f, m) \in Nat
  <2>1. CASE m = 0
    BY <2>1 DEF JoinedLength
  <2>2. CASE m # 0
    <3>1. m \in 1..Len(rs)
      BY <1>0, <2>2
    <3>2. JoinedAt(f, rs, m)
      BY <3>1, JoinedSteps
    <3>3. f[m] \in Seq({rs[l].user : l \in 1..Len(rs)})
      BY <3>2 DEF JoinedAt
    <3>4. Len(f[m]) \in Nat
      BY <3>3
    <3> QED
      BY <2>2, <3>4 DEF JoinedLength
  <2> QED
    BY <2>1, <2>2
<1>3. ASSUME NEW m \in 1..Len(rs) PROVE rs[m].cardCount \in Nat \ {0}
  <2>1. rs[m] \in R
    OBVIOUS
  <2> QED
    BY <2>1
<1> DEFINE Good(m) == JoinedLength(f, i) <= JoinedLength(f, m) /\ f[m][k] = rs[i].user
           Bad == {m \in i..Len(rs) : ~ Good(m)}
<1>4. Bad = {}
  <2> SUFFICES ASSUME Bad # {} PROVE FALSE
    OBVIOUS
  <2>1. PICK b \in Bad : \A m \in Bad : b <= m
    <3>1. Bad \in SUBSET Nat
      BY <1>0
    <3> HIDE DEF Bad
    <3> QED
      BY <3>1, SmallestExists
  <2>2. b \in i..Len(rs) /\ ~ Good(b)
    OBVIOUS
  <2>3. b # i
    <3>1. JoinedLength(f, i) \in Nat
      BY <1>0, <1>2
    <3>2. f[i][k] = rs[i].user
      BY <1>1
    <3>3. Good(i)
      BY <3>1, <3>2
    <3> QED
      BY <2>2, <3>3
  <2>4. b - 1 \in i..Len(rs) /\ b \in 1..Len(rs) /\ b - 1 \in 0..Len(rs) /\ b \in 0..Len(rs)
    BY <1>0, <2>2, <2>3
  <2>5. Good(b - 1)
    <3>1. b - 1 \notin Bad
      BY <2>1, <2>4
    <3> QED
      BY <2>4, <3>1
  <2>6. /\ JoinedLength(f, i) \in Nat /\ JoinedLength(f, i-1) \in Nat
        /\ JoinedLength(f, b-1) \in Nat /\ JoinedLength(f, b) \in Nat
    <3>1. i \in 0..Len(rs) /\ i - 1 \in 0..Len(rs)
      BY <1>0
    <3>2. \A m \in 0..Len(rs) : JoinedLength(f, m) \in Nat
      BY <1>2
    <3> QED
      BY <2>4, <3>1, <3>2
  <2>7. k \in 1..JoinedLength(f, b-1)
    BY <2>5, <2>6
  <2>8. f[b][k] = f[b-1][k]
    BY <1>1, <2>4, <2>7
  <2>9. JoinedLength(f, b) = JoinedLength(f, b-1) + rs[b].cardCount
    BY <1>1, <2>4
  <2>10. rs[b].cardCount \in Nat
    BY <1>3, <2>4
  <2>11. Good(b)
    BY <2>5, <2>6, <2>8, <2>9, <2>10
  <2> QED
    BY <2>2, <2>11
<1>5. Good(j)
  BY <1>4
<1>6. i \in 0..Len(rs) /\ i - 1 \in 0..Len(rs) /\ j \in 0..Len(rs)
  BY <1>0
<1>7. /\ JoinedLength(f, i-1) \in Nat /\ JoinedLength(f, i) \in Nat
      /\ JoinedLength(f, j) \in Nat
  BY <1>2, <1>6
<1>8. JoinedLength(f, i) <= JoinedLength(f, j) /\ f[j][k] = rs[i].user
  BY <1>5
<1> HIDE DEF Bad, Good
<1> QED
  BY <1>7, <1>8

\* cardIndex is what has been asked for, up to the end of the deck.
LEMMA IndexIsCapped ==
    ASSUME NEW R, \A x \in R : x.cardCount \in Nat \ {0}, NEW rs \in Seq(R), NEW size \in Nat,
           NEW f, IsJoined(f, Asked(rs), Len(rs)), NEW i \in 0..Len(rs)
    PROVE  /\ JoinedLength(f, i) \in Nat
           /\ CardIndex(rs, size)[i] = Smaller(JoinedLength(f, i), size)
<1> DEFINE index == CardIndex(rs, size)
<1>0. Len(rs) \in Nat
  OBVIOUS
<1>1. IsIndex(index, Len(rs), rs, size)
  BY <1>0, IndexEquation
<1> HIDE DEF index
<1>2. ASSUME NEW m \in 1..Len(rs)
      PROVE  /\ index[m] = index[m-1] + Smaller(rs[m].cardCount, size - index[m-1])
             /\ JoinedLength(f, m) = JoinedLength(f, m-1) + rs[m].cardCount
             /\ rs[m].cardCount \in Nat
  <2>1. m \in 0..Len(rs) /\ m # 0
    BY <1>0
  <2>2. index[m] = index[m-1] + Smaller(rs[m].cardCount, size - index[m-1])
    BY <1>1, <2>1 DEF IsIndex
  <2>3. rs[m] \in R
    OBVIOUS
  <2>4. JoinedAt(f, rs, m)
    BY JoinedSteps
  <2>5. rs[m].cardCount \in Nat
    BY <2>3
  <2> QED
    BY <2>2, <2>4, <2>5 DEF JoinedAt
<1>3. index[0] = 0
  BY <1>0, <1>1 DEF IsIndex
<1> DEFINE Good(m) == JoinedLength(f, m) \in Nat /\ index[m] = Smaller(JoinedLength(f, m), size)
           Bad == {m \in 0..Len(rs) : ~ Good(m)}
<1>4. Bad = {}
  <2> SUFFICES ASSUME Bad # {} PROVE FALSE
    OBVIOUS
  <2>1. PICK b \in Bad : \A m \in Bad : b <= m
    <3>1. Bad \in SUBSET Nat
      BY <1>0
    <3> HIDE DEF Bad
    <3> QED
      BY <3>1, SmallestExists
  <2>2. b \in 0..Len(rs) /\ ~ Good(b)
    OBVIOUS
  <2>3. b # 0
    <3>1. Good(0)
      BY <1>3 DEF JoinedLength, Smaller
    <3> QED
      BY <2>2, <3>1
  <2>4. b - 1 \in 0..Len(rs) /\ b \in 1..Len(rs)
    BY <1>0, <2>2, <2>3
  <2>5. Good(b - 1)
    <3>1. b - 1 \notin Bad
      BY <2>1, <2>4
    <3> QED
      BY <2>4, <3>1
  <2>6. Good(b)
    BY <1>2, <2>4, <2>5 DEF Smaller
  <2> QED
    BY <2>2, <2>6
<1> QED
  BY <1>4 DEF index

\* However long the deck is and whoever reserves what, the deck is dealt in the
\* order of the reservations (distributeCardsToUsers).
THEOREM DealingIsInOrder ==
    ASSUME NEW R, \A x \in R : x.cardCount \in Nat \ {0}, NEW rs \in Seq(R),
           NEW D, NEW deck \in Seq(D)
    PROVE  DealtInOrder(rs, deck)
<1>0. Len(rs) \in Nat /\ DOMAIN rs = 1..Len(rs) /\ Len(deck) \in Nat /\ DOMAIN deck = 1..Len(deck)
  OBVIOUS
<1>1. CASE rs = <<>>
  <2>1. DOMAIN rs = {}
    BY <1>1
  <2>2. Asked(rs) = <<>>
    BY <2>1 DEF Asked
  <2>3. Wanted(rs) = <<>>
    <3>1. Wanted(rs) = Seqs!FlattenSeq(Asked(rs))
      BY DEF Wanted, Asked
    <3>2. Len(Asked(rs)) = 0
      BY <2>2
    <3> QED
      BY <2>2, <3>1, <3>2 DEF Seqs!FlattenSeq
  <2>4. Dealt(rs, deck) = {}
    BY <2>1 DEF Dealt
  <2>5. DOMAIN Wanted(rs) = {}
    BY <2>3
  <2> QED
    BY <2>4, <2>5 DEF DealtInOrder
<1>2. CASE rs # <<>>
  <2> DEFINE n == Len(rs)
             index == CardIndex(rs, Len(deck))
             wanted == Wanted(rs)
  <2>1. PICK f : IsJoined(f, Asked(rs), n) /\ wanted = f[n]
    BY <1>2, WantedIsJoined
  <2> DEFINE asked(i) == JoinedLength(f, i)
  <2>2. n \in 1..n
    BY <1>0, <1>2
  <2>3. \A i \in 0..n : asked(i) \in Nat /\ index[i] = Smaller(asked(i), Len(deck))
    BY <1>0, <2>1, IndexIsCapped
  <2>4. DOMAIN wanted = 1..asked(n)
    <3>0. JoinedAt(f, rs, n)
      BY <2>1, <2>2, JoinedSteps
    <3>1. f[n] \in Seq({rs[j].user : j \in 1..n})
      BY <3>0 DEF JoinedAt
    <3>2. asked(n) = Len(f[n])
      BY <2>2 DEF JoinedLength
    <3> QED
      BY <2>1, <3>1, <3>2
  <2>5. ASSUME NEW i \in 1..n, NEW k \in (asked(i-1) + 1)..asked(i)
        PROVE  wanted[k] = rs[i].user /\ asked(i) <= asked(n)
    <3>1. n \in i..n
      BY <1>0
    <3> QED
      BY <2>1, <3>1, JoinedSlices
  <2>6. asked(0) = 0
    BY DEF JoinedLength
  <2> HIDE DEF index, wanted, asked
  <2>7. ASSUME NEW i \in 1..n, NEW k \in 1..Len(deck)
        PROVE  index[i-1] < k /\ k <= index[i] <=> k \in (asked(i-1) + 1)..asked(i)
    <3>1. i - 1 \in 0..n /\ i \in 0..n
      BY <1>0
    <3>2. /\ asked(i-1) \in Nat /\ index[i-1] = Smaller(asked(i-1), Len(deck))
          /\ asked(i) \in Nat /\ index[i] = Smaller(asked(i), Len(deck))
      BY <2>3, <3>1
    <3> QED
      BY <1>0, <3>2 DEF Smaller
  <2>8. Dealt(rs, deck) = UNION {{<<rs[i].user, deck[k]>> :
                                    k \in {m \in 1..Len(deck) : index[i-1] < m /\ m <= index[i]}} :
                                  i \in 1..n}
    BY <1>0 DEF Dealt, index
  <2>9. ASSUME NEW d \in Dealt(rs, deck)
        PROVE  d \in {<<wanted[k], deck[k]>> : k \in DOMAIN wanted \cap DOMAIN deck}
    <3>1. PICK i \in 1..n, k \in 1..Len(deck) :
            index[i-1] < k /\ k <= index[i] /\ d = <<rs[i].user, deck[k]>>
      BY <2>8
    <3>2. k \in (asked(i-1) + 1)..asked(i)
      BY <2>7, <3>1
    <3>3. wanted[k] = rs[i].user /\ asked(i) <= asked(n)
      BY <2>5, <3>2
    <3>4. k \in 1..asked(n)
      <4>1. i \in 0..n /\ n \in 0..n
        BY <1>0
      <4>2. asked(i) \in Nat /\ asked(n) \in Nat
        BY <2>3, <4>1
      <4> QED
        BY <3>2, <3>3, <4>2
    <3> QED
      BY <1>0, <2>4, <3>1, <3>3, <3>4
  <2>10. ASSUME NEW k \in DOMAIN wanted \cap DOMAIN deck
         PROVE  <<wanted[k], deck[k]>> \in Dealt(rs, deck)
    <3> DEFINE Reach == {i \in 0..n : k <= asked(i)}
    <3>1. k \in 1..asked(n) /\ k \in 1..Len(deck)
      BY <1>0, <2>4
    <3>2. n \in Reach /\ Reach \in SUBSET Nat
      BY <1>0, <2>2, <3>1
    <3>3. PICK i \in Reach : \A m \in Reach : i <= m
      <4> HIDE DEF Reach
      <4> QED
        BY <3>2, SmallestExists
    <3>4. i \in 0..n /\ k <= asked(i)
      BY <3>3
    <3>5. i # 0
      BY <2>6, <3>1, <3>4
    <3>6. i \in 1..n /\ i - 1 \in 0..n /\ i - 1 \notin Reach
      BY <1>0, <3>3, <3>4, <3>5
    <3>7. asked(i-1) \in Nat /\ asked(i) \in Nat /\ ~ (k <= asked(i-1))
      BY <2>3, <3>4, <3>6
    <3>8. k \in (asked(i-1) + 1)..asked(i)
      BY <3>1, <3>4, <3>7
    <3>9. wanted[k] = rs[i].user /\ index[i-1] < k /\ k <= index[i]
      BY <2>5, <2>7, <3>1, <3>6, <3>8
    <3>10. <<rs[i].user, deck[k]>>
              \in {<<rs[i].user, deck[m]>> :
                    m \in {l \in 1..Len(deck) : index[i-1] < l /\ l <= index[i]}}
      BY <3>1, <3>9
    <3>11. <<rs[i].user, deck[k]>> \in Dealt(rs, deck)
      <4> HIDE DEF Reach
      <4> QED
        BY <2>8, <3>6, <3>10
    <3> QED
      BY <3>9, <3>11
  <2>11. Dealt(rs, deck) = {<<wanted[k], deck[k]>> : k \in DOMAIN wanted \cap DOMAIN deck}
    <3>1. Dealt(rs, deck) \subseteq {<<wanted[k], deck[k]>> : k \in DOMAIN wanted \cap DOMAIN deck}
      BY <2>9
    <3>2. {<<wanted[k], deck[k]>> : k \in DOMAIN wanted \cap DOMAIN deck} \subseteq Dealt(rs, deck)
      BY <2>10
    <3> QED
      BY <3>1, <3>2
  <2> QED
    BY <2>11 DEF DealtInOrder, wanted
<1> QED
  BY <1>1, <1>2

=============================================================================
