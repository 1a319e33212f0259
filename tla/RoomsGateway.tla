------------------------------ MODULE RoomsGateway ------------------------------
(***************************************************************************)
(* RoomsGateway: the copy of the rooms that clients of the socket are      *)
(* answered from (roomsCache), the job that counts it down every second,   *)
(* and the job that brings it up to date with the tables every five.  The  *)
(* tables are whatever RoomRows allows, which the game engine implements.  *)
(*                                                                         *)
(* A step runs from one await to the next: each query is evaluated in a    *)
(* step of its own, and the countdown may run at any await of the sync.    *)
(* The values of one reservation are one player and one card.              *)
(*                                                                         *)
(* Bounds: those of RoomRows, and MaxFaults (failed queries, restarts).    *)
(***************************************************************************)
EXTENDS Integers, Sequences, FiniteSets, FiniteSetsExt, SequencesExt

CONSTANTS Rooms, Played, Numbers, WinTypes, Seconds, MaxReserved,
    MaxFaults

ASSUME RoomsAssumption == IsFiniteSet(Rooms)
ASSUME SecondsAssumption == Seconds \subseteq Int
ASSUME GatewayBounds == Played \subseteq Rooms /\ MaxReserved \in Nat /\ MaxFaults \in Nat

VARIABLES
    status, seconds, reserved, drawn, winners,      \* the tables
    cache,      \* roomsCache
    sync,       \* afterInit's first load, or the job syncWithDatabase
    faults

tables == <<status, seconds, reserved, drawn, winners>>
vars == <<status, seconds, reserved, drawn, winners, cache, sync, faults>>

Tables == INSTANCE RoomRows

-----------------------------------------------------------------------------
MaxCards == 30      \* of a room

ShownStatus == {"pending", "started"}

\* A row of getPendingRooms; the players are counted after the rooms are found.
PendingRoom ==
    [room : Rooms, status : ShownStatus, remainingSeconds : Seconds,
     playerCount : 0..MaxReserved]

Details ==
    [drawnNumbers : SUBSET Numbers, winners : SUBSET WinTypes, gameFinished : BOOLEAN,
     availableCards : Int]

RoomMemoryState ==
    [status : ShownStatus, remainingSeconds : Nat \cup Seconds,
     playerCount : 0..MaxReserved, details : Details]

NotCached == [status |-> "none"]

\* What a new entry shows until a sync fetches the details of its game.
NoDetails ==
    [drawnNumbers |-> {}, winners |-> {}, gameFinished |-> FALSE, availableCards |-> MaxCards]

Queries == {"drawn", "winners", "finished", "info"}

SyncState ==
    [job : {"load", "sync"}, at : {"idle", "find", "count", "merge", "details"},
     rooms : Seq(PendingRoom), counted : 0..Cardinality(Rooms), waiting : SUBSET Queries,
     details : Details]

\* Types of the tables and of the three variables of the gateway: a countdown is
\* below zero only if its row is.
TypeOK ==
    /\ Tables!TypeOK
    /\ cache \in [Rooms -> RoomMemoryState \cup {NotCached}]
    /\ sync \in SyncState
    /\ faults \in 0..MaxFaults

Job(job, step) ==
    [job |-> job, at |-> step, rooms |-> <<>>, counted |-> 0, waiting |-> {},
     details |-> NoDetails]

Idle == Job("sync", "idle")

Init ==
    /\ Tables!Init
    /\ cache = [r \in Rooms |-> NotCached]
    /\ sync = Job("load", "find")
    /\ faults = 0

-----------------------------------------------------------------------------
Cached == {r \in Rooms : cache[r] # NotCached}
Live == {r \in Rooms : status[r] \in ShownStatus}

Fails == faults < MaxFaults /\ faults' = faults + 1

\* The tables change under the gateway.
EngineStep == Tables!Next /\ UNCHANGED <<cache, sync, faults>>

\* Mutant: a room that is over counts on.
CountsDown_Negative(entry) == TRUE

CountsDown(entry) == entry.remainingSeconds > 0

\* The job decrementRemainingSeconds, which then emits the rooms of the cache.
decrementRemainingSeconds ==
    /\ sync.job = "sync"
    /\ cache' = [r \in Rooms |->
                    IF r \in Cached /\ CountsDown(cache[r])
                    THEN [cache[r] EXCEPT !.remainingSeconds = @ - 1] ELSE cache[r]]
    /\ UNCHANGED <<tables, sync, faults>>

-----------------------------------------------------------------------------
(***************************************************************************)
(* getPendingRooms: one query for the rooms, one more for the players of   *)
(* each.                                                                   *)
(***************************************************************************)
StartSync ==
    /\ sync = Idle
    /\ sync' = Job("sync", "find")
    /\ UNCHANGED <<tables, cache, faults>>

\* The rooms come sorted by entry fee: rooms of one fee in any order.
FindRooms ==
    /\ sync.at = "find"
    /\ \E order \in SetToSeqs(Live) :
        sync' = [sync EXCEPT
            !.at = IF Live = {} THEN "merge" ELSE "count",
            !.rooms = [i \in DOMAIN order |->
                [room |-> order[i], status |-> status[order[i]],
                 remainingSeconds |-> seconds[order[i]], playerCount |-> 0]]]
    /\ UNCHANGED <<tables, cache, faults>>

CountPlayers ==
    LET i == sync.counted + 1
    IN  /\ sync.at = "count"
        /\ sync' = [sync EXCEPT !.rooms[i].playerCount = reserved[sync.rooms[i].room],
                                !.counted = i,
                                !.at = IF i = Len(sync.rooms) THEN "merge" ELSE "count"]
        /\ UNCHANGED <<tables, cache, faults>>

\* The whole sync gives up, the cache stays; after a failed load it is empty.
FindFails ==
    /\ sync.at \in {"find", "count"}
    /\ Fails
    /\ sync' = Idle
    /\ UNCHANGED <<tables, cache>>

-----------------------------------------------------------------------------
(***************************************************************************)
(* loadInitialDataToCache and syncCacheWithDatabase, from await to await.  *)
(***************************************************************************)
NewEntry(row) ==
    [status |-> row.status, remainingSeconds |-> row.remainingSeconds,
     playerCount |-> row.playerCount, details |-> NoDetails]

\* The countdown of an entry goes on, unless it has ended.
Updated(entry, row) ==
    [entry EXCEPT !.status = row.status, !.playerCount = row.playerCount,
                  !.remainingSeconds = IF @ <= 0 THEN row.remainingSeconds ELSE @]

Merged(entries, row) ==
    IF entries[row.room] = NotCached THEN NewEntry(row) ELSE Updated(entries[row.room], row)

\* Mutant: the details are fetched for every room.
NeedsDetails_Always(entries, row) == sync.job = "load" \/ entries[row.room] # NotCached

\* The load fetches the details of every started room, the sync only of those
\* that it has met before.
NeedsDetails(entries, row) ==
    /\ row.status = "started"
    /\ sync.job = "load" \/ entries[row.room] # NotCached

\* Goes through the rooms up to the first whose details it has to wait for.
\* The load adds that one to the cache when they have come.
Proceed(entries, rows) ==
    LET waits == {i \in DOMAIN rows : NeedsDetails(entries, rows[i])}
        last == IF waits = {} THEN Len(rows) ELSE Min(waits)
        merged == {rows[i] : i \in {k \in 1..last : sync.job = "load" => k \notin waits}}
    IN  /\ cache' = [r \in Rooms |-> IF \E row \in merged : row.room = r
                                     THEN Merged(entries, CHOOSE row \in merged : row.room = r)
                                     ELSE entries[r]]
        /\ sync' = IF waits = {} THEN Idle
                   ELSE [sync EXCEPT !.at = "details", !.rooms = SubSeq(rows, last, Len(rows)),
                                     !.counted = 0, !.details = NoDetails,
                                     !.waiting = {"drawn", "winners", "info"}]

\* Mutant: rooms that are gone stay in the cache.
Pruned_Nothing == cache

Pruned ==
    [r \in Rooms |-> IF \E i \in DOMAIN sync.rooms : sync.rooms[i].room = r
                     THEN cache[r] ELSE NotCached]

MergeRooms ==
    /\ sync.at = "merge"
    /\ Proceed(Pruned, sync.rooms)
    /\ UNCHANGED <<tables, faults>>

\* The sync sends its queries together, the load one after the other; the two
\* queries of getWinners always follow each other.
Waiting(query) ==
    /\ sync.at = "details" /\ query \in sync.waiting
    /\ sync.job = "load" => /\ query = "winners" => "drawn" \notin sync.waiting
                            /\ query = "info" => sync.waiting = {"info"}

Answer(query, next, details) ==
    /\ Waiting(query)
    /\ sync' = [sync EXCEPT !.waiting = (@ \ {query}) \cup next, !.details = details]
    /\ UNCHANGED <<tables, cache, faults>>

Asked == sync.rooms[1].room

getDrawnNumbers ==
    Answer("drawn", {}, [sync.details EXCEPT !.drawnNumbers = drawn[Asked]])

FindWinners ==
    Answer("winners", {"finished"}, [sync.details EXCEPT !.winners = winners[Asked]])

\* Mutant: whatever is not started is finished.
Finished_NotStarted(r) == status[r] # "started"

Finished(r) == status[r] = "finished"

FindFinished ==
    Answer("finished", {}, [sync.details EXCEPT !.gameFinished = Finished(Asked)])

getRoomInfo ==
    Answer("info", {}, [sync.details EXCEPT !.availableCards = MaxCards - reserved[Asked]])

\* getWinners swallows an error and answers that nobody has won.
WinnersFail ==
    /\ Waiting("winners") \/ Waiting("finished")
    /\ Fails
    /\ sync' = [sync EXCEPT !.waiting = @ \ {"winners", "finished"},
                            !.details.winners = {}, !.details.gameFinished = FALSE]
    /\ UNCHANGED <<tables, cache>>

\* Mutant: the answers are dropped.
WithDetails_Forgotten(entry, details) == entry

WithDetails(entry, details) == [entry EXCEPT !.details = details]

\* The entry as the load or the sync leaves it; then the rooms that follow.
FinishRoom(details) ==
    LET row == sync.rooms[1]
        entry == IF sync.job = "load" THEN NewEntry(row) ELSE cache[row.room]
    IN  Proceed([cache EXCEPT ![row.room] = WithDetails(entry, details)], Tail(sync.rooms))

ApplyDetails ==
    /\ sync.at = "details" /\ sync.waiting = {}
    /\ FinishRoom(sync.details)
    /\ UNCHANGED <<tables, faults>>

\* An error of the other two queries: the load keeps what it has assigned
\* already, the sync none of it.
DetailsFail ==
    /\ Waiting("drawn") \/ Waiting("info")
    /\ Fails
    /\ FinishRoom(IF sync.job = "load" THEN sync.details ELSE cache[Asked].details)
    /\ UNCHANGED tables

-----------------------------------------------------------------------------
(***************************************************************************)
(* What a client that asks now is answered: from the cache if the room is  *)
(* in it, else from the tables.                                            *)
(***************************************************************************)
activeRoomGlobal == {r \in Cached : cache[r].status \in ShownStatus}

roomInfo(r) ==
    IF r \in Cached
    THEN [status |-> cache[r].status, playerCount |-> cache[r].playerCount,
          availableCards |-> cache[r].details.availableCards]
    ELSE [status |-> status[r], playerCount |-> reserved[r],
          availableCards |-> MaxCards - reserved[r]]

numberDrawn(r) == IF r \in Cached THEN cache[r].details.drawnNumbers ELSE drawn[r]

win(r) ==
    IF r \in Cached
    THEN [winners |-> cache[r].details.winners, gameFinished |-> cache[r].details.gameFinished]
    ELSE [winners |-> winners[r], gameFinished |-> Finished(r)]

-----------------------------------------------------------------------------
Restart ==
    /\ Fails
    /\ cache' = [r \in Rooms |-> NotCached]
    /\ sync' = Job("load", "find")
    /\ UNCHANGED tables

SyncStep ==
    \/ StartSync \/ FindRooms \/ CountPlayers \/ FindFails \/ MergeRooms
    \/ getDrawnNumbers \/ FindWinners \/ FindFinished \/ getRoomInfo \/ WinnersFail
    \/ ApplyDetails \/ DetailsFail

Next ==
    \/ EngineStep
    \/ decrementRemainingSeconds
    \/ SyncStep
    \/ Restart

Spec == Init /\ [][Next]_vars

\* SocketScheduler runs the job for ever and every query is answered.
FairSpec == Spec /\ WF_vars(SyncStep)

-----------------------------------------------------------------------------
(***************************************************************************)
(* Properties                                                              *)
(***************************************************************************)

\* No answer runs ahead of the tables: the players, numbers and winners a client
\* is told of are there, a game is called finished only if the full card has been
\* won, and cards that are called taken are taken.
AnswersTrailTheTables ==
    \A r \in Rooms :
        /\ roomInfo(r).playerCount <= reserved[r]
        /\ MaxCards - roomInfo(r).availableCards <= reserved[r]
        /\ numberDrawn(r) \subseteq drawn[r]
        /\ win(r).winners \subseteq winners[r]
        /\ win(r).gameFinished => "full" \in winners[r]

\* A room that is shown as pending shows no game: no numbers and no winners,
\* although its row may start between the queries of one sync.
PendingRoomsShowNoGame ==
    \A r \in Rooms :
        roomInfo(r).status = "pending" => numberDrawn(r) = {} /\ win(r).winners = {}

\* The countdown of a room that stays in the cache never goes back up before
\* it has reached its end.
CountdownOnlyFalls ==
    [][\A r \in Cached :
        cache[r].remainingSeconds > 0 /\ cache'[r] # NotCached
            => cache'[r].remainingSeconds <= cache[r].remainingSeconds]_vars

\* A room does not stay open without being shown, nor shown when it is closed:
\* again and again the answers agree with its row.
CacheFollowsTheRooms ==
    \A r \in Rooms : []<>(r \in Live <=> r \in activeRoomGlobal)

\* The numbers of a game that goes on do not stay away from the clients.
NumbersArrive ==
    \A r \in Rooms, n \in Numbers :
        []<>(status[r] = "started" /\ n \in drawn[r] => n \in numberDrawn(r))

=============================================================================
