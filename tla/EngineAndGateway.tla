--------------------------- MODULE EngineAndGateway ---------------------------
(***************************************************************************)
(* The game engine and the socket gateway beside it: one process, one      *)
(* database.  AppModule loads both.  Neither calls the other: the engine   *)
(* writes the tables, the gateway reads them and keeps a cache.  Clients   *)
(* learn of the games from what the gateway answers, and of a win also     *)
(* from the engine, whose winner checks broadcast it to the namespace.     *)
(*                                                                         *)
(* A step is a step of one of them, and the other waits; a crash ends      *)
(* both.  Bound: MaxCacheFaults (failed queries of the gateway, restarts). *)
(***************************************************************************)
EXTENDS GameEngine

CONSTANT MaxCacheFaults

ASSUME CacheFaultsAssumption == MaxCacheFaults \in Nat

VARIABLES
    cache,          \* roomsCache of the gateway
    cacheSync,      \* its load or sync under way
    cacheFaults,
    announced       \* the last event win that the engine has broadcast of a room

gateway == <<cache, cacheSync, cacheFaults>>
allVars == <<vars, cache, cacheSync, cacheFaults, announced>>

\* The types of win that a room has winners of.
WonTypes(r) == {t \in WinType : winnerRows[r][t] # <<>>}

NotAnnounced == [winners |-> {}, gameFinished |-> FALSE]

\* The gateway over the tables as the engine writes them.
G == INSTANCE RoomsGateway WITH
    Played <- Rooms, WinTypes <- WinType, Seconds <- RowSeconds,
    MaxReserved <- MaxReservations, MaxFaults <- MaxCacheFaults,
    status <- rowStatus, seconds <- rowSeconds,
    reserved <- [r \in Rooms |-> PlayerCount(r)],
    drawn <- [r \in Rooms |-> Drawn(r)],
    winners <- [r \in Rooms |-> WonTypes(r)],
    sync <- cacheSync, faults <- cacheFaults

\* A process that starts: the engine runs onModuleInit, the gateway afterInit.
Start ==
    /\ Init
    /\ cache = [r \in Rooms |-> G!NotCached]
    /\ cacheSync = G!Job("load", "find")
    /\ cacheFaults = 0
    /\ announced = [r \in Rooms |-> NotAnnounced]

\* checkLineWinners has saved winners, or checkFullWinners has marked the row.
Emits(r) ==
    /\ \/ At("checkLine", r) /\ winnerRows'[r] # winnerRows[r]
       \/ At("report", r) /\ main' # main
    /\ UNCHANGED faults

\* Both read all winners of the room back and broadcast them.
EmitToNamespace ==
    announced' = [r \in Rooms |->
        IF Emits(r) THEN [winners |-> WonTypes(r)', gameFinished |-> At("report", r)]
        ELSE announced[r]]

EngineRuns ==
    /\ \/ MainLoop
       \/ SyncJob
       \/ \E r \in Rooms : Deactivate(r)
       \/ \E u \in Users : Reserve(u)
    /\ EmitToNamespace
    /\ UNCHANGED gateway

GatewayRuns ==
    /\ UNCHANGED <<vars, announced>>
    /\ G!decrementRemainingSeconds \/ G!SyncStep

\* What has been broadcast is with the clients.
ProcessRestarts == Crash /\ G!Restart /\ UNCHANGED announced

Step == EngineRuns \/ GatewayRuns \/ ProcessRestarts

System == Start /\ [][Step]_allVars

-----------------------------------------------------------------------------
(***************************************************************************)
(* Properties                                                              *)
(***************************************************************************)
\* The gateway meets in the engine's tables nothing it was not made for: both
\* together are a gateway over RoomRows.
ImplementsGateway == G!Spec

\* A client who is told that a line or the full card is won, or that the game
\* is over, by an answer of the gateway or by the engine's broadcast, is told so
\* of a room in which somebody holds a card that the drawn numbers complete:
\* whatever the winner check, the cache and a restart of both have done since.
WinsToldAreWon ==
    \A r \in Rooms : \A told \in {G!win(r), announced[r]} :
        /\ "line" \in told.winners => LineCards(Held(r), Drawn(r)) # {}
        /\ "full" \in told.winners \/ told.gameFinished => FullCards(Held(r), Drawn(r)) # {}

\* A number that the clients of a running game have been shown is not drawn
\* again, although the cache is refreshed from the table and the engine draws
\* from its memory, and either may be older than the other.
NumbersShownAreNotDrawnAgain ==
    \A r \in Rooms :
        roomStates[r].status = "started" =>
            G!numberDrawn(r) \cap roomStates[r].remainingNumbers = {}

=============================================================================
