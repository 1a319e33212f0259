-------------------------------- MODULE RoomRows --------------------------------
(***************************************************************************)
(* What the tables show of the rooms of the game engine: its promise to    *)
(* everything that only reads them.  A row is inserted PENDING, its game   *)
(* starts once, numbers, winners and reservations are only added, and      *)
(* FINISHED needs a winner of the full card.  It does not promise that     *)
(* FINISHED is the last word: the five-second sync may write STARTED over  *)
(* it while the engine has not yet learned that the game is over.          *)
(***************************************************************************)
EXTENDS Integers, FiniteSets

CONSTANTS
    Rooms,
    Played,         \* the rooms whose game may start (bound)
    Numbers,
    WinTypes,       \* {"line", "full"}
    Seconds,        \* values of remainingSeconds
    MaxReserved     \* players of a room (bound)

VARIABLES
    status,         \* active_rooms.status, "absent" before the INSERT
    seconds,        \* active_rooms.remainingSeconds
    reserved,       \* the players who have a reservation
    drawn,          \* the numbers in drawn_numbers
    winners         \* the types of win that have rows in active_room_winners

vars == <<status, seconds, reserved, drawn, winners>>

RoomStatus == {"absent", "pending", "started", "finished", "deactivated"}

TypeOK ==
    /\ status \in [Rooms -> RoomStatus]
    /\ seconds \in [Rooms -> Seconds \cup {0}]
    /\ reserved \in [Rooms -> 0..MaxReserved]
    /\ drawn \in [Rooms -> SUBSET Numbers]
    /\ winners \in [Rooms -> SUBSET WinTypes]

Init ==
    /\ status = [r \in Rooms |-> "absent"]
    /\ seconds = [r \in Rooms |-> 0]
    /\ reserved = [r \in Rooms |-> 0]
    /\ drawn = [r \in Rooms |-> {}]
    /\ winners = [r \in Rooms |-> {}]

\* The status an UPDATE may write over another.
Successors(r) ==
    CASE status[r] = "absent" -> {"pending"}
      [] status[r] = "pending" ->
            {"pending", "deactivated"} \cup (IF r \in Played THEN {"started"} ELSE {})
      [] status[r] = "started" ->
            {"started", "deactivated"} \cup (IF "full" \in winners[r] THEN {"finished"} ELSE {})
      [] status[r] = "finished" -> {"finished", "started"}
      [] OTHER -> {"deactivated"}

WriteRow(r) ==
    /\ \E new \in Successors(r), left \in Seconds :
        /\ status' = [status EXCEPT ![r] = new]
        /\ seconds' = [seconds EXCEPT ![r] = left]
    /\ UNCHANGED <<reserved, drawn, winners>>

Reserve(r) ==
    /\ r \in Played /\ status[r] # "absent" /\ reserved[r] < MaxReserved
    /\ reserved' = [reserved EXCEPT ![r] = @ + 1]
    /\ UNCHANGED <<status, seconds, drawn, winners>>

Draw(r) ==
    /\ status[r] = "started"
    /\ \E n \in Numbers : drawn' = [drawn EXCEPT ![r] = @ \cup {n}]
    /\ UNCHANGED <<status, seconds, reserved, winners>>

Win(r) ==
    /\ status[r] = "started"
    /\ \E t \in WinTypes : winners' = [winners EXCEPT ![r] = @ \cup {t}]
    /\ UNCHANGED <<status, seconds, reserved, drawn>>

Next == \E r \in Rooms : WriteRow(r) \/ Reserve(r) \/ Draw(r) \/ Win(r)

Spec == Init /\ [][Next]_vars

=============================================================================
