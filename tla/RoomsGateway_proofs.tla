-------------------------- MODULE RoomsGateway_proofs --------------------------
(***************************************************************************)
(* Theorems about RoomsGateway: whatever the tables do that RoomRows       *)
(* allows, and at whatever await of the sync, the answers trail the tables *)
(* and the countdown only falls.                                           *)
(***************************************************************************)
EXTENDS RoomsGateway, SmallestNumber, FiniteSetTheorems, SequenceTheorems, TLAPS

-----------------------------------------------------------------------------
(***************************************************************************)
(* The inductive invariant.  Its parts are predicates of the tables t, so  *)
(* that what the growth of the tables preserves can be said of any t.      *)
(***************************************************************************)
Table == [status |-> status, reserved |-> reserved, drawn |-> drawn, winners |-> winners]

\* The game has begun and may show numbers and winners.
Begun == {"started", "finished", "deactivated"}

\* No game before the start, no end without a full card.
RowsInv ==
    \A r \in Rooms :
        /\ status[r] \notin Begun => drawn[r] = {} /\ winners[r] = {}
        /\ status[r] = "finished" => "full" \in winners[r]
        /\ status[r] # "absent" => seconds[r] \in Seconds

\* The tables t may become u.
GrowsTo(t, u) ==
    \A r \in Rooms :
        /\ t.reserved[r] \in Nat /\ u.reserved[r] \in Nat /\ t.reserved[r] <= u.reserved[r]
        /\ t.drawn[r] \subseteq u.drawn[r]
        /\ t.winners[r] \subseteq u.winners[r]
        /\ t.status[r] \in Begun => u.status[r] \in Begun

\* Details that the tables of the room bear out.
DetailsOf(t, r, d) ==
    /\ d \in Details
    /\ MaxCards - d.availableCards <= t.reserved[r]
    /\ d.drawnNumbers \subseteq t.drawn[r]
    /\ d.winners \subseteq t.winners[r]
    /\ d.gameFinished => "full" \in t.winners[r]

EntryOf(t, r, e) ==
    /\ e \in RoomMemoryState
    /\ e.playerCount <= t.reserved[r]
    /\ DetailsOf(t, r, e.details)
    /\ e.status = "pending" => e.details.drawnNumbers = {} /\ e.details.winners = {}
    /\ e.status = "started" => t.status[r] \in Begun

EntriesOK(t, entries) ==
    /\ entries \in [Rooms -> RoomMemoryState \cup {NotCached}]
    /\ \A r \in Rooms : entries[r] # NotCached => EntryOf(t, r, entries[r])

RowOf(t, row) ==
    /\ row \in PendingRoom
    /\ row.playerCount <= t.reserved[row.room]
    /\ row.status = "started" => t.status[row.room] \in Begun

\* The rows of one sync: each room once.
RowsOK(t, rows) ==
    /\ rows \in Seq(PendingRoom)
    /\ Len(rows) <= Cardinality(Rooms)
    /\ \A i \in 1..Len(rows) : RowOf(t, rows[i])
    /\ \A i, j \in 1..Len(rows) : rows[i].room = rows[j].room => i = j

\* A room that the sync has found pending has no game in the cache, and one that
\* the load has found is not in the cache.
Fit(job, entries, rows) ==
    \A i \in 1..Len(rows) :
        /\ entries[rows[i].room] # NotCached /\ rows[i].status = "pending"
            => entries[rows[i].room].status = "pending"
        /\ job = "load" => entries[rows[i].room] = NotCached

\* The room whose details are fetched.
AskedOK(t, entries, s) ==
    s.at = "details" =>
        /\ Len(s.rooms) > 0
        /\ s.rooms[1].status = "started"
        /\ DetailsOf(t, s.rooms[1].room, s.details)
        /\ s.job = "sync" => /\ entries[s.rooms[1].room] # NotCached
                             /\ entries[s.rooms[1].room].status = "started"

SyncOK(t, entries, s) ==
    /\ s \in SyncState
    /\ RowsOK(t, s.rooms)
    /\ Fit(s.job, entries, s.rooms)
    /\ AskedOK(t, entries, s)
    /\ s.at = "find" => s.counted = 0
    /\ s.at = "count" => s.counted < Len(s.rooms)
    /\ s.job = "load" /\ s.at # "details" => \A r \in Rooms : entries[r] = NotCached

IInv ==
    /\ Tables!TypeOK
    /\ RowsInv
    /\ EntriesOK(Table, cache)
    /\ SyncOK(Table, cache, sync)
    /\ faults \in 0..MaxFaults

-----------------------------------------------------------------------------
(***************************************************************************)
(* The tables                                                              *)
(***************************************************************************)

\* An entry is not the mark of a room that is not cached.
LEMMA EntriesAreCached ==
  ASSUME NEW e \in RoomMemoryState
  PROVE  e # NotCached
<1>1. e.status \in ShownStatus
  BY DEF RoomMemoryState
<1>2. NotCached.status = "none"
  BY DEF NotCached
<1> QED
  BY <1>1, <1>2 DEF ShownStatus

\* Details stay borne out when the tables grow.
LEMMA DetailsStay ==
  ASSUME NEW t, NEW u, GrowsTo(t, u), NEW r \in Rooms, NEW d, DetailsOf(t, r, d)
  PROVE  DetailsOf(u, r, d)
<1>1. d.availableCards \in Int
  BY DEF DetailsOf, Details
<1>2. MaxCards - d.availableCards <= u.reserved[r]
  BY <1>1 DEF DetailsOf, GrowsTo, MaxCards
<1> QED
  BY <1>2 DEF DetailsOf, GrowsTo

LEMMA EntriesStay ==
  ASSUME NEW t, NEW u, GrowsTo(t, u), NEW entries, EntriesOK(t, entries)
  PROVE  EntriesOK(u, entries)
<1> SUFFICES ASSUME NEW r \in Rooms, entries[r] # NotCached
             PROVE  EntryOf(u, r, entries[r])
  BY DEF EntriesOK
<1>1. EntryOf(t, r, entries[r])
  BY DEF EntriesOK
<1>2. DetailsOf(u, r, entries[r].details)
  BY <1>1, DetailsStay DEF EntryOf
<1>3. entries[r].playerCount <= u.reserved[r]
  <2>1. entries[r].playerCount \in Nat
    BY <1>1, GatewayBounds DEF EntryOf, RoomMemoryState
  <2> QED
    BY <2>1, <1>1 DEF EntryOf, GrowsTo
<1> QED
  BY <1>1, <1>2, <1>3 DEF EntryOf, GrowsTo

LEMMA RowsStay ==
  ASSUME NEW t, NEW u, GrowsTo(t, u), NEW rows, RowsOK(t, rows)
  PROVE  RowsOK(u, rows)
<1> SUFFICES ASSUME NEW i \in 1..Len(rows) PROVE RowOf(u, rows[i])
  BY DEF RowsOK
<1>1. RowOf(t, rows[i])
  BY DEF RowsOK
<1>2. rows[i].room \in Rooms /\ rows[i].playerCount \in Nat
  BY <1>1, GatewayBounds DEF RowOf, PendingRoom
<1> QED
  BY <1>1, <1>2 DEF RowOf, GrowsTo

LEMMA SyncStays ==
  ASSUME NEW t, NEW u, GrowsTo(t, u), NEW entries, NEW s, SyncOK(t, entries, s)
  PROVE  SyncOK(u, entries, s)
<1>1. RowsOK(u, s.rooms)
  BY RowsStay DEF SyncOK
<1>2. ASSUME s.at = "details" PROVE DetailsOf(u, s.rooms[1].room, s.details)
  <2>1. Len(s.rooms) > 0 /\ Len(s.rooms) \in Nat
    BY <1>2 DEF SyncOK, AskedOK, SyncState
  <2>2. s.rooms[1].room \in Rooms
    BY <1>1, <2>1 DEF RowsOK, RowOf, PendingRoom
  <2> QED
    BY <1>2, <2>2, DetailsStay DEF SyncOK, AskedOK
<1> QED
  BY <1>1, <1>2 DEF SyncOK, AskedOK

\* What the engine may do to the tables.
LEMMA TablesGrow ==
  ASSUME Tables!TypeOK, RowsInv, Tables!Next
  PROVE  Tables!TypeOK' /\ RowsInv' /\ GrowsTo(Table, Table')
<1> USE DEF Tables!TypeOK
<1>1. PICK r \in Rooms :
        Tables!WriteRow(r) \/ Tables!Reserve(r) \/ Tables!Draw(r) \/ Tables!Win(r)
  BY DEF Tables!Next
<1>2. CASE Tables!WriteRow(r)
  <2>1. PICK new \in Tables!Successors(r), left \in Seconds :
          /\ status' = [status EXCEPT ![r] = new]
          /\ seconds' = [seconds EXCEPT ![r] = left]
    BY <1>2 DEF Tables!WriteRow
  <2>2. UNCHANGED <<reserved, drawn, winners>>
    BY <1>2 DEF Tables!WriteRow
  <2>3. /\ new \in {"pending", "started", "finished", "deactivated"}
        /\ status[r] \in Begun => new \in Begun
        /\ new = "finished" => status[r] = "finished" \/ "full" \in winners[r]
    BY <2>1 DEF Tables!Successors, Tables!RoomStatus, Begun
  <2>4. Tables!TypeOK'
    BY <2>1, <2>2, <2>3 DEF Tables!RoomStatus
  <2>5. RowsInv'
    <3> SUFFICES ASSUME NEW q \in Rooms
                 PROVE  /\ status'[q] \notin Begun => drawn'[q] = {} /\ winners'[q] = {}
                        /\ status'[q] = "finished" => "full" \in winners'[q]
                        /\ status'[q] # "absent" => seconds'[q] \in Seconds
      BY DEF RowsInv
    <3>1. CASE q = r
      BY <3>1, <2>1, <2>2, <2>3 DEF RowsInv
    <3>2. CASE q # r
      BY <3>2, <2>1, <2>2 DEF RowsInv
    <3> QED
      BY <3>1, <3>2
  <2>6. GrowsTo(Table, Table')
    BY <2>1, <2>2, <2>3, GatewayBounds DEF GrowsTo, Table
  <2> QED
    BY <2>4, <2>5, <2>6
<1>3. CASE Tables!Reserve(r)
  <2>1. /\ reserved[r] < MaxReserved
        /\ reserved' = [reserved EXCEPT ![r] = reserved[r] + 1]
        /\ UNCHANGED <<status, seconds, drawn, winners>>
    BY <1>3 DEF Tables!Reserve
  <2>2. Tables!TypeOK'
    BY <2>1, GatewayBounds
  <2>3. RowsInv'
    BY <2>1 DEF RowsInv
  <2>4. GrowsTo(Table, Table')
    BY <2>1, GatewayBounds DEF GrowsTo, Table
  <2> QED
    BY <2>2, <2>3, <2>4
<1>4. CASE Tables!Draw(r)
  <2>1. PICK n \in Numbers : drawn' = [drawn EXCEPT ![r] = drawn[r] \cup {n}]
    BY <1>4 DEF Tables!Draw
  <2>2. status[r] = "started" /\ UNCHANGED <<status, seconds, reserved, winners>>
    BY <1>4 DEF Tables!Draw
  <2>3. Tables!TypeOK'
    BY <2>1, <2>2
  <2>4. RowsInv'
    BY <2>1, <2>2 DEF RowsInv, Begun
  <2>5. GrowsTo(Table, Table')
    BY <2>1, <2>2, GatewayBounds DEF GrowsTo, Table
  <2> QED
    BY <2>3, <2>4, <2>5
<1>5. CASE Tables!Win(r)
  <2>1. PICK w \in WinTypes : winners' = [winners EXCEPT ![r] = winners[r] \cup {w}]
    BY <1>5 DEF Tables!Win
  <2>2. status[r] = "started" /\ UNCHANGED <<status, seconds, reserved, drawn>>
    BY <1>5 DEF Tables!Win
  <2>3. Tables!TypeOK'
    BY <2>1, <2>2
  <2>4. RowsInv'
    BY <2>1, <2>2 DEF RowsInv, Begun
  <2>5. GrowsTo(Table, Table')
    BY <2>1, <2>2, GatewayBounds DEF GrowsTo, Table
  <2> QED
    BY <2>3, <2>4, <2>5
<1> QED
  BY <1>1, <1>2, <1>3, <1>4, <1>5

\* The five-second sync of the engine, a number, a winner or a reservation at any
\* await of the gateway.
LEMMA EngineKeeps ==
  ASSUME IInv, EngineStep
  PROVE  IInv'
<1>1. Tables!TypeOK' /\ RowsInv' /\ GrowsTo(Table, Table')
  BY TablesGrow DEF IInv, EngineStep
<1>2. EntriesOK(Table', cache) /\ SyncOK(Table', cache, sync)
  BY <1>1, EntriesStay, SyncStays DEF IInv
<1>3. UNCHANGED <<cache, sync, faults>>
  BY DEF EngineStep
<1> QED
  BY <1>1, <1>2, <1>3 DEF IInv

-----------------------------------------------------------------------------
(***************************************************************************)
(* Proceed: what the load and the sync do from one await to the next       *)
(***************************************************************************)

\* The smallest of the rooms to wait for is one of them.
LEMMA MinOfNumbers ==
  ASSUME NEW W \in SUBSET Nat, W # {}
  PROVE  Min(W) \in W /\ \A n \in W : Min(W) <= n
<1>1. PICK m \in W : \A n \in W : m <= n
  BY SmallestExists
<1> QED
  BY <1>1 DEF Min

\* The i-th room is brought up to date; the load leaves out the one it waits for.
Passed(entries, rows, i) == sync.job = "load" => ~ NeedsDetails(entries, rows[i])

\* Proceed has got as far as the room last, and waits for its details or is done.
ProceedTo(entries, rows, last) ==
    /\ \/ /\ last = Len(rows)
          /\ \A i \in 1..last : ~ NeedsDetails(entries, rows[i])
          /\ sync' = Idle
       \/ /\ last > 0
          /\ NeedsDetails(entries, rows[last])
          /\ sync' = [sync EXCEPT !.at = "details", !.rooms = SubSeq(rows, last, Len(rows)),
                                  !.counted = 0, !.details = NoDetails,
                                  !.waiting = {"drawn", "winners", "info"}]
    /\ cache' = [r \in Rooms |-> cache'[r]]
    /\ \A r \in Rooms :
        \/ /\ cache'[r] = entries[r]
           /\ \A i \in 1..last : Passed(entries, rows, i) => rows[i].room # r
        \/ \E i \in 1..last : /\ Passed(entries, rows, i)
                              /\ rows[i].room = r
                              /\ cache'[r] = Merged(entries, rows[i])

LEMMA ProceedGoes ==
  ASSUME NEW entries, NEW rows \in Seq(PendingRoom), Proceed(entries, rows)
  PROVE  \E last \in 0..Len(rows) : ProceedTo(entries, rows, last)
<1> DEFINE waits == {i \in DOMAIN rows : NeedsDetails(entries, rows[i])}
           last == IF waits = {} THEN Len(rows) ELSE Min(waits)
           going == {k \in 1..last : sync.job = "load" => k \notin waits}
           merged == {rows[i] : i \in going}
<1>1. /\ cache' = [r \in Rooms |-> IF \E row \in merged : row.room = r
                                   THEN Merged(entries, CHOOSE row \in merged : row.room = r)
                                   ELSE entries[r]]
      /\ sync' = IF waits = {} THEN Idle
                 ELSE [sync EXCEPT !.at = "details", !.rooms = SubSeq(rows, last, Len(rows)),
                                   !.counted = 0, !.details = NoDetails,
                                   !.waiting = {"drawn", "winners", "info"}]
  BY DEF Proceed
<1>2. DOMAIN rows = 1..Len(rows) /\ Len(rows) \in Nat
  OBVIOUS
<1>3. ASSUME waits # {} PROVE last \in waits
  <2>1. waits \in SUBSET Nat
    BY <1>2
  <2>2. last = Min(waits)
    BY <1>3
  <2> HIDE DEF waits, last
  <2> QED
    BY <1>3, <2>1, <2>2, MinOfNumbers
<1>4. last \in 0..Len(rows)
  BY <1>2, <1>3
<1>5. \A i \in 1..last : i \in waits <=> NeedsDetails(entries, rows[i])
  BY <1>2, <1>4
<1>6. \A i \in 1..last : i \in going <=> Passed(entries, rows, i)
  BY <1>5 DEF Passed
<1> HIDE DEF waits, last, going
<1>7. ASSUME NEW r \in Rooms
      PROVE  \/ /\ cache'[r] = entries[r]
                /\ \A i \in 1..last : Passed(entries, rows, i) => rows[i].room # r
             \/ \E i \in 1..last : /\ Passed(entries, rows, i)
                                   /\ rows[i].room = r
                                   /\ cache'[r] = Merged(entries, rows[i])
  <2>1. CASE \E row \in merged : row.room = r
    <3> DEFINE row == CHOOSE x \in merged : x.room = r
    <3>1. row \in merged /\ row.room = r
      BY <2>1
    <3>2. cache'[r] = Merged(entries, row)
      BY <1>1, <2>1
    <3> HIDE DEF row
    <3>3. PICK i \in going : row = rows[i]
      BY <3>1
    <3>4. i \in 1..last
      BY DEF going
    <3> QED
      BY <1>6, <3>1, <3>2, <3>3, <3>4
  <2>2. CASE ~ \E row \in merged : row.room = r
    <3>1. cache'[r] = entries[r]
      BY <1>1, <2>2
    <3>2. \A i \in going : rows[i].room # r
      BY <2>2
    <3> QED
      BY <1>6, <3>1, <3>2
  <2> QED
    BY <2>1, <2>2
<1>8. cache' = [r \in Rooms |-> cache'[r]]
  BY <1>1
<1>9. CASE waits = {}
  <2>1. last = Len(rows) /\ sync' = Idle /\ \A i \in 1..last : ~ NeedsDetails(entries, rows[i])
    BY <1>1, <1>5, <1>9 DEF last
  <2> QED
    BY <1>4, <1>7, <1>8, <2>1 DEF ProceedTo
<1>10. CASE waits # {}
  <2>1. last \in 1..Len(rows) /\ NeedsDetails(entries, rows[last])
    BY <1>2, <1>3, <1>10 DEF waits
  <2>2. sync' = [sync EXCEPT !.at = "details", !.rooms = SubSeq(rows, last, Len(rows)),
                             !.counted = 0, !.details = NoDetails,
                             !.waiting = {"drawn", "winners", "info"}]
    BY <1>1, <1>10
  <2>3. last > 0
    BY <2>1
  <2>4. ProceedTo(entries, rows, last)
    BY <1>7, <1>8, <2>1, <2>2, <2>3, Zenon DEF ProceedTo
  <2> QED
    BY <1>4, <2>4
<1> QED
  BY <1>9, <1>10

\* An entry brought up to date by a row that fits it.
LEMMA MergedEntry ==
  ASSUME NEW t, NEW entries, EntriesOK(t, entries), NEW row, RowOf(t, row),
         \A r \in Rooms : t.reserved[r] \in Nat,
         entries[row.room] # NotCached /\ row.status = "pending"
            => entries[row.room].status = "pending"
  PROVE  /\ EntryOf(t, row.room, Merged(entries, row))
         /\ Merged(entries, row).status = row.status
<1>1. /\ row.room \in Rooms /\ row.status \in ShownStatus
      /\ row.remainingSeconds \in Seconds /\ row.playerCount \in 0..MaxReserved
  BY DEF RowOf, PendingRoom
<1>2. CASE entries[row.room] = NotCached
  <2>1. Merged(entries, row) = NewEntry(row)
    BY <1>2 DEF Merged
  <2>2. NoDetails \in Details /\ DetailsOf(t, row.room, NoDetails)
    BY <1>1 DEF DetailsOf, Details, NoDetails, MaxCards
  <2>3. NewEntry(row) \in RoomMemoryState
    BY <1>1, <2>2 DEF NewEntry, RoomMemoryState
  <2> QED
    BY <2>1, <2>2, <2>3 DEF EntryOf, NewEntry, RowOf, NoDetails
<1>3. CASE entries[row.room] # NotCached
  <2> DEFINE e == entries[row.room]
  <2>1. EntryOf(t, row.room, e)
    BY <1>1, <1>3 DEF EntriesOK
  <2>2. Merged(entries, row) = Updated(e, row)
    BY <1>3 DEF Merged
  <2>3. e.status = "pending" \/ row.status = "started"
    BY <1>1, <1>3 DEF ShownStatus
  <2> HIDE DEF e
  <2>4. /\ Updated(e, row) \in RoomMemoryState
        /\ Updated(e, row).status = row.status
        /\ Updated(e, row).playerCount = row.playerCount
        /\ Updated(e, row).details = e.details
    BY <1>1, <2>1 DEF Updated, EntryOf, RoomMemoryState
  <2> QED
    BY <1>1, <2>1, <2>2, <2>3, <2>4 DEF EntryOf, RowOf
<1> QED
  BY <1>2, <1>3

\* Proceed leaves a cache the tables bear out, and rooms yet to come that fit it.
LEMMA ProceedKeeps ==
  ASSUME NEW t, NEW entries, NEW rows, sync \in SyncState,
         EntriesOK(t, entries), RowsOK(t, rows), Fit(sync.job, entries, rows),
         \A r \in Rooms : t.reserved[r] \in Nat,
         Proceed(entries, rows)
  PROVE  EntriesOK(t, cache') /\ SyncOK(t, cache', sync')
<1>1. rows \in Seq(PendingRoom) /\ Len(rows) \in Nat
  BY DEF RowsOK
<1>2. PICK last \in 0..Len(rows) : ProceedTo(entries, rows, last)
  BY <1>1, ProceedGoes
<1>3. ASSUME NEW i \in 1..Len(rows)
      PROVE  /\ rows[i].room \in Rooms /\ RowOf(t, rows[i])
             /\ EntryOf(t, rows[i].room, Merged(entries, rows[i]))
             /\ Merged(entries, rows[i]).status = rows[i].status
  <2>1. rows[i].room \in Rooms /\ RowOf(t, rows[i])
    BY DEF RowsOK, RowOf, PendingRoom
  <2>2. entries[rows[i].room] # NotCached /\ rows[i].status = "pending"
            => entries[rows[i].room].status = "pending"
    BY DEF Fit
  <2> QED
    BY <2>1, <2>2, MergedEntry
<1>4. ASSUME NEW r \in Rooms
      PROVE  \/ cache'[r] = entries[r]
             \/ \E i \in 1..Len(rows) : rows[i].room = r /\ cache'[r] = Merged(entries, rows[i])
  BY <1>1, <1>2 DEF ProceedTo
<1>5. EntriesOK(t, cache')
  <2>1. ASSUME NEW r \in Rooms
        PROVE  /\ cache'[r] \in RoomMemoryState \cup {NotCached}
               /\ cache'[r] # NotCached => EntryOf(t, r, cache'[r])
    <3>1. CASE cache'[r] = entries[r]
      BY <3>1 DEF EntriesOK
    <3>2. CASE cache'[r] # entries[r]
      <4>1. PICK i \in 1..Len(rows) : rows[i].room = r /\ cache'[r] = Merged(entries, rows[i])
        BY <1>4, <3>2
      <4>2. EntryOf(t, r, cache'[r])
        BY <1>3, <4>1
      <4> QED
        BY <4>2 DEF EntryOf
    <3> QED
      BY <3>1, <3>2
  <2>2. cache' = [r \in Rooms |-> cache'[r]]
    BY <1>2 DEF ProceedTo
  <2>3. cache' \in [Rooms -> RoomMemoryState \cup {NotCached}]
    BY <2>1, <2>2
  <2> QED
    BY <2>1, <2>3 DEF EntriesOK
<1>6. CASE sync' = Idle
  <2>1. sync'.at = "idle" /\ sync'.rooms = <<>>
    BY <1>6 DEF Idle, Job
  <2>2. sync' \in SyncState
    BY <1>6, RoomsAssumption, FS_CardinalityType
       DEF Idle, Job, SyncState, NoDetails, Details, MaxCards
  <2>3. RowsOK(t, sync'.rooms)
    BY <2>1, RoomsAssumption, FS_CardinalityType DEF RowsOK
  <2>4. sync'.job = "sync"
    BY <1>6 DEF Idle, Job
  <2> QED
    BY <1>5, <2>1, <2>2, <2>3, <2>4 DEF SyncOK, Fit, AskedOK
<1>7. CASE sync' # Idle
  <2> DEFINE rest == SubSeq(rows, last, Len(rows))
  <2>1. /\ last \in 1..Len(rows)
        /\ NeedsDetails(entries, rows[last])
        /\ sync' = [sync EXCEPT !.at = "details", !.rooms = rest, !.counted = 0,
                                !.details = NoDetails, !.waiting = {"drawn", "winners", "info"}]
    BY <1>2, <1>7 DEF ProceedTo
  <2>2. /\ rest \in Seq(PendingRoom)
        /\ Len(rest) = Len(rows) - last + 1
        /\ \A i \in 1..Len(rest) : last + i - 1 \in 1..Len(rows) /\ rest[i] = rows[last + i - 1]
    BY <1>1, <2>1
  <2> HIDE DEF rest
  <2>3. RowsOK(t, rest)
    <3>1. \A i \in 1..Len(rest) : RowOf(t, rest[i])
      BY <1>3, <2>2
    <3>2. ASSUME NEW i \in 1..Len(rest), NEW j \in 1..Len(rest), rest[i].room = rest[j].room
          PROVE  i = j
      <4>1. rows[last + i - 1].room = rows[last + j - 1].room
        BY <2>2, <3>2
      <4>2. last + i - 1 = last + j - 1
        BY <2>2, <4>1 DEF RowsOK
      <4> QED
        BY <2>1, <4>2
    <3>3. Len(rest) <= Cardinality(Rooms)
      BY <1>1, <2>1, <2>2, RoomsAssumption, FS_CardinalityType DEF RowsOK
    <3> QED
      BY <2>2, <3>1, <3>2, <3>3 DEF RowsOK
  <2>4. /\ sync'.job = sync.job /\ sync'.at = "details" /\ sync'.rooms = rest
        /\ sync'.details = NoDetails /\ sync'.counted = 0
        /\ sync' \in SyncState
    <3>1. /\ sync'.job = sync.job /\ sync'.at = "details" /\ sync'.rooms = rest
          /\ sync'.details = NoDetails /\ sync'.counted = 0
      BY <2>1 DEF SyncState
    <3>2. 0 \in 0..Cardinality(Rooms)
      BY RoomsAssumption, FS_CardinalityType
    <3>3. NoDetails \in Details
      BY DEF NoDetails, Details, MaxCards
    <3>4. {"drawn", "winners", "info"} \in SUBSET Queries
      BY DEF Queries
    <3>5. sync' \in SyncState
      BY <2>1, <2>2, <3>2, <3>3, <3>4 DEF SyncState
    <3> QED
      BY <3>1, <3>5
  <2>5. rest[1] = rows[last] /\ Len(rest) > 0 /\ rows[last].status = "started"
    <3>1. Len(rest) >= 1 /\ last + 1 - 1 = last
      BY <1>1, <2>1, <2>2
    <3>2. rest[1] = rows[last + 1 - 1]
      BY <2>2, <3>1
    <3> QED
      BY <2>1, <3>1, <3>2 DEF NeedsDetails
  \* What is still to come has not been passed.
  <2>6. ASSUME NEW i \in 1..Len(rest), i # 1 \/ sync.job = "load"
        PROVE  cache'[rest[i].room] = entries[rest[i].room]
    <3> DEFINE k == last + i - 1
    <3>1. k \in 1..Len(rows) /\ rest[i] = rows[k] /\ k >= last /\ (k = last => i = 1)
      BY <2>1, <2>2
    <3>2. rows[k].room \in Rooms
      BY <1>3, <3>1
    <3> HIDE DEF k
    <3>3. ASSUME NEW j \in 1..last, Passed(entries, rows, j) PROVE rows[j].room # rows[k].room
      <4>1. SUFFICES ASSUME rows[j].room = rows[k].room PROVE FALSE
        OBVIOUS
      <4>2. j = k
        BY <2>1, <3>1, <4>1 DEF RowsOK
      <4>3. k = last /\ sync.job = "load"
        BY <2>1, <2>6, <3>1, <4>2
      <4> QED
        BY <2>1, <3>3, <4>2, <4>3 DEF Passed
    <3> QED
      BY <1>2, <3>1, <3>2, <3>3 DEF ProceedTo
  <2>7. Fit(sync.job, cache', rest)
    <3> SUFFICES ASSUME NEW i \in 1..Len(rest)
                 PROVE  /\ cache'[rest[i].room] # NotCached /\ rest[i].status = "pending"
                            => cache'[rest[i].room].status = "pending"
                        /\ sync.job = "load" => cache'[rest[i].room] = NotCached
      BY DEF Fit
    <3>1. /\ entries[rest[i].room] # NotCached /\ rest[i].status = "pending"
              => entries[rest[i].room].status = "pending"
          /\ sync.job = "load" => entries[rest[i].room] = NotCached
      BY <2>2 DEF Fit
    <3>2. CASE i # 1 \/ sync.job = "load"
      BY <2>6, <3>1, <3>2
    <3>3. CASE i = 1 /\ sync.job # "load"
      BY <2>5, <3>3
    <3> QED
      BY <3>2, <3>3
  <2>8. ASSUME sync.job = "sync"
        PROVE  cache'[rest[1].room] # NotCached /\ cache'[rest[1].room].status = "started"
    <3> DEFINE r == rows[last].room
    <3>1. r \in Rooms
      BY <1>3, <2>1
    <3>2. Passed(entries, rows, last)
      BY <2>8 DEF Passed
    <3>3. PICK i \in 1..last : rows[i].room = r /\ cache'[r] = Merged(entries, rows[i])
      BY <1>2, <2>1, <3>1, <3>2 DEF ProceedTo
    <3>4. i = last
      BY <1>1, <2>1, <3>3 DEF RowsOK
    <3>5. cache'[r] = Merged(entries, rows[last])
      BY <3>3, <3>4
    <3>6. /\ Merged(entries, rows[last]).status = "started"
          /\ Merged(entries, rows[last]) \in RoomMemoryState
      BY <1>3, <2>1, <2>5 DEF EntryOf
    <3> QED
      BY <2>5, <3>5, <3>6, EntriesAreCached
  <2>9. DetailsOf(t, rest[1].room, NoDetails)
    <3>1. rest[1].room \in Rooms
      BY <1>3, <2>1, <2>5
    <3> QED
      BY <3>1 DEF DetailsOf, Details, NoDetails, MaxCards
  <2> QED
    BY <1>5, <2>3, <2>4, <2>5, <2>7, <2>8, <2>9 DEF SyncOK, AskedOK
<1> QED
  BY <1>5, <1>6, <1>7

-----------------------------------------------------------------------------
(***************************************************************************)
(* The steps of the gateway                                                *)
(***************************************************************************)

LEMMA ReservedAreNumbers ==
  ASSUME IInv
  PROVE  /\ \A r \in Rooms : Table.reserved[r] \in Nat
         /\ Cardinality(Rooms) \in Nat
<1>1. \A r \in Rooms : reserved[r] \in Nat
  BY GatewayBounds DEF IInv, Tables!TypeOK
<1> QED
  BY <1>1, RoomsAssumption, FS_CardinalityType DEF Table

\* A step that leaves the tables alone keeps what is said of them.
LEMMA TablesUntouched ==
  ASSUME IInv, UNCHANGED tables, faults' \in 0..MaxFaults,
         EntriesOK(Table, cache'), SyncOK(Table, cache', sync')
  PROVE  IInv'
<1>1. UNCHANGED <<status, seconds, reserved, drawn, winners>>
  BY DEF tables
<1>2. Table' = Table
  BY <1>1 DEF Table
<1>3. Tables!TypeOK' /\ RowsInv'
  BY <1>1 DEF IInv, Tables!TypeOK, RowsInv
<1> QED
  BY <1>2, <1>3 DEF IInv

LEMMA FailsBounded ==
  ASSUME faults \in 0..MaxFaults, Fails
  PROVE  faults' \in 0..MaxFaults
BY GatewayBounds DEF Fails

\* A sync that is idle, or a load that starts over an empty cache.
LEMMA JobsStart ==
  ASSUME IInv, NEW job \in {"load", "sync"}, NEW step \in {"idle", "find"}, NEW entries,
         job = "load" => \A r \in Rooms : entries[r] = NotCached
  PROVE  SyncOK(Table, entries, Job(job, step))
<1>1. Cardinality(Rooms) \in Nat
  BY ReservedAreNumbers
<1>2. /\ Job(job, step).job = job /\ Job(job, step).at = step
      /\ Job(job, step).rooms = <<>> /\ Job(job, step).counted = 0
  BY DEF Job
<1>3. Job(job, step) \in SyncState
  BY <1>1 DEF Job, SyncState, NoDetails, Details, MaxCards
<1>4. RowsOK(Table, Job(job, step).rooms)
  BY <1>1, <1>2 DEF RowsOK
<1> QED
  BY <1>2, <1>3, <1>4 DEF SyncOK, Fit, AskedOK

\* The countdown changes nothing but the seconds.
LEMMA CountdownKeeps ==
  ASSUME IInv, decrementRemainingSeconds
  PROVE  IInv'
<1>1. cache' = [r \in Rooms |-> IF r \in Cached /\ CountsDown(cache[r])
                                THEN [cache[r] EXCEPT !.remainingSeconds = @ - 1] ELSE cache[r]]
  BY DEF decrementRemainingSeconds
<1>2. ASSUME NEW r \in Rooms
      PROVE  /\ cache'[r] \in RoomMemoryState \cup {NotCached}
             /\ cache'[r] # NotCached => EntryOf(Table, r, cache'[r])
             /\ cache'[r] = NotCached <=> cache[r] = NotCached
             /\ cache[r] # NotCached => cache'[r].status = cache[r].status
  <2>1. CASE cache'[r] = cache[r]
    BY <2>1 DEF IInv, EntriesOK
  <2>2. CASE cache'[r] # cache[r]
    <3>1. /\ r \in Cached /\ CountsDown(cache[r])
          /\ cache'[r] = [cache[r] EXCEPT !.remainingSeconds = cache[r].remainingSeconds - 1]
      BY <1>1, <2>2
    <3>2. cache[r] # NotCached /\ EntryOf(Table, r, cache[r])
      BY <3>1 DEF Cached, IInv, EntriesOK
    <3>3. cache[r] \in RoomMemoryState
      BY <3>2 DEF EntryOf
    <3>4. cache[r].remainingSeconds - 1 \in Nat
      BY <3>1, <3>3, SecondsAssumption DEF CountsDown, RoomMemoryState
    <3>5. /\ cache'[r] \in RoomMemoryState
          /\ cache'[r].status = cache[r].status
          /\ cache'[r].playerCount = cache[r].playerCount
          /\ cache'[r].details = cache[r].details
      BY <3>1, <3>3, <3>4 DEF RoomMemoryState
    <3>6. EntryOf(Table, r, cache'[r])
      BY <3>2, <3>5 DEF EntryOf
    <3> QED
      BY <3>2, <3>5, <3>6, EntriesAreCached
  <2> QED
    BY <2>1, <2>2
<1>3. EntriesOK(Table, cache')
  <2>1. cache' \in [Rooms -> RoomMemoryState \cup {NotCached}]
    BY <1>1, <1>2
  <2> QED
    BY <1>2, <2>1 DEF EntriesOK
<1>4. sync' = sync /\ faults' = faults /\ UNCHANGED tables
  BY DEF decrementRemainingSeconds
<1>5. SyncOK(Table, cache, sync)
  BY DEF IInv
<1>6. ASSUME NEW i \in 1..Len(sync.rooms) PROVE sync.rooms[i].room \in Rooms
  BY <1>5 DEF SyncOK, RowsOK, RowOf, PendingRoom
<1>7. Fit(sync.job, cache', sync.rooms)
  BY <1>2, <1>5, <1>6 DEF SyncOK, Fit
<1>8. AskedOK(Table, cache', sync)
  <2>1. sync.at = "details" => sync.rooms[1].room \in Rooms
    <3>1. Len(sync.rooms) \in Nat
      BY <1>5 DEF SyncOK, SyncState
    <3> QED
      BY <1>5, <1>6, <3>1 DEF SyncOK, AskedOK
  <2> QED
    BY <1>2, <1>5, <2>1 DEF SyncOK, AskedOK
<1>9. SyncOK(Table, cache', sync')
  BY <1>2, <1>4, <1>5, <1>7, <1>8 DEF SyncOK
<1>10. faults' \in 0..MaxFaults
  BY <1>4 DEF IInv
<1> QED
  BY <1>3, <1>4, <1>9, <1>10, TablesUntouched

\* The rooms of an order are the open ones, each once.
LEMMA OrdersOfRooms ==
  ASSUME NEW order \in SetToSeqs(Live)
  PROVE  /\ order \in Seq(Live)
         /\ Len(order) = Cardinality(Live) /\ Len(order) <= Cardinality(Rooms)
         /\ \A i, j \in 1..Len(order) : order[i] = order[j] => i = j
<1>1. Live \in SUBSET Rooms
  BY DEF Live
<1>2. /\ IsFiniteSet(Live) /\ Cardinality(Live) <= Cardinality(Rooms)
      /\ Cardinality(Live) \in Nat
  BY <1>1, RoomsAssumption, FS_Subset, FS_CardinalityType
<1>3. /\ order \in [1..Cardinality(Live) -> Live]
      /\ \A i, j \in 1..Cardinality(Live) : i # j => order[i] # order[j]
  BY DEF SetToSeqs
<1> QED
  BY <1>2, <1>3

LEMMA FindKeeps ==
  ASSUME IInv, FindRooms
  PROVE  IInv'
<1>1. PICK order \in SetToSeqs(Live) :
        sync' = [sync EXCEPT
            !.at = IF Live = {} THEN "merge" ELSE "count",
            !.rooms = [i \in DOMAIN order |->
                [room |-> order[i], status |-> status[order[i]],
                 remainingSeconds |-> seconds[order[i]], playerCount |-> 0]]]
  BY DEF FindRooms
<1> DEFINE rows == [i \in DOMAIN order |->
                [room |-> order[i], status |-> status[order[i]],
                 remainingSeconds |-> seconds[order[i]], playerCount |-> 0]]
<1>2. /\ order \in Seq(Live)
      /\ Len(order) = Cardinality(Live) /\ Len(order) <= Cardinality(Rooms)
      /\ \A i, j \in 1..Len(order) : order[i] = order[j] => i = j
  BY OrdersOfRooms
<1>3. /\ DOMAIN order = 1..Len(order) /\ Len(order) \in Nat
      /\ \A i \in 1..Len(order) : order[i] \in Live
  BY <1>2
<1>4. ASSUME NEW i \in 1..Len(order)
      PROVE  /\ rows[i] \in PendingRoom /\ rows[i].room = order[i] /\ order[i] \in Rooms
             /\ rows[i].status = status[order[i]] /\ rows[i].playerCount = 0
  <2>1. order[i] \in Rooms /\ status[order[i]] \in ShownStatus
    BY <1>3 DEF Live
  <2>2. seconds[order[i]] \in Seconds
    BY <2>1 DEF IInv, RowsInv, ShownStatus
  <2>3. rows[i] = [room |-> order[i], status |-> status[order[i]],
                   remainingSeconds |-> seconds[order[i]], playerCount |-> 0]
    BY <1>3
  <2> HIDE DEF rows
  <2> QED
    BY <2>1, <2>2, <2>3, GatewayBounds DEF PendingRoom
<1>5. /\ rows \in Seq(PendingRoom) /\ Len(rows) = Len(order)
  <2>1. rows \in [1..Len(order) -> PendingRoom]
    BY <1>3, <1>4
  <2> QED
    BY <1>3, <2>1
<1>6. sync' = [sync EXCEPT !.at = IF Live = {} THEN "merge" ELSE "count", !.rooms = rows]
  BY <1>1
<1> HIDE DEF rows
<1>7. sync \in SyncState /\ SyncOK(Table, cache, sync) /\ sync.at = "find"
  BY DEF IInv, SyncOK, FindRooms
<1>8. /\ sync'.job = sync.job /\ sync'.rooms = rows /\ sync'.counted = sync.counted
      /\ sync'.at = (IF Live = {} THEN "merge" ELSE "count")
      /\ sync' \in SyncState
  BY <1>5, <1>6, <1>7 DEF SyncState
<1>9. RowsOK(Table, rows)
  <2>1. ASSUME NEW i \in 1..Len(rows) PROVE RowOf(Table, rows[i])
    <3>1. 0 <= reserved[order[i]]
      BY <1>4, <1>5, GatewayBounds DEF IInv, Tables!TypeOK
    <3> QED
      BY <1>4, <1>5, <3>1 DEF RowOf, Table, Begun
  <2>2. \A i, j \in 1..Len(rows) : rows[i].room = rows[j].room => i = j
    BY <1>2, <1>4, <1>5
  <2> QED
    BY <1>2, <1>5, <2>1, <2>2 DEF RowsOK
<1>10. Fit(sync.job, cache, rows)
  <2> SUFFICES ASSUME NEW i \in 1..Len(rows)
               PROVE  /\ cache[rows[i].room] # NotCached /\ rows[i].status = "pending"
                          => cache[rows[i].room].status = "pending"
                      /\ sync.job = "load" => cache[rows[i].room] = NotCached
    BY DEF Fit
  <2>1. /\ rows[i].room \in Rooms /\ rows[i].status = status[rows[i].room]
    BY <1>4, <1>5
  <2>2. ASSUME cache[rows[i].room] # NotCached, rows[i].status = "pending"
        PROVE  cache[rows[i].room].status = "pending"
    <3>1. EntryOf(Table, rows[i].room, cache[rows[i].room])
      BY <2>1, <2>2 DEF IInv, EntriesOK
    <3>2. cache[rows[i].room].status \in ShownStatus
      BY <3>1 DEF EntryOf, RoomMemoryState
    <3>3. cache[rows[i].room].status = "started" => status[rows[i].room] \in Begun
      BY <3>1 DEF EntryOf, Table
    <3> QED
      BY <2>1, <2>2, <3>2, <3>3 DEF ShownStatus, Begun
  <2> QED
    BY <1>7, <2>1, <2>2 DEF SyncOK
<1>11. Live # {} => Len(rows) > 0
  <2>1. IsFiniteSet(Live)
    BY RoomsAssumption, FS_Subset DEF Live
  <2> QED
    BY <1>2, <1>5, <2>1, FS_EmptySet
<1>12. SyncOK(Table, cache, sync')
  BY <1>7, <1>8, <1>9, <1>10, <1>11 DEF SyncOK, AskedOK
<1> QED
  BY <1>12, TablesUntouched DEF IInv, FindRooms

LEMMA CountKeeps ==
  ASSUME IInv, CountPlayers
  PROVE  IInv'
<1> DEFINE i == sync.counted + 1
           row == sync.rooms[i]
           new == [row EXCEPT !.playerCount = reserved[row.room]]
           rows == [sync.rooms EXCEPT ![i] = new]
<1>1. SyncOK(Table, cache, sync) /\ sync \in SyncState /\ sync.at = "count"
  BY DEF IInv, SyncOK, CountPlayers
<1>2. /\ i \in 1..Len(sync.rooms) /\ i \in 0..Cardinality(Rooms)
      /\ sync.rooms \in Seq(PendingRoom) /\ Len(sync.rooms) \in Nat
  <2>1. sync.counted \in Nat /\ sync.counted < Len(sync.rooms)
    BY <1>1, ReservedAreNumbers DEF SyncOK, SyncState
  <2> QED
    BY <1>1, <2>1, ReservedAreNumbers DEF SyncOK, SyncState, RowsOK
<1>3. sync' = [sync EXCEPT !.rooms = rows, !.counted = i,
                           !.at = IF i = Len(sync.rooms) THEN "merge" ELSE "count"]
  BY DEF CountPlayers, SyncState
<1>4. row \in PendingRoom /\ RowOf(Table, row)
  BY <1>1, <1>2 DEF SyncOK, RowsOK
<1> HIDE DEF i, row
<1>5. /\ new \in PendingRoom /\ new.room = row.room /\ new.status = row.status
      /\ new.playerCount = reserved[row.room]
  <2>1. reserved[row.room] \in 0..MaxReserved
    BY <1>4 DEF IInv, Tables!TypeOK, PendingRoom
  <2> QED
    BY <1>4, <2>1 DEF PendingRoom
<1>6. RowOf(Table, new)
  <2>1. reserved[row.room] <= reserved[row.room]
    BY <1>4, GatewayBounds DEF IInv, Tables!TypeOK, PendingRoom
  <2> QED
    BY <1>4, <1>5, <2>1 DEF RowOf, Table
<1> HIDE DEF new
<1>7. /\ rows \in Seq(PendingRoom) /\ Len(rows) = Len(sync.rooms)
      /\ \A j \in 1..Len(rows) : rows[j] = IF j = i THEN new ELSE sync.rooms[j]
  BY <1>2, <1>5
<1> HIDE DEF rows
<1>8. ASSUME NEW j \in 1..Len(rows)
      PROVE  /\ RowOf(Table, rows[j]) /\ rows[j].room = sync.rooms[j].room
             /\ rows[j].status = sync.rooms[j].status
  BY <1>1, <1>2, <1>5, <1>6, <1>7 DEF SyncOK, RowsOK, row
<1>9. RowsOK(Table, rows)
  BY <1>1, <1>7, <1>8 DEF SyncOK, RowsOK
<1>10. Fit(sync.job, cache, rows)
  BY <1>1, <1>7, <1>8 DEF SyncOK, Fit
<1>11. /\ sync'.job = sync.job /\ sync'.rooms = rows /\ sync'.counted = i
       /\ sync'.at = (IF i = Len(sync.rooms) THEN "merge" ELSE "count")
       /\ sync' \in SyncState
  BY <1>1, <1>2, <1>3, <1>7 DEF SyncState
<1>12. SyncOK(Table, cache, sync')
  BY <1>1, <1>2, <1>7, <1>9, <1>10, <1>11 DEF SyncOK, AskedOK
<1> QED
  BY <1>12, TablesUntouched DEF IInv, CountPlayers

LEMMA MergeKeeps ==
  ASSUME IInv, MergeRooms
  PROVE  IInv'
<1>1. /\ SyncOK(Table, cache, sync) /\ sync \in SyncState
      /\ EntriesOK(Table, cache) /\ RowsOK(Table, sync.rooms)
  BY DEF IInv, SyncOK
<1>2. \A r \in Rooms : Pruned[r] = cache[r] \/ Pruned[r] = NotCached
  BY DEF Pruned
<1>3. EntriesOK(Table, Pruned)
  <2>1. Pruned \in [Rooms -> RoomMemoryState \cup {NotCached}]
    BY <1>1 DEF Pruned, EntriesOK
  <2> QED
    BY <1>1, <1>2, <2>1 DEF EntriesOK
<1>4. Fit(sync.job, Pruned, sync.rooms)
  <2> SUFFICES ASSUME NEW i \in 1..Len(sync.rooms)
               PROVE  Pruned[sync.rooms[i].room] # NotCached
                        => Pruned[sync.rooms[i].room] = cache[sync.rooms[i].room]
    BY <1>1 DEF Fit, SyncOK
  <2>1. sync.rooms[i].room \in Rooms
    BY <1>1 DEF RowsOK, RowOf, PendingRoom
  <2> QED
    BY <1>2, <2>1
<1>5. EntriesOK(Table, cache') /\ SyncOK(Table, cache', sync')
  BY <1>1, <1>3, <1>4, ProceedKeeps, ReservedAreNumbers DEF MergeRooms
<1> QED
  BY <1>5, TablesUntouched DEF IInv, MergeRooms, tables

\* The room that is asked about, while its details are fetched.
LEMMA AskedRoom ==
  ASSUME IInv, sync.at = "details"
  PROVE  /\ Len(sync.rooms) \in Nat \ {0} /\ Asked \in Rooms
         /\ RowOf(Table, sync.rooms[1]) /\ sync.rooms[1].status = "started"
         /\ DetailsOf(Table, Asked, sync.details)
<1>1. Len(sync.rooms) \in Nat \ {0}
  BY DEF IInv, SyncOK, AskedOK, SyncState
<1>2. RowOf(Table, sync.rooms[1])
  BY <1>1 DEF IInv, SyncOK, RowsOK
<1>3. Asked \in Rooms
  BY <1>2 DEF Asked, RowOf, PendingRoom
<1> QED
  BY <1>1, <1>2, <1>3 DEF IInv, SyncOK, AskedOK, Asked

\* An answer that the tables bear out.
LEMMA AnswerKeeps ==
  ASSUME IInv, sync.at = "details", NEW waiting \in SUBSET Queries, NEW details,
         DetailsOf(Table, Asked, details),
         sync' = [sync EXCEPT !.waiting = waiting, !.details = details],
         UNCHANGED <<tables, cache>>, faults' \in 0..MaxFaults
  PROVE  IInv'
<1>1. SyncOK(Table, cache, sync) /\ sync \in SyncState
  BY DEF IInv, SyncOK
<1>2. details \in Details
  BY DEF DetailsOf
<1>3. /\ sync'.job = sync.job /\ sync'.at = sync.at /\ sync'.rooms = sync.rooms
      /\ sync'.counted = sync.counted /\ sync'.details = details
      /\ sync' \in SyncState
  BY <1>1, <1>2 DEF SyncState
<1>4. SyncOK(Table, cache, sync')
  BY <1>1, <1>3 DEF SyncOK, AskedOK, Asked
<1>5. EntriesOK(Table, cache') /\ cache' = cache
  BY DEF IInv
<1> QED
  BY <1>4, <1>5, TablesUntouched

LEMMA QueriesKeep ==
  ASSUME IInv, getDrawnNumbers \/ FindWinners \/ FindFinished \/ getRoomInfo \/ WinnersFail
  PROVE  IInv'
<1>1. sync.at = "details" /\ sync \in SyncState
  BY DEF getDrawnNumbers, FindWinners, FindFinished, getRoomInfo, WinnersFail, Answer,
         Waiting, IInv, SyncOK
<1>2. /\ Asked \in Rooms /\ DetailsOf(Table, Asked, sync.details)
      /\ sync.details \in Details /\ sync.waiting \in SUBSET Queries
  BY <1>1, AskedRoom DEF DetailsOf, SyncState
<1>3. /\ reserved[Asked] \in Nat
      /\ drawn[Asked] \in SUBSET Numbers /\ winners[Asked] \in SUBSET WinTypes
  BY <1>2, GatewayBounds DEF IInv, Tables!TypeOK
<1>4. faults \in 0..MaxFaults
  BY DEF IInv
<1>5. CASE getDrawnNumbers
  <2> DEFINE d == [sync.details EXCEPT !.drawnNumbers = drawn[Asked]]
  <2>1. DetailsOf(Table, Asked, d)
    BY <1>2, <1>3 DEF DetailsOf, Details, Table
  <2>2. /\ sync' = [sync EXCEPT !.waiting = (sync.waiting \ {"drawn"}) \cup {}, !.details = d]
        /\ UNCHANGED <<tables, cache, faults>>
    BY <1>5 DEF getDrawnNumbers, Answer
  <2> HIDE DEF d
  <2> QED
    BY <1>1, <1>2, <1>4, <2>1, <2>2, AnswerKeeps
<1>6. CASE FindWinners
  <2> DEFINE d == [sync.details EXCEPT !.winners = winners[Asked]]
  <2>1. DetailsOf(Table, Asked, d)
    BY <1>2, <1>3 DEF DetailsOf, Details, Table
  <2>2. /\ sync' = [sync EXCEPT !.waiting = (sync.waiting \ {"winners"}) \cup {"finished"},
                                !.details = d]
        /\ UNCHANGED <<tables, cache, faults>>
    BY <1>6 DEF FindWinners, Answer
  <2>3. (sync.waiting \ {"winners"}) \cup {"finished"} \in SUBSET Queries
    BY <1>2 DEF Queries
  <2> HIDE DEF d
  <2> QED
    BY <1>1, <1>4, <2>1, <2>2, <2>3, AnswerKeeps
<1>7. CASE FindFinished
  <2> DEFINE d == [sync.details EXCEPT !.gameFinished = Finished(Asked)]
  <2>1. Finished(Asked) \in BOOLEAN /\ (Finished(Asked) => "full" \in winners[Asked])
    BY <1>2 DEF Finished, IInv, RowsInv
  <2>2. DetailsOf(Table, Asked, d)
    BY <1>2, <2>1 DEF DetailsOf, Details, Table
  <2>3. /\ sync' = [sync EXCEPT !.waiting = (sync.waiting \ {"finished"}) \cup {}, !.details = d]
        /\ UNCHANGED <<tables, cache, faults>>
    BY <1>7 DEF FindFinished, Answer
  <2> HIDE DEF d
  <2> QED
    BY <1>1, <1>2, <1>4, <2>2, <2>3, AnswerKeeps
<1>8. CASE getRoomInfo
  <2> DEFINE d == [sync.details EXCEPT !.availableCards = MaxCards - reserved[Asked]]
  <2>1. DetailsOf(Table, Asked, d)
    BY <1>2, <1>3 DEF DetailsOf, Details, Table, MaxCards
  <2>2. /\ sync' = [sync EXCEPT !.waiting = (sync.waiting \ {"info"}) \cup {}, !.details = d]
        /\ UNCHANGED <<tables, cache, faults>>
    BY <1>8 DEF getRoomInfo, Answer
  <2> HIDE DEF d
  <2> QED
    BY <1>1, <1>2, <1>4, <2>1, <2>2, AnswerKeeps
<1>9. CASE WinnersFail
  <2> DEFINE d == [sync.details EXCEPT !.winners = {}, !.gameFinished = FALSE]
  <2>1. DetailsOf(Table, Asked, d)
    BY <1>2 DEF DetailsOf, Details
  <2>2. /\ sync' = [sync EXCEPT !.waiting = sync.waiting \ {"winners", "finished"}, !.details = d]
        /\ UNCHANGED <<tables, cache>> /\ Fails
    BY <1>9 DEF WinnersFail
  <2> HIDE DEF d
  <2>3. faults' \in 0..MaxFaults
    BY <1>4, <2>2, FailsBounded
  <2> QED
    BY <1>1, <1>2, <2>1, <2>2, <2>3, AnswerKeeps
<1> QED
  BY <1>5, <1>6, <1>7, <1>8, <1>9

\* What the entry of the room asked about is, and that the rest fits it.
EntryAsked == IF sync.job = "load" THEN NewEntry(sync.rooms[1]) ELSE cache[sync.rooms[1].room]

LEMMA AskedEntry ==
  ASSUME IInv, sync.at = "details", NEW details, DetailsOf(Table, Asked, details)
  PROVE  /\ EntryOf(Table, Asked, WithDetails(EntryAsked, details))
         /\ sync.job = "sync" => /\ cache[Asked] # NotCached
                                 /\ EntryOf(Table, Asked, cache[Asked])
<1>1. /\ Asked \in Rooms /\ RowOf(Table, sync.rooms[1]) /\ sync.rooms[1].status = "started"
      /\ Asked = sync.rooms[1].room
  BY AskedRoom DEF Asked
<1>2. details \in Details
  BY DEF DetailsOf
<1>3. sync.job \in {"load", "sync"}
  BY DEF IInv, SyncOK, SyncState
<1>4. CASE sync.job = "load"
  <2> DEFINE row == sync.rooms[1]
             e == NewEntry(row)
  <2>1. row \in PendingRoom /\ row.status = "started" /\ RowOf(Table, row) /\ row.room = Asked
    BY <1>1 DEF RowOf
  <2> HIDE DEF row
  <2>2. /\ e \in RoomMemoryState /\ e.status = "started" /\ e.playerCount = row.playerCount
    BY <2>1 DEF NewEntry, RoomMemoryState, NoDetails, Details, PendingRoom, MaxCards
  <2>3. EntryAsked = e
    BY <1>4 DEF EntryAsked, row
  <2> HIDE DEF e
  <2>4. WithDetails(e, details) = [e EXCEPT !.details = details]
    BY DEF WithDetails
  <2>5. /\ WithDetails(e, details) \in RoomMemoryState
        /\ WithDetails(e, details).status = "started"
        /\ WithDetails(e, details).playerCount = row.playerCount
        /\ WithDetails(e, details).details = details
    BY <1>2, <2>2, <2>4 DEF RoomMemoryState
  <2> QED
    BY <1>4, <2>1, <2>3, <2>5 DEF EntryOf, RowOf
<1>5. CASE sync.job = "sync"
  <2> DEFINE e == cache[Asked]
  <2>1. e # NotCached /\ e.status = "started"
    BY <1>1, <1>5 DEF IInv, SyncOK, AskedOK
  <2>2. EntryOf(Table, Asked, e) /\ e \in RoomMemoryState
    BY <1>1, <2>1 DEF IInv, EntriesOK, EntryOf
  <2>3. EntryAsked = e
    BY <1>1, <1>5 DEF EntryAsked
  <2> HIDE DEF e
  <2>4. WithDetails(e, details) = [e EXCEPT !.details = details]
    BY DEF WithDetails
  <2>5. /\ WithDetails(e, details) \in RoomMemoryState
        /\ WithDetails(e, details).status = "started"
        /\ WithDetails(e, details).playerCount = e.playerCount
        /\ WithDetails(e, details).details = details
    BY <1>2, <2>1, <2>2, <2>4 DEF RoomMemoryState
  <2>6. EntryOf(Table, Asked, WithDetails(e, details))
    BY <2>1, <2>2, <2>5 DEF EntryOf
  <2> QED
    BY <2>1, <2>2, <2>3, <2>6 DEF e
<1> QED
  BY <1>3, <1>4, <1>5

\* The cache once the details have come.
Filled(details) == [cache EXCEPT ![sync.rooms[1].room] = WithDetails(EntryAsked, details)]

LEMMA FinishProceeds ==
  ASSUME NEW details, FinishRoom(details)
  PROVE  Proceed(Filled(details), Tail(sync.rooms))
BY DEF FinishRoom, Filled, EntryAsked

LEMMA FinishKeeps ==
  ASSUME IInv, sync.at = "details", NEW details, DetailsOf(Table, Asked, details),
         FinishRoom(details)
  PROVE  EntriesOK(Table, cache') /\ SyncOK(Table, cache', sync')
<1> DEFINE entries == Filled(details)
           rows == Tail(sync.rooms)
<1>1. /\ SyncOK(Table, cache, sync) /\ sync \in SyncState
      /\ EntriesOK(Table, cache) /\ RowsOK(Table, sync.rooms)
  BY DEF IInv, SyncOK
<1>2. /\ Asked \in Rooms /\ Asked = sync.rooms[1].room /\ Len(sync.rooms) \in Nat \ {0}
      /\ EntryOf(Table, Asked, WithDetails(EntryAsked, details))
  BY AskedRoom, AskedEntry DEF Asked
<1>3. /\ entries[Asked] = WithDetails(EntryAsked, details)
      /\ \A r \in Rooms : r # Asked => entries[r] = cache[r]
      /\ entries \in [Rooms -> RoomMemoryState \cup {NotCached}]
  BY <1>1, <1>2 DEF Filled, EntriesOK, EntryOf
<1>4. Proceed(entries, rows)
  BY FinishProceeds
<1>5. /\ rows \in Seq(PendingRoom) /\ Len(rows) = Len(sync.rooms) - 1
      /\ \A i \in 1..Len(rows) : i + 1 \in 1..Len(sync.rooms) /\ rows[i] = sync.rooms[i + 1]
  <2>1. sync.rooms \in Seq(PendingRoom) /\ sync.rooms # <<>>
    BY <1>1, <1>2 DEF RowsOK
  <2> QED
    BY <2>1, HeadTailProperties
<1> HIDE DEF entries, rows
<1>6. EntriesOK(Table, entries)
  BY <1>1, <1>2, <1>3 DEF EntriesOK
<1>7. ASSUME NEW i \in 1..Len(rows)
      PROVE  rows[i].room \in Rooms /\ RowOf(Table, rows[i]) /\ rows[i].room # Asked
  <2>1. RowOf(Table, rows[i])
    BY <1>1, <1>5 DEF RowsOK
  <2>2. rows[i].room \in Rooms
    BY <2>1 DEF RowOf, PendingRoom
  <2>3. i + 1 \in 1..Len(sync.rooms) /\ 1 \in 1..Len(sync.rooms) /\ i + 1 # 1
    BY <1>2, <1>5
  <2>4. sync.rooms[i + 1].room # sync.rooms[1].room
    BY <1>1, <2>3 DEF RowsOK
  <2> QED
    BY <1>2, <1>5, <2>1, <2>2, <2>4
<1>8. RowsOK(Table, rows)
  <2>1. ASSUME NEW i \in 1..Len(rows), NEW j \in 1..Len(rows), rows[i].room = rows[j].room
        PROVE  i = j
    <3>1. i + 1 = j + 1
      BY <1>1, <1>5, <2>1 DEF RowsOK
    <3> QED
      BY <3>1
  <2>2. Len(rows) <= Cardinality(Rooms)
    BY <1>1, <1>2, <1>5, ReservedAreNumbers DEF RowsOK
  <2> QED
    BY <1>5, <1>7, <2>1, <2>2 DEF RowsOK
<1>9. Fit(sync.job, entries, rows)
  <2>1. Fit(sync.job, cache, sync.rooms)
    BY <1>1 DEF SyncOK
  <2> SUFFICES ASSUME NEW i \in 1..Len(rows)
               PROVE  /\ entries[rows[i].room] # NotCached /\ rows[i].status = "pending"
                          => entries[rows[i].room].status = "pending"
                      /\ sync.job = "load" => entries[rows[i].room] = NotCached
    BY DEF Fit
  <2>2. /\ i + 1 \in 1..Len(sync.rooms) /\ rows[i] = sync.rooms[i + 1]
        /\ entries[rows[i].room] = cache[rows[i].room]
    BY <1>3, <1>5, <1>7
  <2> QED
    BY <2>1, <2>2 DEF Fit
<1> QED
  BY <1>1, <1>4, <1>6, <1>8, <1>9, ProceedKeeps, ReservedAreNumbers

\* What a failing query leaves: the answers so far, or the entry as it was.
LEMMA AnsweredOrKept ==
  ASSUME IInv, sync.at = "details"
  PROVE  DetailsOf(Table, Asked,
                   IF sync.job = "load" THEN sync.details ELSE cache[Asked].details)
<1>1. DetailsOf(Table, Asked, sync.details)
  BY AskedRoom
<1>2. sync.job \in {"load", "sync"}
  BY DEF IInv, SyncOK, SyncState
<1>3. sync.job = "sync" => EntryOf(Table, Asked, cache[Asked])
  BY <1>1, AskedEntry
<1> QED
  BY <1>1, <1>2, <1>3 DEF EntryOf

LEMMA DetailsFailKeeps ==
  ASSUME IInv, DetailsFail
  PROVE  IInv'
<1> DEFINE d == IF sync.job = "load" THEN sync.details ELSE cache[Asked].details
<1>1. sync.at = "details" /\ UNCHANGED tables /\ FinishRoom(d)
  BY DEF DetailsFail, Waiting
<1>2. faults' \in 0..MaxFaults
  BY FailsBounded DEF DetailsFail, IInv
<1>3. DetailsOf(Table, Asked, d)
  BY <1>1, AnsweredOrKept
<1> HIDE DEF d
<1>4. EntriesOK(Table, cache') /\ SyncOK(Table, cache', sync')
  BY <1>1, <1>3, FinishKeeps
<1> QED
  BY <1>1, <1>2, <1>4, TablesUntouched

LEMMA ApplyKeeps ==
  ASSUME IInv, ApplyDetails
  PROVE  IInv'
<1>1. sync.at = "details" /\ FinishRoom(sync.details) /\ UNCHANGED <<tables, faults>>
  BY DEF ApplyDetails
<1>2. DetailsOf(Table, Asked, sync.details)
  BY <1>1, AskedRoom
<1>3. EntriesOK(Table, cache') /\ SyncOK(Table, cache', sync')
  BY <1>1, <1>2, FinishKeeps
<1> QED
  BY <1>1, <1>3, TablesUntouched DEF IInv

LEMMA RestartKeeps ==
  ASSUME IInv, Restart
  PROVE  IInv'
<1>1. /\ cache' = [r \in Rooms |-> NotCached] /\ sync' = Job("load", "find")
      /\ UNCHANGED tables /\ faults' \in 0..MaxFaults
  BY FailsBounded DEF Restart, IInv
<1>2. \A r \in Rooms : cache'[r] = NotCached
  BY <1>1
<1>3. EntriesOK(Table, cache')
  BY <1>1, <1>2 DEF EntriesOK
<1>4. SyncOK(Table, cache', sync')
  BY <1>1, <1>2, JobsStart
<1> QED
  BY <1>1, <1>3, <1>4, TablesUntouched

LEMMA StartsAndFailuresKeep ==
  ASSUME IInv, StartSync \/ FindFails
  PROVE  IInv'
<1>1. /\ UNCHANGED <<tables, cache>> /\ faults' \in 0..MaxFaults
      /\ \E step \in {"idle", "find"} : sync' = Job("sync", step)
  BY FailsBounded DEF StartSync, FindFails, Idle, IInv
<1>2. SyncOK(Table, cache, sync')
  BY <1>1, JobsStart
<1> QED
  BY <1>1, <1>2, TablesUntouched DEF IInv

-----------------------------------------------------------------------------
(***************************************************************************)
(* The invariant, and what follows from it                                 *)
(***************************************************************************)
LEMMA InitIInv ==
  ASSUME Init
  PROVE  IInv
<1>1. Tables!TypeOK /\ RowsInv
  BY GatewayBounds DEF Init, Tables!Init, Tables!TypeOK, Tables!RoomStatus, RowsInv, Begun
<1>2. \A r \in Rooms : cache[r] = NotCached
  BY DEF Init
<1>3. EntriesOK(Table, cache)
  BY <1>2 DEF Init, EntriesOK
<1>4. SyncOK(Table, cache, sync)
  <2>1. Cardinality(Rooms) \in Nat
    BY RoomsAssumption, FS_CardinalityType
  <2>2. /\ sync.job = "load" /\ sync.at = "find" /\ sync.rooms = <<>> /\ sync.counted = 0
    BY DEF Init, Job
  <2>3. sync \in SyncState
    BY <2>1 DEF Init, Job, SyncState, NoDetails, Details, MaxCards
  <2>4. RowsOK(Table, sync.rooms)
    BY <2>1, <2>2 DEF RowsOK
  <2> QED
    BY <1>2, <2>2, <2>3, <2>4 DEF SyncOK, Fit, AskedOK
<1> QED
  BY <1>1, <1>3, <1>4, GatewayBounds DEF IInv, Init

LEMMA NextIInv ==
  ASSUME IInv, [Next]_vars
  PROVE  IInv'
<1>1. CASE EngineStep
  BY <1>1, EngineKeeps
<1>2. CASE decrementRemainingSeconds
  BY <1>2, CountdownKeeps
<1>3. CASE SyncStep
  BY <1>3, StartsAndFailuresKeep, FindKeeps, CountKeeps, MergeKeeps, QueriesKeep, ApplyKeeps,
     DetailsFailKeeps DEF SyncStep
<1>4. CASE Restart
  BY <1>4, RestartKeeps
<1>5. CASE UNCHANGED vars
  <2>1. UNCHANGED tables /\ cache' = cache /\ sync' = sync /\ faults' = faults
    BY <1>5 DEF vars, tables
  <2> QED
    BY <2>1, TablesUntouched DEF IInv
<1> QED
  BY <1>1, <1>2, <1>3, <1>4, <1>5 DEF Next

THEOREM Invariance == Spec => []IInv
<1>1. Init => IInv
  BY InitIInv
<1>2. IInv /\ [Next]_vars => IInv'
  BY NextIInv
<1> QED
  BY <1>1, <1>2, PTL DEF Spec

\* The types of the tables, of the entries of roomsCache and of the state of the
\* sync, at every await of loadInitialDataToCache and syncCacheWithDatabase.
THEOREM TypeCorrect == Spec => []TypeOK
<1>1. IInv => TypeOK
  BY DEF IInv, EntriesOK, SyncOK, TypeOK
<1> QED
  BY <1>1, Invariance, PTL

\* No answer of the gateway runs ahead of the tables, whatever failed, however
\* the queries of one sync interleave with the engine and the countdown.
THEOREM AnswersAreBorneOut == Spec => []AnswersTrailTheTables
<1>1. ASSUME IInv PROVE AnswersTrailTheTables
  <2> SUFFICES ASSUME NEW r \in Rooms
               PROVE  /\ roomInfo(r).playerCount <= reserved[r]
                      /\ MaxCards - roomInfo(r).availableCards <= reserved[r]
                      /\ numberDrawn(r) \subseteq drawn[r]
                      /\ win(r).winners \subseteq winners[r]
                      /\ win(r).gameFinished => "full" \in winners[r]
    BY DEF AnswersTrailTheTables
  <2>1. CASE r \in Cached
    <3>1. EntryOf(Table, r, cache[r])
      BY <1>1, <2>1 DEF IInv, EntriesOK, Cached
    <3> QED
      BY <2>1, <3>1 DEF EntryOf, DetailsOf, Table, roomInfo, numberDrawn, win
  <2>2. CASE r \notin Cached
    <3>1. reserved[r] \in Nat
      BY <1>1, ReservedAreNumbers DEF Table
    <3>2. status[r] = "finished" => "full" \in winners[r]
      BY <1>1 DEF IInv, RowsInv
    <3>3. /\ roomInfo(r).playerCount = reserved[r]
          /\ roomInfo(r).availableCards = MaxCards - reserved[r]
      BY <2>2 DEF roomInfo
    <3>4. /\ reserved[r] <= reserved[r]
          /\ MaxCards - (MaxCards - reserved[r]) <= reserved[r]
      BY <3>1 DEF MaxCards
    <3>5. /\ numberDrawn(r) = drawn[r] /\ win(r).winners = winners[r]
          /\ win(r).gameFinished <=> status[r] = "finished"
      BY <2>2 DEF numberDrawn, win, Finished
    <3> QED
      BY <3>2, <3>3, <3>4, <3>5
  <2> QED
    BY <2>1, <2>2
<1> QED
  BY <1>1, Invariance, PTL

\* A room that is shown as pending shows no number and no winner, although its
\* row may start between any two queries.
THEOREM PendingShowsNoGame == Spec => []PendingRoomsShowNoGame
<1>1. ASSUME IInv PROVE PendingRoomsShowNoGame
  <2> SUFFICES ASSUME NEW r \in Rooms, roomInfo(r).status = "pending"
               PROVE  numberDrawn(r) = {} /\ win(r).winners = {}
    BY DEF PendingRoomsShowNoGame
  <2>1. CASE r \in Cached
    <3>1. EntryOf(Table, r, cache[r])
      BY <1>1, <2>1 DEF IInv, EntriesOK, Cached
    <3> QED
      BY <2>1, <3>1 DEF EntryOf, roomInfo, numberDrawn, win
  <2>2. CASE r \notin Cached
    <3>1. status[r] \notin Begun => drawn[r] = {} /\ winners[r] = {}
      BY <1>1 DEF IInv, RowsInv
    <3> QED
      BY <2>2, <3>1 DEF roomInfo, numberDrawn, win, Begun
  <2> QED
    BY <2>1, <2>2
<1> QED
  BY <1>1, Invariance, PTL

-----------------------------------------------------------------------------
(***************************************************************************)
(* The countdown                                                           *)
(***************************************************************************)

\* The countdown of an entry that goes on does not go up.
Falls(r) ==
    cache[r].remainingSeconds > 0 /\ cache'[r] # NotCached
        => cache'[r].remainingSeconds <= cache[r].remainingSeconds

LEMMA CountdownsAreIntegers ==
  ASSUME NEW e \in RoomMemoryState
  PROVE  e.remainingSeconds \in Int
<1>1. e.remainingSeconds \in Nat \cup Seconds
  BY DEF RoomMemoryState
<1>2. ASSUME NEW n \in Nat \cup Seconds PROVE n \in Int
  <2>1. CASE n \in Nat
    BY <2>1
  <2>2. CASE n \in Seconds
    BY <2>2, SecondsAssumption
  <2> QED
    BY <2>1, <2>2
<1> QED
  BY <1>1, <1>2

\* What Proceed makes of an entry that is still counting.
LEMMA ProceedFalls ==
  ASSUME NEW entries, NEW rows \in Seq(PendingRoom), Proceed(entries, rows),
         NEW r \in Rooms, entries[r] # NotCached, entries[r] \in RoomMemoryState,
         entries[r].remainingSeconds > 0
  PROVE  cache'[r].remainingSeconds = entries[r].remainingSeconds
<1>1. PICK last \in 0..Len(rows) : ProceedTo(entries, rows, last)
  BY ProceedGoes
<1>2. CASE cache'[r] = entries[r]
  BY <1>2
<1>3. CASE cache'[r] # entries[r]
  <2>1. PICK i \in 1..last : rows[i].room = r /\ cache'[r] = Merged(entries, rows[i])
    BY <1>1, <1>3 DEF ProceedTo
  <2>2. cache'[r] = Updated(entries[r], rows[i])
    BY <2>1 DEF Merged
  <2> DEFINE e == entries[r]
  <2>3. e.remainingSeconds \in Int
    BY CountdownsAreIntegers
  <2>4. ~ (e.remainingSeconds <= 0)
    BY <2>3
  <2> HIDE DEF e
  <2>5. Updated(e, rows[i]).remainingSeconds = e.remainingSeconds
    <3>1. e \in RoomMemoryState
      BY DEF e
    <3> QED
      BY <2>4, <3>1 DEF Updated, RoomMemoryState
  <2> QED
    BY <2>2, <2>5 DEF e
<1> QED
  BY <1>2, <1>3

LEMMA StepFalls ==
  ASSUME IInv, [Next]_vars, NEW r \in Cached
  PROVE  Falls(r)
<1>1. r \in Rooms /\ cache[r] # NotCached /\ cache[r] \in RoomMemoryState
  BY DEF Cached, IInv, EntriesOK, EntryOf
<1>2. cache[r].remainingSeconds \in Int
  BY <1>1, CountdownsAreIntegers
<1> SUFFICES ASSUME cache[r].remainingSeconds > 0, cache'[r] # NotCached
             PROVE  cache'[r].remainingSeconds <= cache[r].remainingSeconds
  BY DEF Falls
<1>3. CASE cache' = cache
  BY <1>2, <1>3
<1>4. CASE decrementRemainingSeconds
  <2>1. \/ cache'[r] = cache[r]
        \/ cache'[r] = [cache[r] EXCEPT !.remainingSeconds = cache[r].remainingSeconds - 1]
    BY <1>1, <1>4 DEF decrementRemainingSeconds
  <2>2. cache'[r].remainingSeconds \in {cache[r].remainingSeconds, cache[r].remainingSeconds - 1}
    BY <1>1, <2>1 DEF RoomMemoryState
  <2> QED
    BY <1>2, <2>2
<1>5. CASE Restart
  BY <1>1, <1>5 DEF Restart
<1>6. CASE MergeRooms
  <2>1. sync.rooms \in Seq(PendingRoom) /\ Proceed(Pruned, sync.rooms)
    BY <1>6 DEF MergeRooms, IInv, SyncOK, RowsOK
  <2>2. CASE Pruned[r] = cache[r]
    BY <1>1, <1>2, <2>1, <2>2, ProceedFalls
  <2>3. CASE Pruned[r] # cache[r]
    <3>1. Pruned[r] = NotCached /\ \A i \in DOMAIN sync.rooms : sync.rooms[i].room # r
      BY <1>1, <2>3 DEF Pruned
    <3>2. PICK last \in 0..Len(sync.rooms) : ProceedTo(Pruned, sync.rooms, last)
      BY <2>1, ProceedGoes
    <3>3. \A i \in 1..last : i \in DOMAIN sync.rooms
      BY <2>1
    <3>4. cache'[r] = NotCached
      BY <1>1, <3>1, <3>2, <3>3 DEF ProceedTo
    <3> QED
      BY <3>4
  <2> QED
    BY <2>2, <2>3
<1>7. ASSUME NEW details, FinishRoom(details), sync.at = "details",
             DetailsOf(Table, Asked, details)
      PROVE  cache'[r].remainingSeconds <= cache[r].remainingSeconds
  <2>1. /\ Asked \in Rooms /\ Asked = sync.rooms[1].room /\ Len(sync.rooms) \in Nat \ {0}
        /\ sync.rooms \in Seq(PendingRoom) /\ Tail(sync.rooms) \in Seq(PendingRoom)
    <3>1. Len(sync.rooms) \in Nat \ {0} /\ sync.rooms \in Seq(PendingRoom)
      BY <1>7, AskedRoom DEF IInv, SyncOK, RowsOK
    <3> QED
      BY <1>7, <3>1, AskedRoom DEF Asked
  <2>2. Proceed(Filled(details), Tail(sync.rooms))
    BY <1>7, FinishProceeds
  <2>3. DOMAIN cache = Rooms
    BY DEF IInv, EntriesOK
  <2>4. CASE r # Asked
    <3>1. Filled(details)[r] = cache[r]
      BY <1>1, <2>1, <2>3, <2>4 DEF Filled
    <3>2. /\ Filled(details)[r] # NotCached /\ Filled(details)[r] \in RoomMemoryState
          /\ Filled(details)[r].remainingSeconds > 0
      BY <1>1, <3>1
    <3>3. cache'[r].remainingSeconds = Filled(details)[r].remainingSeconds
      BY <1>1, <2>1, <2>2, <3>2, ProceedFalls
    <3> QED
      BY <1>2, <3>1, <3>3
  <2>5. CASE r = Asked
    <3>1. sync.job = "sync"
      <4>1. Fit(sync.job, cache, sync.rooms) /\ sync.job \in {"load", "sync"}
        BY DEF IInv, SyncOK, SyncState
      <4> QED
        BY <1>1, <2>1, <2>5, <4>1 DEF Fit
    <3>2. Filled(details)[r] = WithDetails(cache[r], details)
      BY <1>1, <2>1, <2>3, <2>5, <3>1 DEF Filled, EntryAsked
    <3>3. /\ WithDetails(cache[r], details).remainingSeconds = cache[r].remainingSeconds
          /\ WithDetails(cache[r], details) # NotCached
          /\ WithDetails(cache[r], details) \in RoomMemoryState
      <4>1. EntryOf(Table, r, WithDetails(cache[r], details))
        BY <1>7, <2>5, <3>1, AskedEntry DEF EntryAsked, Asked
      <4>2. WithDetails(cache[r], details).remainingSeconds = cache[r].remainingSeconds
        BY <1>1 DEF WithDetails, RoomMemoryState
      <4> QED
        BY <4>1, <4>2, EntriesAreCached DEF EntryOf
    <3>4. /\ Filled(details)[r] # NotCached /\ Filled(details)[r] \in RoomMemoryState
          /\ Filled(details)[r].remainingSeconds > 0
      BY <1>1, <3>2, <3>3
    <3>5. cache'[r].remainingSeconds = Filled(details)[r].remainingSeconds
      BY <1>1, <2>1, <2>2, <3>4, ProceedFalls
    <3> QED
      BY <1>2, <3>2, <3>3, <3>5
  <2> QED
    BY <2>4, <2>5
<1>8. CASE ApplyDetails
  BY <1>7, <1>8, AskedRoom DEF ApplyDetails
<1>9. CASE DetailsFail
  <2> DEFINE d == IF sync.job = "load" THEN sync.details ELSE cache[Asked].details
  <2>1. sync.at = "details" /\ FinishRoom(d)
    BY <1>9 DEF DetailsFail, Waiting
  <2>2. DetailsOf(Table, Asked, d)
    BY <2>1, AnsweredOrKept
  <2> HIDE DEF d
  <2> QED
    BY <1>7, <2>1, <2>2
<1>10. \/ cache' = cache \/ decrementRemainingSeconds \/ Restart \/ MergeRooms
       \/ ApplyDetails \/ DetailsFail
  BY DEF Next, SyncStep, EngineStep, StartSync, FindRooms, CountPlayers, FindFails,
         getDrawnNumbers, FindWinners, FindFinished, getRoomInfo, Answer, WinnersFail, vars
<1> QED
  BY <1>3, <1>4, <1>5, <1>6, <1>8, <1>9, <1>10

\* A sync brings a countdown up to date only when it has ended: no client sees the
\* seconds of a room rise while they run, over failed loads and new entries too.
THEOREM CountdownFalls == Spec => CountdownOnlyFalls
<1>1. ASSUME IInv, [Next]_vars
      PROVE  [\A r \in Cached :
                cache[r].remainingSeconds > 0 /\ cache'[r] # NotCached
                    => cache'[r].remainingSeconds <= cache[r].remainingSeconds]_vars
  BY <1>1, StepFalls DEF Falls
<1> QED
  BY <1>1, Invariance, PTL DEF Spec, CountdownOnlyFalls

===============================================================================
