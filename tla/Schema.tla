-------------------------------- MODULE Schema --------------------------------
(***************************************************************************)
(* The tables and who makes them: the migrations and seeds that            *)
(* data-source.ts loads, run and reverted one by one, and the application, *)
(* which with synchronize on gives every entity's table the shape of the   *)
(* entity.  One operator uses the command line; a run of the pending       *)
(* migrations is one transaction, a revert another.                        *)
(*                                                                         *)
(* Of a table the columns and the foreign keys count; types, unique keys   *)
(* and indices are left out.  Bound: MaxStarts, starts of the application. *)
(***************************************************************************)
EXTENDS Integers, Sequences, FiniteSets

CONSTANT MaxStarts

Key(column, to, onDelete) == [column |-> column, to |-> to, onDelete |-> onDelete]

\* A migration creates a table unless it exists, and adds its foreign keys.
CreateTable(timestamp, table, columns, keys) ==
    [timestamp |-> timestamp, kind |-> "table", table |-> table,
     columns |-> columns \cup {"id"}, keys |-> keys]

\* A seed inserts rows, giving them values for some columns.
Seed(timestamp, table, columns) ==
    [timestamp |-> timestamp, kind |-> "seed", table |-> table,
     columns |-> columns, keys |-> {}]

-----------------------------------------------------------------------------
CreateUserTable ==
    CreateTable(1, "users",
        {"firstName", "lastName", "username", "phoneNumber", "role", "walletBalance",
         "bankCardNumber", "shebaNumber", "referralCode", "referredBy", "createdAt",
         "updatedAt"}, {})

CreateGameRoomsTable ==
    CreateTable(2, "game_rooms",
        {"entryFee", "startTimer", "isActive", "type", "minPlayers", "createdAt"}, {})

CreateGlobalActiveRoomTable ==
    CreateTable(3, "active_room_global",
        {"gameRoomId", "remainingSeconds", "status", "createdAt", "updatedAt"},
        {Key("gameRoomId", "game_rooms", "SET_NULL")})

CreateActiveRoomWinners ==
    CreateTable(4, "active_room_winners",
        {"activeRoomId", "userId", "cardId", "winType", "winAt"},
        {Key("activeRoomId", "active_room_global", "CASCADE")})

CreateCardsTable == CreateTable(5, "cards", {"code", "matrix", "created_at"}, {})

CreatePrizeConfigsTable ==
    CreateTable(6, "prize_configs",
        {"type", "one_line_prize_percent", "full_card_prize_percent", "created_at",
         "updated_at"}, {})

CreateOtpCodesTable ==
    CreateTable(7, "otp_codes",
        {"phoneNumber", "code", "isVerified", "verifiedAt", "incomingReferral", "createdAt",
         "expiresAt"}, {})

CreateReferralLinksTable ==
    CreateTable(8, "referral_links", {"userId", "code", "createdAt"},
        {Key("userId", "users", "CASCADE")})

CreateDrawnNumbersTable ==
    CreateTable(9, "drawn_numbers", {"activeRoomId", "number", "createdAt"},
        {Key("activeRoomId", "active_room_global", "CASCADE")})

CreateReservationsTable ==
    CreateTable(10, "reservations",
        {"userId", "cardCount", "entryFee", "createdAt", "activeRoomId"},
        {Key("userId", "users", "CASCADE"),
         Key("activeRoomId", "active_room_global", "SET_NULL")})

CreateUserReservedCardsTable ==
    CreateTable(11, "user_reserved_cards", {"userId", "activeRoomId", "cardId", "createdAt"},
        {Key("userId", "users", "CASCADE"),
         Key("activeRoomId", "active_room_global", "CASCADE"),
         Key("cardId", "cards", "CASCADE")})

CreateWalletTransactionsTable ==
    CreateTable(12, "wallet_transactions",
        {"userId", "amount", "type", "status", "createdAt", "description"},
        {Key("userId", "users", "CASCADE")})

CreateWheelSpinsTable ==
    CreateTable(13, "wheel_spins", {"userId", "prizeAmount", "lastSpinAt"},
        {Key("userId", "users", "CASCADE")})

CreateAppSettingsTable ==
    CreateTable(15, "app_settings", {"key", "value", "createdAt", "updatedAt"}, {})

CreateSuperAdminUser ==
    Seed(1, "users", {"firstName", "lastName", "username", "phoneNumber", "role"})

\* Mutant: numbered after the tables that point to its rows.
SeedGameRooms_Later ==
    Seed(14, "game_rooms", {"entryFee", "startTimer", "isActive", "type", "minPlayers"})

SeedGameRooms ==
    Seed(2, "game_rooms", {"entryFee", "startTimer", "isActive", "type", "minPlayers"})

SeedCardsTable == Seed(6, "cards", {"code", "matrix"})

SeedPrizeConfigs ==
    Seed(7, "prize_configs", {"type", "one_line_prize_percent", "full_card_prize_percent"})

\* Mutant: the timestamp of its file's name.
SeedAppSettings_AsItsFile == Seed(8, "app_settings", {"key", "value"})

\* The timestamp of the class; the file is named 1700000000008.
SeedAppSettings == Seed(16, "app_settings", {"key", "value"})

CreateTables ==
    <<CreateUserTable, CreateGameRoomsTable, CreateGlobalActiveRoomTable,
      CreateActiveRoomWinners, CreateCardsTable, CreatePrizeConfigsTable,
      CreateOtpCodesTable, CreateReferralLinksTable, CreateDrawnNumbersTable,
      CreateReservationsTable, CreateUserReservedCardsTable,
      CreateWalletTransactionsTable, CreateWheelSpinsTable, CreateAppSettingsTable>>

Seeds == <<CreateSuperAdminUser, SeedGameRooms, SeedCardsTable, SeedPrizeConfigs,
           SeedAppSettings>>

\* The files in the order of the two globs; TypeORM sorts them by timestamp
\* and leaves equal timestamps in this order.
Loaded == CreateTables \o Seeds

Rank(i) == Cardinality({j \in DOMAIN Loaded :
    \/ Loaded[j].timestamp < Loaded[i].timestamp
    \/ Loaded[j].timestamp = Loaded[i].timestamp /\ j <= i})

Migrations == [k \in DOMAIN Loaded |-> Loaded[CHOOSE i \in DOMAIN Loaded : Rank(i) = k]]

-----------------------------------------------------------------------------
(***************************************************************************)
(* The entities, where they differ from what the migrations make.          *)
(***************************************************************************)
Table(columns, keys) == [columns |-> columns, keys |-> keys]
AsMigrated(create) == Table(create.columns, create.keys)

User == AsMigrated(CreateUserTable)
GameRoom == AsMigrated(CreateGameRoomsTable)
ActiveRoomGlobal == AsMigrated(CreateGlobalActiveRoomTable)

ActiveRoomWinners ==
    Table(CreateActiveRoomWinners.columns,
        CreateActiveRoomWinners.keys \cup
            {Key("userId", "users", "CASCADE"), Key("cardId", "cards", "CASCADE")})

Card == AsMigrated(CreateCardsTable)
OtpCode == AsMigrated(CreateOtpCodesTable)
DrawnNumber == AsMigrated(CreateDrawnNumbersTable)

Reservation ==
    Table(CreateReservationsTable.columns \cup {"status"}, CreateReservationsTable.keys)

UserReservedCard == AsMigrated(CreateUserReservedCardsTable)

WalletTransaction ==
    Table(CreateWalletTransactionsTable.columns, {Key("userId", "users", "NO_ACTION")})

WheelSpin ==
    Table(CreateWheelSpinsTable.columns \cup {"createdAt", "updatedAt"},
        {Key("userId", "users", "NO_ACTION")})

AppSettings == AsMigrated(CreateAppSettingsTable)

\* prize_configs and referral_links have no entity.
Entities ==
    [users |-> User, game_rooms |-> GameRoom, active_room_global |-> ActiveRoomGlobal,
     active_room_winners |-> ActiveRoomWinners, cards |-> Card, otp_codes |-> OtpCode,
     drawn_numbers |-> DrawnNumber, reservations |-> Reservation,
     user_reserved_cards |-> UserReservedCard, wallet_transactions |-> WalletTransaction,
     wheel_spins |-> WheelSpin, app_settings |-> AppSettings]

-----------------------------------------------------------------------------
VARIABLES
    db,             \* tables, how many migrations are executed, and whether a
                    \* user has the phone number or username of the seeded admin
    before,         \* <<what an open run goes back to when it fails>>
    app,            \* is the application up?
    starts,         \* how often it was started ...
    synchronized    \* ... and was it ever with synchronize on?

vars == <<db, before, app, starts, synchronized>>

NoRun == <<>>
NoTables == [t \in {} |-> Table({}, {})]

Init ==
    /\ db = [tables |-> NoTables, executed |-> 0, adminTaken |-> FALSE]
    /\ before = NoRun
    /\ app = "down"
    /\ starts = 0
    /\ synchronized = FALSE

Exists(table) == table \in DOMAIN db.tables
Pending == IF db.executed < Len(Migrations) THEN {Migrations[db.executed + 1]} ELSE {}
LastExecuted == IF db.executed > 0 THEN {Migrations[db.executed]} ELSE {}

\* The keys of other tables to a table.
KeysTo(table) ==
    {k \in UNION {db.tables[t].keys : t \in DOMAIN db.tables \ {table}} : k.to = table}

\* The database takes the statements of up().
Applies(m) ==
    IF m.kind = "table"
    THEN \A k \in m.keys : Exists(k.to) \/ k.to = m.table
    ELSE /\ Exists(m.table) /\ m.columns \subseteq db.tables[m.table].columns
         /\ ~(m.table = "users" /\ db.adminTaken)

\* Keys that may keep a row from being deleted: active_room_global.gameRoomId
\* is NOT NULL, so SET NULL does not help.
Holds(k) == k.onDelete = "NO_ACTION" \/ k.column = "gameRoomId"

\* The database takes the statements of down(), whatever the rows are.
Reverts(m) ==
    /\ Exists(m.table)
    /\ IF m.kind = "table" THEN KeysTo(m.table) = {}
       ELSE starts > 0 => \A k \in KeysTo(m.table) : ~Holds(k)

Created(m) ==
    [t \in DOMAIN db.tables \cup {m.table} |->
        IF t # m.table THEN db.tables[t]
        ELSE IF Exists(t) THEN [db.tables[t] EXCEPT !.keys = @ \cup m.keys]
        ELSE AsMigrated(m)]

Dropped(m) == [t \in DOMAIN db.tables \ {m.table} |-> db.tables[t]]

\* migration:run opens a transaction for everything that is pending.
BeginRun ==
    /\ before = NoRun /\ Pending # {}
    /\ before' = <<db>>
    /\ UNCHANGED <<db, app, starts, synchronized>>

Up ==
    /\ before # NoRun
    /\ \E m \in Pending :
        /\ Applies(m)
        /\ db' = [db EXCEPT !.executed = @ + 1,
                            !.tables = IF m.kind = "table" THEN Created(m) ELSE @]
    /\ UNCHANGED <<before, app, starts, synchronized>>

CommitRun ==
    /\ before # NoRun /\ Pending = {}
    /\ before' = NoRun
    /\ UNCHANGED <<db, app, starts, synchronized>>

\* A statement fails or the process ends: nothing of the run is left.
RollbackRun ==
    /\ before # NoRun
    /\ db' = before[1]
    /\ before' = NoRun
    /\ UNCHANGED <<app, starts, synchronized>>

\* typeorm migration:revert with the data source that knows the seeds.  Rows
\* that hold a seeded row need not be there.
Revert ==
    /\ before = NoRun
    /\ \E m \in LastExecuted :
        /\ Exists(m.table)
        /\ m.kind = "table" => Reverts(m)
        /\ db' = [tables |-> IF m.kind = "table" THEN Dropped(m) ELSE db.tables,
                  executed |-> db.executed - 1,
                  adminTaken |-> db.adminTaken /\ m # CreateUserTable]
    /\ UNCHANGED <<before, app, starts, synchronized>>

\* TypeORM gives the tables of all entities the shape of the entity, foreign
\* keys of other names are dropped; other tables are left alone.
Synchronized ==
    [t \in DOMAIN db.tables \cup DOMAIN Entities |->
        IF t \in DOMAIN Entities THEN Entities[t] ELSE db.tables[t]]

StartApp ==
    /\ app = "down" /\ before = NoRun /\ starts < MaxStarts
    /\ app' = "up"
    /\ starts' = starts + 1
    /\ \E synchronize \in BOOLEAN :
        /\ db' = IF synchronize THEN [db EXCEPT !.tables = Synchronized] ELSE db
        /\ synchronized' = (synchronized \/ synchronize)
    /\ UNCHANGED before

StopApp ==
    /\ app = "up"
    /\ app' = "down"
    /\ UNCHANGED <<db, before, starts, synchronized>>

\* Before the administrator is seeded somebody signs up with that number, or
\* takes that username.
TakeAdmin ==
    /\ app = "up" /\ before = NoRun /\ Exists("users")
    /\ db.executed = 0 \/ \A k \in 1..db.executed : Migrations[k] # CreateSuperAdminUser
    /\ db' = [db EXCEPT !.adminTaken = TRUE]
    /\ UNCHANGED <<before, app, starts, synchronized>>

Next == BeginRun \/ Up \/ CommitRun \/ RollbackRun \/ Revert \/ StartApp \/ StopApp \/ TakeAdmin

Spec == Init /\ [][Next]_vars

-----------------------------------------------------------------------------
(***************************************************************************)
(* Properties                                                              *)
(***************************************************************************)

\* A run of the pending migrations never stops half-way, on a database that
\* was empty, migrated, partly reverted or synchronized by the application:
\* the tables that a migration points to and the columns that a seed fills
\* are there when its turn comes.  Only a user who already is the
\* administrator about to be seeded stops it.
PendingMigrationsApply ==
    before # NoRun => \A m \in Pending :
        Applies(m) \/ (m = CreateSuperAdminUser /\ db.adminTaken)

\* Without synchronize every migration can be reverted in its turn, also after
\* the application has filled the tables: nothing that is left refers to what
\* a step back drops or deletes.
RevertsGoThrough ==
    before = NoRun /\ ~synchronized => \A m \in LastExecuted : Reverts(m)

=============================================================================
