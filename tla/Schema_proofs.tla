----------------------------- MODULE Schema_proofs -----------------------------
(***************************************************************************)
(* The two promises of Schema, for any number of starts of the             *)
(* application: a run of the pending migrations never stops half-way, and  *)
(* without synchronize every migration can be reverted in its turn.        *)
(*                                                                         *)
(* What the files say is a finite matter: every key points to a table that *)
(* an earlier file creates, every seed fills columns that are there, a     *)
(* table has one file.  The rest is their order: TypeORM counts with       *)
(* positions, Rank, and a position is to be traced back to its file.       *)
(***************************************************************************)
EXTENDS Schema, FiniteSetTheorems, FunctionTheorems, TLAPS

-----------------------------------------------------------------------------
(***************************************************************************)
(* What the files say                                                      *)
(***************************************************************************)
Files == DOMAIN Loaded
Creates == {i \in Files : Loaded[i].kind = "table"}

\* The order in which TypeORM sorts two files.
Earlier(j, i) ==
    \/ Loaded[j].timestamp < Loaded[i].timestamp
    \/ Loaded[j].timestamp = Loaded[i].timestamp /\ j < i

\* Timestamps and tables of the files as they are loaded.
Stamps == <<1, 2, 3, 4, 5, 6, 7, 8, 9, 10, 11, 12, 13, 15, 1, 2, 6, 7, 16>>

Names ==
    <<"users", "game_rooms", "active_room_global", "active_room_winners", "cards",
      "prize_configs", "otp_codes", "referral_links", "drawn_numbers", "reservations",
      "user_reserved_cards", "wallet_transactions", "wheel_spins", "app_settings",
      "users", "game_rooms", "cards", "prize_configs", "app_settings">>

\* A migration of the list of tables and one of the list of seeds.
LEMMA TwoLists ==
    ASSUME NEW S, NEW s \in Seq(S), NEW t \in Seq(S)
    PROVE  /\ DOMAIN (s \o t) = 1..(Len(s) + Len(t)) /\ Len(s \o t) = Len(s) + Len(t)
           /\ \A i \in 1..Len(s) : (s \o t)[i] = s[i]
           /\ \A i \in 1..Len(t) : (s \o t)[Len(s) + i] = t[i]
  OBVIOUS

\* The tables come first, then the seeds.
LEMMA FilesAre ==
    /\ Files = 1..19 /\ Len(Loaded) = 19
    /\ \A i \in 1..14 : Loaded[i] = CreateTables[i]
    /\ \A i \in 1..5 : Loaded[14 + i] = Seeds[i]
<1> DEFINE S == {CreateTables[i] : i \in 1..14} \cup {Seeds[i] : i \in 1..5}
           Joins(u, s, t) ==
               /\ DOMAIN u = 1..(Len(s) + Len(t)) /\ Len(u) = Len(s) + Len(t)
               /\ \A i \in 1..Len(s) : u[i] = s[i]
               /\ \A i \in 1..Len(t) : u[Len(s) + i] = t[i]
<1>1. CreateTables \in Seq(S) /\ Len(CreateTables) = 14
  BY DEF CreateTables
<1>2. Seeds \in Seq(S) /\ Len(Seeds) = 5
  BY DEF Seeds
<1> HIDE DEF S
<1>3. Loaded = CreateTables \o Seeds
  BY DEF Loaded
<1>4. \A s, t \in Seq(S) : Joins(s \o t, s, t)
  BY TwoLists
<1> HIDE DEF Joins
<1>5. Joins(Loaded, CreateTables, Seeds)
  BY <1>1, <1>2, <1>3, <1>4
<1> QED
  BY <1>1, <1>2, <1>5 DEF Files, Joins

LEMMA NineteenFiles == Files = 1..19 /\ Len(Loaded) = 19
  BY FilesAre

\* The nineteen files by name.
LEMMA LoadedAre ==
    /\ Loaded[1] = CreateUserTable /\ Loaded[2] = CreateGameRoomsTable
    /\ Loaded[3] = CreateGlobalActiveRoomTable /\ Loaded[4] = CreateActiveRoomWinners
    /\ Loaded[5] = CreateCardsTable /\ Loaded[6] = CreatePrizeConfigsTable
    /\ Loaded[7] = CreateOtpCodesTable /\ Loaded[8] = CreateReferralLinksTable
    /\ Loaded[9] = CreateDrawnNumbersTable /\ Loaded[10] = CreateReservationsTable
    /\ Loaded[11] = CreateUserReservedCardsTable
    /\ Loaded[12] = CreateWalletTransactionsTable
    /\ Loaded[13] = CreateWheelSpinsTable /\ Loaded[14] = CreateAppSettingsTable
    /\ Loaded[15] = CreateSuperAdminUser /\ Loaded[16] = SeedGameRooms
    /\ Loaded[17] = SeedCardsTable /\ Loaded[18] = SeedPrizeConfigs
    /\ Loaded[19] = SeedAppSettings
<1>1. \A i \in 1..14 : Loaded[i] = CreateTables[i]
  BY FilesAre
<1>2. \A i \in 1..5 : Loaded[14 + i] = Seeds[i]
  BY FilesAre
<1>3. /\ Loaded[15] = Seeds[1] /\ Loaded[16] = Seeds[2] /\ Loaded[17] = Seeds[3]
      /\ Loaded[18] = Seeds[4] /\ Loaded[19] = Seeds[5]
  BY <1>2
<1> QED
  BY <1>1, <1>3 DEF CreateTables, Seeds

\* What a file is of, by its place in the list.
FileSays(i, kind) ==
    Loaded[i].kind = kind /\ Loaded[i].timestamp = Stamps[i] /\ Loaded[i].table = Names[i]

LEMMA TablesSay == \A i \in 1..14 : FileSays(i, "table")
<1> USE DEF FileSays, CreateTable, Stamps, Names
<1>1. FileSays(1, "table")
  BY LoadedAre DEF CreateUserTable
<1>2. FileSays(2, "table")
  BY LoadedAre DEF CreateGameRoomsTable
<1>3. FileSays(3, "table")
  BY LoadedAre DEF CreateGlobalActiveRoomTable
<1>4. FileSays(4, "table")
  BY LoadedAre DEF CreateActiveRoomWinners
<1>5. FileSays(5, "table")
  BY LoadedAre DEF CreateCardsTable
<1>6. FileSays(6, "table")
  BY LoadedAre DEF CreatePrizeConfigsTable
<1>7. FileSays(7, "table")
  BY LoadedAre DEF CreateOtpCodesTable
<1>8. FileSays(8, "table")
  BY LoadedAre DEF CreateReferralLinksTable
<1>9. FileSays(9, "table")
  BY LoadedAre DEF CreateDrawnNumbersTable
<1>10. FileSays(10, "table")
  BY LoadedAre DEF CreateReservationsTable
<1>11. FileSays(11, "table")
  BY LoadedAre DEF CreateUserReservedCardsTable
<1>12. FileSays(12, "table")
  BY LoadedAre DEF CreateWalletTransactionsTable
<1>13. FileSays(13, "table")
  BY LoadedAre DEF CreateWheelSpinsTable
<1>14. FileSays(14, "table")
  BY LoadedAre DEF CreateAppSettingsTable
<1> QED
  BY <1>1, <1>2, <1>3, <1>4, <1>5, <1>6, <1>7,
     <1>8, <1>9, <1>10, <1>11, <1>12, <1>13, <1>14

\* The same of the seeds.
LEMMA SeedsSay == \A i \in 15..19 : FileSays(i, "seed")
  BY LoadedAre DEF FileSays, Seed, Stamps, Names, CreateSuperAdminUser, SeedGameRooms, SeedCardsTable,
     SeedPrizeConfigs, SeedAppSettings

\* All that is needed of the single files.
LEMMA FilesSay ==
    /\ Files = 1..19 /\ Len(Loaded) = 19 /\ Creates = 1..14
    /\ \A i \in Files : Loaded[i].timestamp = Stamps[i] /\ Loaded[i].table = Names[i]
    /\ \A i \in Files : Stamps[i] \in Nat
<1>1. \A i \in 1..19 : Loaded[i].timestamp = Stamps[i] /\ Loaded[i].table = Names[i]
  BY TablesSay, SeedsSay DEF FileSays
<1>2. Creates = 1..14
  BY FilesAre, TablesSay, SeedsSay DEF Creates, FileSays
<1>3. \A i \in 1..19 : Stamps[i] \in Nat
  BY DEF Stamps
<1> QED
  BY <1>1, <1>2, <1>3, FilesAre

\* Where the keys of the tables point to.
LEMMA KeysPoint ==
    ASSUME NEW i \in Creates, NEW k \in Loaded[i].keys
    PROVE  \/ k.to = "users" /\ i >= 8
           \/ k.to = "game_rooms" /\ i = 3
           \/ k.to = "active_room_global" /\ i >= 4
           \/ k.to = "cards" /\ i = 11
<1> USE LoadedAre DEF CreateTable, Key
<1>1. i \in 1..14
  BY FilesSay
<1>2. /\ Loaded[1].keys = {} /\ Loaded[2].keys = {} /\ Loaded[5].keys = {}
      /\ Loaded[6].keys = {} /\ Loaded[7].keys = {} /\ Loaded[14].keys = {}
  BY DEF CreateUserTable, CreateGameRoomsTable, CreateCardsTable,
     CreatePrizeConfigsTable, CreateOtpCodesTable, CreateAppSettingsTable
<1>3. i = 3 => k.to = "game_rooms"
  BY DEF CreateGlobalActiveRoomTable
<1>4. i = 4 => k.to = "active_room_global"
  BY DEF CreateActiveRoomWinners
<1>5. i = 9 => k.to = "active_room_global"
  BY DEF CreateDrawnNumbersTable
<1>6. i = 8 => k.to = "users"
  BY DEF CreateReferralLinksTable
<1>7. i = 12 => k.to = "users"
  BY DEF CreateWalletTransactionsTable
<1>8. i = 13 => k.to = "users"
  BY DEF CreateWheelSpinsTable
<1>9. i = 10 => k.to \in {"users", "active_room_global"}
  BY DEF CreateReservationsTable
<1>10. i = 11 => k.to \in {"users", "active_room_global", "cards"}
  BY DEF CreateUserReservedCardsTable
<1> QED
  BY <1>1, <1>2, <1>3, <1>4, <1>5, <1>6, <1>7, <1>8, <1>9, <1>10

\* A table that a key points to has an earlier file.
PointsBack ==
    \A i \in Creates : \A k \in Loaded[i].keys :
        \E j \in Creates : Loaded[j].table = k.to /\ Earlier(j, i)

LEMMA KeysPointBack == PointsBack
<1> SUFFICES ASSUME NEW i \in Creates, NEW k \in Loaded[i].keys
             PROVE  \E j \in Creates : Loaded[j].table = k.to /\ Earlier(j, i)
  BY DEF PointsBack
<1>1. \A j \in Creates : j < i => Earlier(j, i)
  BY FilesSay DEF Earlier, Stamps
<1>2. i \in 1..14 /\ Creates = 1..14
  BY FilesSay
<1>3. /\ Loaded[1].table = "users" /\ Loaded[2].table = "game_rooms"
      /\ Loaded[3].table = "active_room_global" /\ Loaded[5].table = "cards"
  BY FilesSay DEF Names
<1> QED
  BY <1>1, <1>2, <1>3, KeysPoint

\* A table has one file that creates it.
OneFilePerTable == \A i, j \in Creates : Loaded[i].table = Loaded[j].table => i = j

LEMMA NamesDiffer == OneFilePerTable
<1>1. \A i, j \in 1..14 : Names[i] = Names[j] => i = j
  BY DEF Names
<1> QED
  BY <1>1, FilesSay DEF OneFilePerTable

\* A seed fills columns of a table that an earlier file creates.
SeedsFill ==
    \A i \in Files \ Creates : \E j \in Creates :
        /\ Loaded[j].table = Loaded[i].table /\ Earlier(j, i)
        /\ Loaded[i].columns \subseteq Loaded[j].columns

LEMMA SeedsFillColumns == SeedsFill
<1> USE LoadedAre DEF CreateTable, Seed
<1>1. Loaded[15].columns \subseteq Loaded[1].columns
  BY DEF CreateUserTable, CreateSuperAdminUser
<1>2. Loaded[16].columns \subseteq Loaded[2].columns
  BY DEF CreateGameRoomsTable, SeedGameRooms
<1>3. Loaded[17].columns \subseteq Loaded[5].columns
  BY DEF CreateCardsTable, SeedCardsTable
<1>4. Loaded[18].columns \subseteq Loaded[6].columns
  BY DEF CreatePrizeConfigsTable, SeedPrizeConfigs
<1>5. Loaded[19].columns \subseteq Loaded[14].columns
  BY DEF CreateAppSettingsTable, SeedAppSettings
<1>6. /\ Earlier(1, 15) /\ Earlier(2, 16) /\ Earlier(5, 17) /\ Earlier(6, 18) /\ Earlier(14, 19)
      /\ Loaded[1].table = Loaded[15].table /\ Loaded[2].table = Loaded[16].table
      /\ Loaded[5].table = Loaded[17].table /\ Loaded[6].table = Loaded[18].table
      /\ Loaded[14].table = Loaded[19].table
  BY FilesSay DEF Earlier, Stamps, Names
<1>7. Files = 1..19 /\ Creates = 1..14
  BY FilesSay
<1> QED
  BY <1>1, <1>2, <1>3, <1>4, <1>5, <1>6, <1>7 DEF SeedsFill

\* When a seed runs no table points to the table it fills.
SeedsComeFirst ==
    \A i \in Files \ Creates, j \in Creates :
        Earlier(j, i) => \A k \in Loaded[j].keys : k.to # Loaded[i].table

LEMMA SeedsPrecedeKeys == SeedsComeFirst
<1> SUFFICES ASSUME NEW i \in Files \ Creates, NEW j \in Creates, Earlier(j, i),
                    NEW k \in Loaded[j].keys, k.to = Loaded[i].table
             PROVE  FALSE
  BY DEF SeedsComeFirst
<1>1. i \in 15..19 /\ j \in 1..14
  BY FilesSay
<1>2. Loaded[i].table = Names[i] /\ Loaded[i].timestamp = Stamps[i] /\ Loaded[j].timestamp = Stamps[j]
  BY FilesSay
<1>3. /\ Names[15] = "users" /\ Names[16] = "game_rooms" /\ Names[17] = "cards"
      /\ Names[18] = "prize_configs" /\ Names[19] = "app_settings"
  BY DEF Names
<1>4. \/ k.to = "users" /\ j >= 8
      \/ k.to = "game_rooms" /\ j = 3
      \/ k.to = "active_room_global" /\ j >= 4
      \/ k.to = "cards" /\ j = 11
  BY KeysPoint
<1>5. k.to = Names[i]
  BY <1>2
<1>6. i = 15 \/ i = 16 \/ i = 17 \/ i = 18 \/ i = 19
  BY <1>1
<1>7. \/ i = 15 /\ k.to = "users"
      \/ i = 16 /\ k.to = "game_rooms"
      \/ i = 17 /\ k.to = "cards"
      \/ k.to \in {"prize_configs", "app_settings"}
  BY <1>3, <1>5, <1>6
<1>8. \/ i = 15 /\ j >= 8
      \/ i = 16 /\ j = 3
      \/ i = 17 /\ j = 11
  BY <1>4, <1>7
<1> QED
  BY <1>1, <1>2, <1>8 DEF Earlier, Stamps

\* The only seed of users.
LEMMA AdminSeed ==
    ASSUME NEW i \in Files \ Creates, Loaded[i].table = "users"
    PROVE  Loaded[i] = CreateSuperAdminUser
<1>1. i \in 15..19 /\ Names[i] = "users"
  BY FilesSay
<1>2. i = 15
  BY <1>1 DEF Names
<1> QED
  BY <1>2, LoadedAre

\* The entities have the columns that the migrations make.
LEMMA EntitiesFit ==
    \A i \in Creates : Loaded[i].table \in DOMAIN Entities =>
        Loaded[i].columns \subseteq Entities[Loaded[i].table].columns
<1> SUFFICES ASSUME NEW i \in 1..14, Names[i] \in DOMAIN Entities
             PROVE  Loaded[i].columns \subseteq Entities[Names[i]].columns
  BY FilesSay
<1> USE DEF AsMigrated, Table
<1>1. DOMAIN Entities = {"users", "game_rooms", "active_room_global", "active_room_winners",
      "cards", "otp_codes", "drawn_numbers", "reservations",
      "user_reserved_cards", "wallet_transactions", "wheel_spins", "app_settings"}
  BY DEF Entities
<1>2. Loaded[1].columns \subseteq Entities["users"].columns
  BY LoadedAre DEF Entities, User
<1>3. Loaded[2].columns \subseteq Entities["game_rooms"].columns
  BY LoadedAre DEF Entities, GameRoom
<1>4. Loaded[3].columns \subseteq Entities["active_room_global"].columns
  BY LoadedAre DEF Entities, ActiveRoomGlobal
<1>5. Loaded[4].columns \subseteq Entities["active_room_winners"].columns
  BY LoadedAre DEF Entities, ActiveRoomWinners
<1>6. Loaded[5].columns \subseteq Entities["cards"].columns
  BY LoadedAre DEF Entities, Card
<1>7. Loaded[7].columns \subseteq Entities["otp_codes"].columns
  BY LoadedAre DEF Entities, OtpCode
<1>8. Loaded[9].columns \subseteq Entities["drawn_numbers"].columns
  BY LoadedAre DEF Entities, DrawnNumber
<1>9. Loaded[10].columns \subseteq Entities["reservations"].columns
  BY LoadedAre DEF Entities, Reservation
<1>10. Loaded[11].columns \subseteq Entities["user_reserved_cards"].columns
  BY LoadedAre DEF Entities, UserReservedCard
<1>11. Loaded[12].columns \subseteq Entities["wallet_transactions"].columns
  BY LoadedAre DEF Entities, WalletTransaction
<1>12. Loaded[13].columns \subseteq Entities["wheel_spins"].columns
  BY LoadedAre DEF Entities, WheelSpin
<1>13. Loaded[14].columns \subseteq Entities["app_settings"].columns
  BY LoadedAre DEF Entities, AppSettings
<1> QED
  BY <1>1, <1>2, <1>3, <1>4, <1>5, <1>6, <1>7,
     <1>8, <1>9, <1>10, <1>11, <1>12, <1>13 DEF Names

-----------------------------------------------------------------------------
(***************************************************************************)
(* The order of the files                                                  *)
(***************************************************************************)
\* A file and those before it.
UpTo(i) == {j \in Files : j = i \/ Earlier(j, i)}

\* The rank of a file counts the files up to it.
LEMMA RankCounts == \A i \in Files : Rank(i) = Cardinality(UpTo(i))
<1> SUFFICES ASSUME NEW i \in Files PROVE Rank(i) = Cardinality(UpTo(i))
  OBVIOUS
<1>1. \A j \in Files :
        \/ Loaded[j].timestamp < Loaded[i].timestamp
        \/ Loaded[j].timestamp = Loaded[i].timestamp /\ j <= i
      <=> j = i \/ Earlier(j, i)
  BY FilesSay DEF Earlier
<1> QED
  BY <1>1 DEF Rank, UpTo, Files

\* Of two files one is earlier, and of three the earliest is found at once.
LEMMA FilesAreOrdered ==
    ASSUME NEW i \in Files, NEW j \in Files
    PROVE  /\ i = j \/ Earlier(i, j) \/ Earlier(j, i)
           /\ ~ (Earlier(i, j) /\ (i = j \/ Earlier(j, i)))
           /\ \A k \in Files : Earlier(i, j) /\ Earlier(j, k) => Earlier(i, k)
  BY FilesSay DEF Earlier

\* There are nineteen of them.
LEMMA FilesAreFinite == IsFiniteSet(Files) /\ Cardinality(Files) = 19
<1>1. \A n \in Nat : IsFiniteSet(1..n) /\ Cardinality(1..n) = n
  BY FS_Interval
<1> QED
  BY <1>1, FilesSay

\* A rank is a place among them.
LEMMA RankIsAPlace ==
    ASSUME NEW i \in Files
    PROVE  Rank(i) \in 1..Len(Loaded)
<1>1. IsFiniteSet(Files) /\ Cardinality(Files) = Len(Loaded)
  BY NineteenFiles, FilesAreFinite
<1>2. IsFiniteSet(UpTo(i)) /\ Cardinality(UpTo(i)) <= Len(Loaded)
  BY <1>1, FS_Subset DEF UpTo
<1>3. Cardinality(UpTo(i)) # 0 /\ Cardinality(UpTo(i)) \in Nat
  BY <1>2, FS_EmptySet, FS_CardinalityType DEF UpTo
<1> QED
  BY <1>2, <1>3, RankCounts, NineteenFiles

\* An earlier file has a lower rank, and the other way round.
LEMMA RankFollows ==
    ASSUME NEW i \in Files, NEW j \in Files
    PROVE  Earlier(i, j) <=> Rank(i) < Rank(j)
<1>1. ASSUME NEW a \in Files, NEW b \in Files, Earlier(a, b) PROVE Rank(a) < Rank(b)
  <2>1. UpTo(a) \subseteq UpTo(b) /\ b \in UpTo(b) /\ b \notin UpTo(a)
    BY <1>1, FilesAreOrdered DEF UpTo
  <2>2. IsFiniteSet(UpTo(b))
    BY FS_Subset, FilesAreFinite DEF UpTo
  <2>3. /\ IsFiniteSet(UpTo(a)) /\ Cardinality(UpTo(a)) <= Cardinality(UpTo(b))
        /\ Cardinality(UpTo(a)) # Cardinality(UpTo(b))
    BY <2>1, <2>2, FS_Subset
  <2> QED
    BY <2>3, RankCounts, RankIsAPlace
<1>2. Rank(i) \in Int /\ Rank(j) \in Int
  BY RankIsAPlace, NineteenFiles
<1> QED
  BY <1>1, <1>2, FilesAreOrdered

\* Every place is taken: otherwise two files would share one.
LEMMA EveryPlaceIsTaken ==
    ASSUME NEW k \in 1..Len(Loaded)
    PROVE  \E i \in Files : Rank(i) = k
<1> SUFFICES ASSUME \A i \in Files : Rank(i) # k
             PROVE  FALSE
  OBVIOUS
<1> DEFINE Places == Files \ {k}
           place == [i \in Files |-> Rank(i)]
<1>1. place \in [Files -> Places]
  BY RankIsAPlace, NineteenFiles
<1>2. k \in Files
  BY NineteenFiles
<1>3. IsFiniteSet(Files) /\ Cardinality(Files) = 19
  BY FilesAreFinite
<1>4. IsFiniteSet(Places) /\ Cardinality(Places) < Cardinality(Files)
  <2>1. /\ IsFiniteSet(Files \ {k})
        /\ Cardinality(Files \ {k}) =
                IF k \in Files THEN Cardinality(Files) - 1 ELSE Cardinality(Files)
    BY <1>3, FS_RemoveElement
  <2> QED
    BY <1>2, <1>3, <2>1
<1>5. \E i, j \in Files : i # j /\ place[i] = place[j]
  <2> HIDE DEF place, Places
  <2> QED
    BY <1>1, <1>3, <1>4, FS_PigeonHole
<1>6. PICK i \in Files, j \in Files : i # j /\ Rank(i) = Rank(j)
  BY <1>5
<1>7. Earlier(i, j) \/ Earlier(j, i)
  BY <1>6, FilesAreOrdered
<1>8. Rank(i) \in Int /\ Rank(j) \in Int
  BY RankIsAPlace, NineteenFiles
<1>9. Rank(i) < Rank(j) \/ Rank(j) < Rank(i)
  BY <1>7, RankFollows
<1> QED
  BY <1>6, <1>8, <1>9

\* The migration at a place is the file of that rank.
LEMMA MigrationsAreFiles ==
    /\ Len(Migrations) = Len(Loaded)
    /\ \A k \in 1..Len(Loaded) : \E i \in Files : Rank(i) = k /\ Migrations[k] = Loaded[i]
<1>1. DOMAIN Migrations = 1..19 /\ Len(Loaded) = 19
  BY NineteenFiles DEF Migrations, Files
<1>2. \A k \in 1..19 : Migrations[k] = Loaded[CHOOSE i \in DOMAIN Loaded : Rank(i) = k]
  BY NineteenFiles DEF Migrations, Files
<1>3. Len(Migrations) = 19
  BY <1>1
<1>4. ASSUME NEW k \in 1..19
      PROVE  \E i \in Files : Rank(i) = k /\ Migrations[k] = Loaded[i]
  <2>1. \E i \in DOMAIN Loaded : Rank(i) = k
    BY <1>1, EveryPlaceIsTaken DEF Files
  <2> DEFINE i == CHOOSE i \in DOMAIN Loaded : Rank(i) = k
  <2>2. i \in DOMAIN Loaded /\ Rank(i) = k
    BY <2>1
  <2>3. Migrations[k] = Loaded[i]
    BY <1>2
  <2> QED
    BY <2>2, <2>3 DEF Files
<1> QED
  BY <1>1, <1>3, <1>4

\* Two files do not share a place.
LEMMA RankNames ==
    ASSUME NEW i \in Files, NEW j \in Files, Rank(i) = Rank(j)
    PROVE  i = j
<1>1. Rank(i) \in Int /\ Rank(j) \in Int
  BY RankIsAPlace, NineteenFiles
<1> QED
  BY <1>1, FilesAreOrdered, RankFollows

-----------------------------------------------------------------------------
(***************************************************************************)
(* The invariant: of the database as it is, and of the database as it was  *)
(* when the run that is open began.                                        *)
(***************************************************************************)
\* The files that are executed.
Done(d) == {i \in Files : Rank(i) <= d.executed}

\* An executed migration has left its table, and a table has the columns of its
\* migration, whoever made it.
Usable(d) ==
    /\ d = [tables |-> d.tables, executed |-> d.executed, adminTaken |-> d.adminTaken]
    /\ d.executed \in 0..Len(Loaded)
    /\ \A t \in DOMAIN d.tables : d.tables[t] = Table(d.tables[t].columns, d.tables[t].keys)
    /\ \A i \in Creates : Loaded[i].table \in DOMAIN d.tables =>
            Loaded[i].columns \subseteq d.tables[Loaded[i].table].columns
    /\ \A i \in Creates \cap Done(d) : Loaded[i].table \in DOMAIN d.tables

\* The tables are those of the executed migrations, and as these make them.
AsFilesSay(d) ==
    /\ DOMAIN d.tables = {Loaded[i].table : i \in Creates \cap Done(d)}
    /\ \A i \in Creates \cap Done(d) : d.tables[Loaded[i].table] = AsMigrated(Loaded[i])

\* What the database goes back to when the open run fails.
Kept == IF before = NoRun THEN db ELSE before[1]

SchemaInv ==
    /\ Usable(db) /\ Usable(Kept)
    /\ ~synchronized => AsFilesSay(db) /\ AsFilesSay(Kept)

\* The migration that is next, and the one that was last, are files.
LEMMA PendingFile ==
    ASSUME Usable(db), NEW m \in Pending
    PROVE  \E i \in Files : m = Loaded[i] /\ Rank(i) = db.executed + 1
<1> DEFINE k == db.executed + 1
<1>1. Len(Migrations) = 19 /\ Len(Loaded) = 19
  BY MigrationsAreFiles, NineteenFiles
<1>2. db.executed \in 0..19
  BY <1>1 DEF Usable
<1>3. db.executed < 19 /\ m = Migrations[k]
  BY <1>1 DEF Pending
<1>4. k \in 1..19
  BY <1>2, <1>3
<1> HIDE DEF k
<1>5. \E i \in Files : Rank(i) = k /\ Migrations[k] = Loaded[i]
  BY <1>1, <1>4, MigrationsAreFiles
<1> QED
  BY <1>3, <1>5 DEF k

LEMMA LastFile ==
    ASSUME Usable(db), NEW m \in LastExecuted
    PROVE  \E i \in Files : m = Loaded[i] /\ Rank(i) = db.executed
<1>1. Len(Loaded) = 19
  BY NineteenFiles
<1>2. db.executed \in 1..19 /\ m = Migrations[db.executed]
  BY <1>1 DEF Usable, LastExecuted
<1>3. \E i \in Files : Rank(i) = db.executed /\ Migrations[db.executed] = Loaded[i]
  BY <1>1, <1>2, MigrationsAreFiles
<1> QED
  BY <1>2, <1>3

\* One file more is executed, or one less.
LEMMA OneMoreDone ==
    ASSUME NEW d, NEW e, d.executed \in Int, e.executed = d.executed + 1,
           NEW i \in Files, Rank(i) = e.executed
    PROVE  Done(e) = Done(d) \cup {i} /\ i \notin Done(d)
<1>1. \A j \in Files : Rank(j) \in Int
  BY RankIsAPlace, NineteenFiles
<1>2. \A j \in Files : Rank(j) = Rank(i) => j = i
  BY RankNames
<1> QED
  BY <1>1, <1>2 DEF Done

\* The empty database.
LEMMA InitSchema == Init => SchemaInv
<1> SUFFICES ASSUME Init PROVE SchemaInv
  OBVIOUS
<1>1. db.executed = 0 /\ DOMAIN db.tables = {} /\ Kept = db
  BY DEF Init, Kept, NoTables, NoRun
<1>2. Done(db) = {}
  BY <1>1, RankIsAPlace, NineteenFiles DEF Done
<1>3. db = [tables |-> db.tables, executed |-> db.executed, adminTaken |-> db.adminTaken]
  BY DEF Init
<1>4. Usable(db)
  BY <1>1, <1>2, <1>3, NineteenFiles DEF Usable
<1> QED
  BY <1>1, <1>2, <1>4 DEF SchemaInv, AsFilesSay

\* The tables that a migration makes of those that are there: one more, or new
\* keys for one of them, and no column is touched.
Adds(tables, m) ==
    /\ DOMAIN tables = DOMAIN db.tables \cup {m.table}
    /\ \A t \in DOMAIN tables : tables[t] = Table(tables[t].columns, tables[t].keys)
    /\ \A t \in DOMAIN db.tables : tables[t].columns = db.tables[t].columns
    /\ \A t \in DOMAIN db.tables \ {m.table} : tables[t] = db.tables[t]
    /\ m.table \notin DOMAIN db.tables => tables[m.table] = AsMigrated(m)

LEMMA CreatedTables ==
    ASSUME Usable(db), NEW i \in Creates
    PROVE  Adds(Created(Loaded[i]), Loaded[i])
<1> DEFINE m == Loaded[i]
<1>1. DOMAIN Created(m) = DOMAIN db.tables \cup {m.table}
  BY DEF Created
<1>2. \A t \in DOMAIN db.tables \ {m.table} : Created(m)[t] = db.tables[t]
  BY DEF Created
<1>3. m.table \notin DOMAIN db.tables => Created(m)[m.table] = AsMigrated(m)
  BY DEF Created, Exists
<1>4. ASSUME m.table \in DOMAIN db.tables
      PROVE  Created(m)[m.table] = Table(db.tables[m.table].columns,
                                         db.tables[m.table].keys \cup m.keys)
  <2>1. Created(m)[m.table] = [db.tables[m.table] EXCEPT !.keys = @ \cup m.keys]
    BY <1>4 DEF Created, Exists
  <2> QED
    BY <1>4, <2>1 DEF Usable, Table
<1>5. /\ AsMigrated(m) = Table(AsMigrated(m).columns, AsMigrated(m).keys)
      /\ \A columns, keys : Table(columns, keys).columns = columns
      /\ \A columns, keys : Table(columns, keys).keys = keys
  BY DEF AsMigrated, Table
<1>6. \A t \in DOMAIN db.tables : Created(m)[t].columns = db.tables[t].columns
  BY <1>2, <1>4, <1>5
<1>7. \A t \in DOMAIN Created(m) : Created(m)[t] = Table(Created(m)[t].columns, Created(m)[t].keys)
  BY <1>1, <1>2, <1>3, <1>4, <1>5 DEF Usable
<1> QED
  BY <1>1, <1>2, <1>3, <1>6, <1>7 DEF Adds

\* Up executes the next file.
LEMMA UpKeeps ==
    ASSUME SchemaInv, Up
    PROVE  Usable(db') /\ (~synchronized => AsFilesSay(db'))
<1>1. PICK m \in Pending :
        /\ Applies(m)
        /\ db' = [db EXCEPT !.executed = @ + 1,
                            !.tables = IF m.kind = "table" THEN Created(m) ELSE @]
  BY DEF Up
<1>2. Usable(db)
  BY DEF SchemaInv
<1>3. PICK i \in Files : m = Loaded[i] /\ Rank(i) = db.executed + 1
  BY <1>2, PendingFile
<1>4. /\ db'.executed = db.executed + 1
      /\ db'.tables = IF i \in Creates THEN Created(Loaded[i]) ELSE db.tables
      /\ db' = [tables |-> db'.tables, executed |-> db'.executed, adminTaken |-> db'.adminTaken]
  BY <1>1, <1>2, <1>3 DEF Usable, Creates
<1>5. Done(db') = Done(db) \cup {i} /\ i \notin Done(db)
  <2>1. db.executed \in Int
    BY <1>2, NineteenFiles DEF Usable
  <2> QED
    BY <1>3, <1>4, <2>1, OneMoreDone
<1>6. db'.executed \in 0..Len(Loaded)
  BY <1>2, <1>3, <1>4, RankIsAPlace, NineteenFiles DEF Usable
<1>7. CASE i \notin Creates
  <2>1. Creates \cap Done(db') = Creates \cap Done(db) /\ db'.tables = db.tables
    BY <1>4, <1>5, <1>7
  <2>2. Usable(db')
    BY <1>2, <1>4, <1>6, <2>1 DEF Usable
  <2> QED
    BY <2>1, <2>2 DEF SchemaInv, AsFilesSay
<1>8. CASE i \in Creates
  <2>1. /\ DOMAIN db'.tables = DOMAIN db.tables \cup {Loaded[i].table}
        /\ \A t \in DOMAIN db'.tables :
              db'.tables[t] = Table(db'.tables[t].columns, db'.tables[t].keys)
        /\ \A t \in DOMAIN db.tables : db'.tables[t].columns = db.tables[t].columns
        /\ \A t \in DOMAIN db.tables \ {Loaded[i].table} : db'.tables[t] = db.tables[t]
        /\ Loaded[i].table \notin DOMAIN db.tables =>
              db'.tables[Loaded[i].table] = AsMigrated(Loaded[i])
    <3>1. db'.tables = Created(Loaded[i])
      BY <1>4, <1>8
    <3>2. Adds(db'.tables, Loaded[i])
      BY <1>2, <1>8, <3>1, CreatedTables
    <3> QED
      BY <3>2 DEF Adds
  <2>2. \A j \in Creates : Loaded[j].table = Loaded[i].table => j = i
    BY <1>8, NamesDiffer DEF OneFilePerTable
  <2>3. ASSUME NEW j \in Creates, Loaded[j].table \in DOMAIN db'.tables
        PROVE  Loaded[j].columns \subseteq db'.tables[Loaded[j].table].columns
    <3>1. CASE Loaded[j].table \in DOMAIN db.tables
      <4>1. Loaded[j].columns \subseteq db.tables[Loaded[j].table].columns
        BY <1>2, <3>1 DEF Usable
      <4>2. db'.tables[Loaded[j].table].columns = db.tables[Loaded[j].table].columns
        BY <2>1, <3>1
      <4> QED
        BY <4>1, <4>2
    <3>2. CASE Loaded[j].table \notin DOMAIN db.tables
      <4>1. Loaded[j].table = Loaded[i].table
        BY <2>1, <2>3, <3>2
      <4>2. j = i
        BY <2>2, <4>1
      <4>3. db'.tables[Loaded[i].table] = AsMigrated(Loaded[i])
        BY <2>1, <3>2, <4>1
      <4>4. AsMigrated(Loaded[i]).columns = Loaded[i].columns
        BY DEF AsMigrated, Table
      <4> QED
        BY <4>2, <4>3, <4>4
    <3> QED
      BY <3>1, <3>2
  <2>4. ASSUME NEW j \in Creates \cap Done(db')
        PROVE  Loaded[j].table \in DOMAIN db'.tables
    <3>1. CASE j = i
      BY <2>1, <3>1
    <3>2. CASE j \in Creates \cap Done(db)
      <4>1. Loaded[j].table \in DOMAIN db.tables
        BY <1>2, <3>2 DEF Usable
      <4> QED
        BY <2>1, <4>1
    <3> QED
      BY <1>5, <3>1, <3>2
  <2>5. Usable(db')
    BY <1>4, <1>6, <2>1, <2>3, <2>4 DEF Usable
  <2>6. ASSUME ~synchronized PROVE AsFilesSay(db')
    <3>1. AsFilesSay(db)
      BY <2>6 DEF SchemaInv
    <3>2. Loaded[i].table \notin DOMAIN db.tables
      BY <1>5, <2>2, <3>1 DEF AsFilesSay
    <3>3. DOMAIN db'.tables = {Loaded[j].table : j \in Creates \cap Done(db')}
      <4>1. DOMAIN db.tables = {Loaded[j].table : j \in Creates \cap Done(db)}
        BY <3>1 DEF AsFilesSay
      <4>2. Creates \cap Done(db') = (Creates \cap Done(db)) \cup {i}
        BY <1>5, <1>8
      <4> QED
        BY <2>1, <4>1, <4>2
    <3>4. db'.tables[Loaded[i].table] = AsMigrated(Loaded[i])
      BY <2>1, <3>2
    <3>5. ASSUME NEW j \in Creates \cap Done(db), j # i
          PROVE  db'.tables[Loaded[j].table] = AsMigrated(Loaded[j])
      <4>1. /\ Loaded[j].table \in DOMAIN db.tables \ {Loaded[i].table}
            /\ db.tables[Loaded[j].table] = AsMigrated(Loaded[j])
        BY <2>2, <3>1, <3>5 DEF AsFilesSay
      <4> QED
        BY <2>1, <4>1
    <3>6. \A j \in Creates \cap Done(db') : db'.tables[Loaded[j].table] = AsMigrated(Loaded[j])
      BY <1>5, <3>4, <3>5
    <3> QED
      BY <3>3, <3>6 DEF AsFilesSay
  <2> QED
    BY <2>5, <2>6
<1> QED
  BY <1>7, <1>8

\* Revert takes the last one back.
LEMMA RevertKeeps ==
    ASSUME SchemaInv, Revert
    PROVE  Usable(db') /\ (~synchronized => AsFilesSay(db'))
<1>1. PICK m \in LastExecuted :
        db' = [tables |-> IF m.kind = "table" THEN Dropped(m) ELSE db.tables,
               executed |-> db.executed - 1,
               adminTaken |-> db.adminTaken /\ m # CreateUserTable]
  BY DEF Revert
<1>2. Usable(db)
  BY DEF SchemaInv
<1>3. PICK i \in Files : m = Loaded[i] /\ Rank(i) = db.executed
  BY <1>2, LastFile
<1>4. /\ db'.executed = db.executed - 1
      /\ db'.tables = IF i \in Creates THEN Dropped(Loaded[i]) ELSE db.tables
      /\ db' = [tables |-> db'.tables, executed |-> db'.executed, adminTaken |-> db'.adminTaken]
  BY <1>1, <1>3 DEF Creates
<1>5. Done(db) = Done(db') \cup {i} /\ i \notin Done(db')
  <2>1. db'.executed \in Int /\ db.executed = db'.executed + 1
    BY <1>2, <1>4, NineteenFiles DEF Usable
  <2> QED
    BY <1>3, <2>1, OneMoreDone
<1>6. db'.executed \in 0..Len(Loaded)
  BY <1>2, <1>3, <1>4, RankIsAPlace, NineteenFiles DEF Usable
<1>7. CASE i \notin Creates
  <2>1. Creates \cap Done(db') = Creates \cap Done(db) /\ db'.tables = db.tables
    BY <1>4, <1>5, <1>7
  <2>2. Usable(db')
    BY <1>2, <1>4, <1>6, <2>1 DEF Usable
  <2> QED
    BY <2>1, <2>2 DEF SchemaInv, AsFilesSay
<1>8. CASE i \in Creates
  <2>1. /\ DOMAIN db'.tables = DOMAIN db.tables \ {Loaded[i].table}
        /\ \A t \in DOMAIN db'.tables : db'.tables[t] = db.tables[t]
    BY <1>4, <1>8 DEF Dropped
  <2>2. \A j \in Creates : Loaded[j].table = Loaded[i].table => j = i
    BY <1>8, NamesDiffer DEF OneFilePerTable
  <2>3. Usable(db')
    BY <1>2, <1>4, <1>5, <1>6, <2>1, <2>2 DEF Usable
  <2>4. ASSUME ~synchronized PROVE AsFilesSay(db')
    <3>1. AsFilesSay(db)
      BY <2>4 DEF SchemaInv
    <3>2. Creates \cap Done(db') = (Creates \cap Done(db)) \ {i}
      BY <1>5
    <3>3. DOMAIN db'.tables = {Loaded[j].table : j \in Creates \cap Done(db')}
      BY <1>5, <1>8, <2>1, <2>2, <3>1, <3>2 DEF AsFilesSay
    <3>4. \A j \in Creates \cap Done(db') : db'.tables[Loaded[j].table] = AsMigrated(Loaded[j])
      BY <2>1, <3>1, <3>2, <3>3 DEF AsFilesSay
    <3> QED
      BY <3>3, <3>4 DEF AsFilesSay
  <2> QED
    BY <2>3, <2>4
<1> QED
  BY <1>7, <1>8

\* Synchronize makes the tables of the entities, with the columns they need.
LEMMA SynchronizeKeeps ==
    ASSUME Usable(db)
    PROVE  Usable([db EXCEPT !.tables = Synchronized])
<1> DEFINE e == [db EXCEPT !.tables = Synchronized]
<1>1. /\ e = [tables |-> Synchronized, executed |-> db.executed, adminTaken |-> db.adminTaken]
      /\ db.executed \in 0..Len(Loaded)
  BY DEF Usable
<1>2. /\ DOMAIN Synchronized = DOMAIN db.tables \cup DOMAIN Entities
      /\ \A t \in DOMAIN Entities : Synchronized[t] = Entities[t]
      /\ \A t \in DOMAIN db.tables \ DOMAIN Entities : Synchronized[t] = db.tables[t]
  <2>1. DOMAIN Synchronized = DOMAIN db.tables \cup DOMAIN Entities
    BY DEF Synchronized
  <2>2. \A t \in DOMAIN Entities : Synchronized[t] = Entities[t]
    BY DEF Synchronized
  <2>3. \A t \in DOMAIN db.tables \ DOMAIN Entities : Synchronized[t] = db.tables[t]
    BY DEF Synchronized
  <2> QED
    BY <2>1, <2>2, <2>3
<1>3. \A t \in DOMAIN Entities : Entities[t] = Table(Entities[t].columns, Entities[t].keys)
  <2> DEFINE Whole(table) == table = Table(table.columns, table.keys)
  <2>1. \A columns, keys : Whole(Table(columns, keys))
    BY DEF Table
  <2> HIDE DEF Whole
  <2>2. /\ Whole(User) /\ Whole(GameRoom) /\ Whole(ActiveRoomGlobal) /\ Whole(Card)
        /\ Whole(OtpCode) /\ Whole(DrawnNumber) /\ Whole(UserReservedCard) /\ Whole(AppSettings)
    BY <2>1 DEF User, GameRoom, ActiveRoomGlobal, Card, OtpCode, DrawnNumber, UserReservedCard,
       AppSettings, AsMigrated
  <2>3. Whole(ActiveRoomWinners) /\ Whole(Reservation)
    BY <2>1 DEF ActiveRoomWinners, Reservation
  <2>4. Whole(WalletTransaction) /\ Whole(WheelSpin)
    BY <2>1 DEF WalletTransaction, WheelSpin
  <2>5. \A t \in DOMAIN Entities : Whole(Entities[t])
    BY <2>2, <2>3, <2>4 DEF Entities
  <2> QED
    BY <2>5 DEF Whole
<1> HIDE DEF e
<1>4. /\ e.tables = Synchronized /\ e.executed = db.executed
      /\ e = [tables |-> e.tables, executed |-> e.executed, adminTaken |-> e.adminTaken]
  BY <1>1
<1>5. Done(e) = Done(db)
  BY <1>4 DEF Done
<1>6. \A t \in DOMAIN e.tables : e.tables[t] = Table(e.tables[t].columns, e.tables[t].keys)
  BY <1>2, <1>3, <1>4 DEF Usable
<1>7. ASSUME NEW i \in Creates, Loaded[i].table \in DOMAIN e.tables
      PROVE  Loaded[i].columns \subseteq e.tables[Loaded[i].table].columns
  <2>1. CASE Loaded[i].table \in DOMAIN Entities
    <3>1. Loaded[i].columns \subseteq Entities[Loaded[i].table].columns
      BY <2>1, EntitiesFit
    <3>2. e.tables[Loaded[i].table] = Entities[Loaded[i].table]
      BY <1>2, <1>4, <2>1
    <3> QED
      BY <3>1, <3>2
  <2>2. CASE Loaded[i].table \notin DOMAIN Entities
    <3>1. Loaded[i].table \in DOMAIN db.tables
      BY <1>2, <1>4, <1>7, <2>2
    <3>2. Loaded[i].columns \subseteq db.tables[Loaded[i].table].columns
      BY <3>1 DEF Usable
    <3>3. e.tables[Loaded[i].table] = db.tables[Loaded[i].table]
      BY <1>2, <1>4, <2>2, <3>1
    <3> QED
      BY <3>2, <3>3
  <2> QED
    BY <2>1, <2>2
<1>8. \A i \in Creates \cap Done(e) : Loaded[i].table \in DOMAIN e.tables
  BY <1>2, <1>4, <1>5 DEF Usable
<1>9. Usable(e)
  BY <1>1, <1>4, <1>6, <1>7, <1>8 DEF Usable
<1> QED
  BY <1>9 DEF e

\* Every step keeps the invariant.
LEMMA SchemaStep == SchemaInv /\ [Next]_vars => SchemaInv'
<1> SUFFICES ASSUME SchemaInv, [Next]_vars PROVE SchemaInv'
  OBVIOUS
<1>1. CASE BeginRun
  BY <1>1 DEF BeginRun, SchemaInv, Kept, Usable, AsFilesSay, Done, NoRun
<1>2. CASE Up
  <2>1. Kept' = Kept /\ synchronized' = synchronized
    BY <1>2 DEF Up, Kept
  <2> QED
    BY <1>2, <2>1, UpKeeps DEF SchemaInv
<1>3. CASE CommitRun
  BY <1>3 DEF CommitRun, SchemaInv, Kept, NoRun
<1>4. CASE RollbackRun
  BY <1>4 DEF RollbackRun, SchemaInv, Kept, NoRun
<1>5. CASE Revert
  <2>1. Kept' = db' /\ synchronized' = synchronized
    BY <1>5 DEF Revert, Kept
  <2> QED
    BY <1>5, <2>1, RevertKeeps DEF SchemaInv
<1>6. CASE StartApp
  <2>1. Kept' = db' /\ (db' = db \/ db' = [db EXCEPT !.tables = Synchronized])
    BY <1>6 DEF StartApp, Kept
  <2>2. ~synchronized' => ~synchronized /\ db' = db
    BY <1>6 DEF StartApp
  <2>3. Usable(db)
    BY DEF SchemaInv
  <2>4. Usable(db')
    BY <2>1, <2>3, SynchronizeKeeps
  <2> QED
    BY <2>1, <2>2, <2>4 DEF SchemaInv
<1>7. CASE StopApp
  BY <1>7 DEF StopApp, SchemaInv, Kept
<1>8. CASE TakeAdmin
  <2>1. Kept' = db' /\ synchronized' = synchronized /\ db' = [db EXCEPT !.adminTaken = TRUE]
    BY <1>8 DEF TakeAdmin, Kept
  <2>2. /\ db'.tables = db.tables /\ db'.executed = db.executed
        /\ db' = [tables |-> db'.tables, executed |-> db'.executed, adminTaken |-> db'.adminTaken]
    BY <2>1 DEF SchemaInv, Usable
  <2>3. Done(db') = Done(db)
    BY <2>2 DEF Done
  <2> QED
    BY <2>1, <2>2, <2>3 DEF SchemaInv, Usable, AsFilesSay
<1>9. CASE UNCHANGED vars
  BY <1>9 DEF vars, SchemaInv, Kept
<1> QED
  BY <1>1, <1>2, <1>3, <1>4, <1>5, <1>6, <1>7, <1>8, <1>9 DEF Next

\* What is executed and what the tables have keep agreeing, in the database and
\* in what an open run goes back to, whatever the order of runs, rollbacks,
\* reverts and starts with and without synchronize.
THEOREM TablesFollowTheFiles == Spec => []SchemaInv
  BY InitSchema, SchemaStep, PTL DEF Spec

-----------------------------------------------------------------------------
(***************************************************************************)
(* The promises                                                            *)
(***************************************************************************)
\* A run of the pending migrations (data-source.ts, package.json:24) does not
\* stop half-way, unless a user is the administrator to be seeded.
THEOREM RunsGoThrough == Spec => []PendingMigrationsApply
<1>1. SchemaInv => PendingMigrationsApply
  <2> SUFFICES ASSUME SchemaInv, NEW m \in Pending
               PROVE  Applies(m) \/ (m = CreateSuperAdminUser /\ db.adminTaken)
    BY DEF PendingMigrationsApply
  <2>1. Usable(db)
    BY DEF SchemaInv
  <2>2. PICK i \in Files : m = Loaded[i] /\ Rank(i) = db.executed + 1
    BY <2>1, PendingFile
  <2>3. \A j \in Creates : Earlier(j, i) => Exists(Loaded[j].table)
    <3> SUFFICES ASSUME NEW j \in Creates, Earlier(j, i) PROVE Exists(Loaded[j].table)
      OBVIOUS
    <3>1. j \in Files /\ Rank(j) < db.executed + 1
      BY <2>2, RankFollows DEF Creates
    <3>2. Rank(j) \in Int /\ db.executed \in Int
      BY <2>1, <3>1, RankIsAPlace, NineteenFiles DEF Usable
    <3> QED
      BY <2>1, <3>1, <3>2 DEF Usable, Done, Exists
  <2>4. CASE i \in Creates
    <3>1. \A k \in m.keys : Exists(k.to)
      BY <2>2, <2>3, <2>4, KeysPointBack DEF PointsBack
    <3> QED
      BY <2>2, <2>4, <3>1 DEF Applies, Creates
  <2>5. CASE i \notin Creates
    <3>1. PICK j \in Creates : /\ Loaded[j].table = m.table /\ Earlier(j, i)
                               /\ m.columns \subseteq Loaded[j].columns
      BY <2>2, <2>5, SeedsFillColumns DEF SeedsFill
    <3>2. Exists(m.table) /\ m.columns \subseteq db.tables[m.table].columns
      BY <2>1, <2>3, <3>1 DEF Usable, Exists
    <3>3. m.table = "users" => m = CreateSuperAdminUser
      BY <2>2, <2>5, AdminSeed
    <3>4. m.kind # "table"
      BY <2>2, <2>5 DEF Creates
    <3> QED
      BY <3>2, <3>3, <3>4 DEF Applies
  <2> QED
    BY <2>4, <2>5
<1> QED
  BY <1>1, TablesFollowTheFiles, PTL

\* As long as no start had synchronize on (database.config.ts), a step back
\* finds its table, and nothing that is left refers to it.
THEOREM RevertsFindNothingInTheWay == Spec => []RevertsGoThrough
<1>1. SchemaInv => RevertsGoThrough
  <2> SUFFICES ASSUME SchemaInv, ~synchronized, NEW m \in LastExecuted
               PROVE  Reverts(m)
    BY DEF RevertsGoThrough
  <2>1. Usable(db) /\ AsFilesSay(db)
    BY DEF SchemaInv
  <2>2. PICK i \in Files : m = Loaded[i] /\ Rank(i) = db.executed
    BY <2>1, LastFile
  <2>3. \A j \in Creates \cap Done(db) : j # i => Earlier(j, i)
    <3> SUFFICES ASSUME NEW j \in Creates \cap Done(db), j # i PROVE Earlier(j, i)
      OBVIOUS
    <3>1. Rank(j) <= Rank(i) /\ j \in Files
      BY <2>2 DEF Done
    <3>2. Rank(j) \in Int /\ Rank(i) \in Int
      BY <3>1, RankIsAPlace, NineteenFiles
    <3> QED
      BY <3>1, <3>2, FilesAreOrdered, RankFollows
  <2>4. ASSUME NEW k \in KeysTo(m.table)
        PROVE  \E j \in Creates \cap Done(db) :
                    j # i /\ k \in Loaded[j].keys /\ k.to = Loaded[i].table
    <3>1. PICK t \in DOMAIN db.tables \ {m.table} : k \in db.tables[t].keys /\ k.to = m.table
      BY <2>4 DEF KeysTo
    <3>2. PICK j \in Creates \cap Done(db) : t = Loaded[j].table
      BY <2>1, <3>1 DEF AsFilesSay
    <3>3. db.tables[t] = AsMigrated(Loaded[j])
      BY <2>1, <3>2 DEF AsFilesSay
    <3>4. k \in Loaded[j].keys
      BY <3>1, <3>3 DEF AsMigrated, Table
    <3> QED
      BY <2>2, <3>1, <3>2, <3>4
  <2>5. CASE i \in Creates
    <3>1. KeysTo(m.table) = {}
      <4> SUFFICES ASSUME NEW k \in KeysTo(m.table) PROVE FALSE
        OBVIOUS
      <4>1. PICK j \in Creates \cap Done(db) :
                j # i /\ k \in Loaded[j].keys /\ k.to = Loaded[i].table
        BY <2>4
      <4>2. PICK h \in Creates : Loaded[h].table = k.to /\ Earlier(h, j)
        BY <4>1, KeysPointBack DEF PointsBack
      <4>3. h = i
        BY <2>5, <4>1, <4>2, NamesDiffer DEF OneFilePerTable
      <4>4. j \in Files /\ Earlier(j, i)
        BY <2>3, <4>1 DEF Done
      <4> QED
        BY <4>2, <4>3, <4>4, FilesAreOrdered
    <3>2. Exists(m.table)
      <4>1. i \in Done(db)
        BY <2>1, <2>2, NineteenFiles DEF Usable, Done
      <4> QED
        BY <2>1, <2>2, <2>5, <4>1 DEF Usable, Exists
    <3> QED
      BY <2>2, <2>5, <3>1, <3>2 DEF Reverts, Creates
  <2>6. CASE i \notin Creates
    <3>1. KeysTo(m.table) = {}
      <4> SUFFICES ASSUME NEW k \in KeysTo(m.table) PROVE FALSE
        OBVIOUS
      <4>1. PICK j \in Creates \cap Done(db) :
                j # i /\ k \in Loaded[j].keys /\ k.to = Loaded[i].table
        BY <2>4
      <4> QED
        BY <2>3, <2>6, <4>1, SeedsPrecedeKeys DEF SeedsComeFirst
    <3>2. Exists(m.table)
      <4>1. PICK j \in Creates : Loaded[j].table = m.table /\ Earlier(j, i)
        BY <2>2, <2>6, SeedsFillColumns DEF SeedsFill
      <4>2. j \in Files /\ Rank(j) < Rank(i) /\ Rank(j) \in Int /\ Rank(i) \in Int
        BY <4>1, RankFollows, RankIsAPlace, NineteenFiles DEF Creates
      <4>3. j \in Done(db)
        BY <2>2, <4>2 DEF Done
      <4> QED
        BY <2>1, <4>1, <4>3 DEF Usable, Exists
    <3> QED
      BY <2>2, <2>6, <3>1, <3>2 DEF Reverts, Creates
  <2> QED
    BY <2>5, <2>6
<1> QED
  BY <1>1, TablesFollowTheFiles, PTL

================================================================================
