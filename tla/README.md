# Bingo back end: specifications

TLA+ specifications of the Bingo back end in this repository (a NestJS
application under `src/`, its documents under `docs/`), the TLC configurations
that check them on small instances, and the theorems that TLAPS proves for
instances of every size.

* [The system](#the-system)
* [The modules](#the-modules) and [the runs](#the-runs)
* [The engine](#the-engine)
* [The rooms as the tables show them, and the gateway](#the-rooms-as-the-tables-show-them-and-the-gateway)
* [The wallet](#the-wallet)
* [Accounts](#accounts)
* [The scheduler](#the-scheduler)
* [The schema](#the-schema)
* [Bounds and fairness](#bounds-and-fairness)
* [What is proved](#what-is-proved)
* [What does not hold](#what-does-not-hold)
* [What is not modelled](#what-is-not-modelled)
* [Plan](#plan)

To check one run: `tlc -config engine_faults.cfg MCGameEngine`.
To check the proofs: `tlapm GameEngine_proofs.tla`, and the same for the other
modules whose names end in `_proofs`, and for `SmallestNumber.tla`.

## The system

There is one Node process and one Postgres database. Inside the process
everything is asynchronous code on one thread: whatever runs from one `await`
to the next is atomic, and anything may happen at an `await`.

| Component | State it keeps | Operations | Hard behaviour |
|---|---|---|---|
| `AutoTimerService` (`modules/admin`) | `roomStates` in memory; `active_rooms_global`, `drawn_numbers`, `user_reserved_cards`, purchases | recovery at start-up; every second the main loop (timers, starting a room in one transaction, drawing a number every three seconds); every five seconds the sync of memory to the rows; error counting and deactivation | two jobs, an un-awaited update and HTTP handlers interleave; a transaction beside a copy in memory; crashes |
| `RoomsService` (`modules/socket`) | `active_room_winners`, the FINISHED status | `checkLineWinners`, `checkFullWinners` after every number; read-only queries for the gateway | winners are saved, the row is marked and the caller is told in separate statements |
| `ReservationService` | `reservations` | `reserve` | the status is checked one await before the INSERT |
| `WalletService` (`modules/wallet`) | `users.walletBalance`, `wallet_transactions` | `chargeWallet`, `withdrawWallet`, in transactions | check, then act, under READ COMMITTED |
| `WalletService` (`modules/admin`) | the same | `confirmWithdraw`, `rejectWithdraw` | the same, between two administrators |
| `WheelService` | `wheel_spins`, the same balance | `canSpin`, `spinWheel` | five statements without a transaction, an absolute write of an old balance |
| `SocketScheduler` (`utils`) | the jobs and their timers | `addJob`, `removeJob`, `start`, `stop` | a job removed while its callback is awaited |
| `RoomsGateway` (`modules/socket`) | `roomsCache`, the connected clients | countdown and emit every second, sync with the database every five, requests of clients | a second countdown beside the engine's, a cache that the sync changes across awaits |
| `AuthService` | `otp_codes`, `users`, the reward of a referral | `requestOtp`, `verifyOtp`, referral codes and rewards | an OTP used twice at once, a balance that is read and written back |
| `UsersService` | `users` | profile updates by the user and by administrators | an entity that was read earlier is written back |
| `SettingsService` (`modules/admin`) | `app_settings` | the reward of a referral | the setting changes under a registration |
| migrations, seeds, entities | the tables themselves | run, roll back, revert; a start of the application with `synchronize` | two sources of one schema, ordered by class names |
| `GameRoomsService` (`modules/admin`) | `game_rooms` | create and update one row | - |
| the rest | - | read-only REST, monitoring, the mock of the socket, guards | - |

How they interact: the main loop calls `RoomsService` directly after each
number; both the engine and the gateway register their jobs with the one
`SocketScheduler`; the engine charges `users.walletBalance` inside the
transaction that starts a room; everything else meets in the database only.
`RoomsGateway` never asks the engine: it reads the rows the sync writes. Clients
learn of the games from the gateway, and of a win also from the engine: the
winner checks of `RoomsService` send `win` to the namespace themselves
(`rooms.service.ts:248`, `:339`).

What makes each part correct:

* Engine: no number is drawn twice; memory and rows agree whenever a crash
  could come; there is always a PENDING room; nobody pays twice for a room or
  holds cards without paying; a room that has players starts, and a room that
  has cards ends, for good.
* Winners: only completed cards win, the line is won once, a full win ends the
  game, a game ends only with a full win.
* Wallet: where nothing but increments writes a balance, it moves together with
  its rows and a withdrawal is settled once; a withdrawal takes only what is
  there; the old balances that the wheel and the profiles write back make no
  money; a prize needs a spin.
* Scheduler: a job has one chain of timers, and none once it is removed; it runs
  on time, and again and again.
* Gateway: what clients are told is borne out by the tables, does not contradict
  itself and follows the rooms.
* Accounts: a token needs an OTP, a referral is credited and booked once.
* Schema: whatever is pending can be run, whatever was run can be taken back.

`PROJECT.json` lists every hazard with its line and the properties that watch it.

## The modules

| Module | Models | Used by |
|---|---|---|
| `BingoCards` | the pure part: lines and full cards (`isLineComplete`, `isCardComplete`), the winners of a number, dealing a shuffled deck, what a buyer pays; the reference definitions of completion and of dealing | `GameEngine` |
| `GameEngine` | `AutoTimerService`, the two winner checks of `RoomsService`, `ReservationService.reserve`, crashes | `MCGameEngine`, `GameEngine_proofs`, `EngineOrder_proofs` |
| `RoomRows` | what the tables promise to those who only read them | `GameEngine` implements it, `RoomsGateway` reads it |
| `RoomsGateway` | the cache of the socket gateway, its two jobs, the queries of `RoomsService`, the answers to clients | `MCRoomsGateway`, `RoomsGateway_proofs` |
| `EngineAndGateway` | both in one process: a step of the engine and the `win` it broadcasts, a step of the gateway, a restart of the process | `MCEngineAndGateway`, `EngineOrder_proofs` |
| `Ledger` | what a wallet promises, in two actions | `Wallet` implements it |
| `Wallet` | every writer of `users.walletBalance`: both `WalletService`s, `WheelService`, the charge of `processCardPurchases`, the UPDATE of `giveReferralReward`, `save(user)` of a profile | `MCWallet`, `Wallet_proofs` |
| `Accounts` | `AuthService`, `UsersService`, `SettingsService`: what a token stands for, who is rewarded for whom and how often; no balances | `MCAccounts`, `Accounts_proofs` |
| `SocketScheduler` | the class of that name | `MCSocketScheduler`, `SocketScheduler_proofs` |
| `Schema` | migrations, seeds and entities | run `schema`, `Schema_proofs` |
| `MC...` | constants, symmetry; in `MCGameEngine` also the cards, decks and reservations on which TLC compares `BingoCards` with its reference definitions | the runs |
| `..._proofs`, `SmallestNumber` | theorems; `SmallestNumber` holds a lemma about natural numbers. `GameEngine_proofs` also holds those about `BingoCards`, `EngineOrder_proofs` those about `EngineAndGateway` | |

The composition: `GameEngine` implements `RoomRows` (property `ImplementsRoomRows`
of the run `engine_restart`, theorem `EngineImplementsRoomRows`), `RoomsGateway` is
checked and proved beside whatever `RoomRows` allows, and `EngineAndGateway` puts
the two together: it implements the gateway over `RoomRows`
(`ImplementsGateway`), so what is proved of the gateway holds of the gateway
beside this engine, and properties that neither module can state alone are
stated there. `SocketScheduler` shows what the fairness of the engine and
of the gateway assumes of their jobs. `Wallet` and `Accounts` meet in two handlers,
the reward and the profile, and each has its side of them: `Accounts` who is
rewarded and how often, and the names; `Wallet` what becomes of the balance.

## The runs

| Run | Bounds | States | Shows |
|---|---|---|---|
| `engine_live` | one user, one room, three failed calls, overtaken statements, fairness | 26,000 | `ReadyRoomStarts`, `DealtRoomFinishes`, `DeactivationReachesTheRow`; in every state also `CompletionIsByNumbers` (every 2x2 matrix with empty cells, against a reference definition) and `DealtInOrderOfReservation` (every continuation of the reservations by two, up to more cards than the deck has) |
| `engine_restart` | two users, two rooms, two equal cards that one number completes (users and cards are symmetric), reservations read in any order, a crash at any await, statements in order | 437,000 | `AlwaysAPendingRoom`, `NoDuplicateDraws`, `MemoryAgreesWithRows`, `OnePurchasePerUserAndRoom`, `CardDealtOnce`, `PurchasesComeWithCards`, `NoDrawAfterFullWin`, `ImplementsRoomRows` |
| `engine_faults` | one user and one card, two rooms, one failed call, one lost answer, one crash, overtaken statements | 1,040,000 | `TypeOK`, `WinnersHoldCompletedCards`, `FinishedRoomsHaveAWinner` |
| `engine_and_gateway` | one user and one card, one room, two numbers, one restart of the process, one failing query of the gateway, statements in order | 449,000 | `WinsToldAreWon`, `NumbersShownAreNotDrawnAgain`, `ImplementsGateway` |
| `engine_second_full_win` | one user, three numbers, one crash | - | `NoUserWinsFullTwice` is violated |
| `engine_unpaid_cards` | two users | - | `CardsArePaid` is violated |
| `gateway` | two rooms of which one is played, one number, one failing query or restart, fairness | 539,000 | `TypeOK`, `AnswersTrailTheTables`, `PendingRoomsShowNoGame`, `CacheFollowsTheRooms`, `NumbersArrive` |
| `wallet` | a saver, and a player who spins, is rewarded and has a profile saved; one request of each, one administrator, three rows, one day | 643,000 | `TypeOK`, `ImplementsLedger`, `WithdrawalsAreCovered`, `OldBalancesMakeNoMoney`, `PrizesAreSpunFor` |
| `wallet_reward` | one user, one request, two rows | - | `RewardsAddUp` is violated |
| `accounts` | two phones, two codes, two verifications and one profile update under way, two OTPs | 294,000 | `TypeOK`, `TokensNeedAnOtp`, `OneBonusForEachReferral`, `EveryBonusIsCreditedOnce` |
| `scheduler` | two names, one of them registered twice, callbacks of length 0 or 1, one interrupted job, fairness | 326,000 | `TypeOK`, `OneChain`, `OnlyRegisteredJobsRun`, `RunsAreOnTime`, `JobsKeepRunning` |
| `schema` | three starts of the application | 8,800 | `PendingMigrationsApply`, `RevertsGoThrough` |

The properties of the engine are split over runs because they do not all survive
the same faults: an INSERT whose answer is lost does store a number twice until
the next clean-up, so `NoDuplicateDraws` is a property of `engine_restart` and
not of `engine_faults`.

## The engine

A step of `GameEngine` runs from one await to the next.

* The database is `rowStatus`, `rowSeconds`, `reservations`, `reservedCards`,
  `purchases`, `drawnRows` and `winnerRows`, all by room. `drawnRows` counts
  rows because the table has no unique key; `winnerRows` has one set for each
  call that saved winners.
* The process is `roomStates` (memory), `main` (the main loop: which await it is
  at, for which room, which rooms this iteration has visited), `tx` (what the
  open start transaction has written), `sync`, `deactivating` (updates of
  `handleRoomError` nobody waits for) and `request` (a `reserve` call between
  its check and its INSERT).
* `faults` counts failed calls, calls that took effect and still failed, and
  crashes.

The actions carry the names of the code: `cleanupAllDuplicateNumbers`,
`recoverActiveRooms`, `ensurePendingRooms` at start-up; `processRoomTimer`,
`resetRoomTimer`, `EnoughPlayers`, `startGame`, `processCardPurchases`,
`distributeCardsToUsers`, `CommitStart` or `AbortStart`, `PendingRoomExists` or
`NoPendingRoom` and `createNewPendingRoom` for the start; `DrawNumber`,
`SaveDrawnNumber`, `checkLineWinners`, `checkFullWinners`, `FinishRow`,
`FinishRoom` for a draw; `SyncRoom` or `SendSync` and `ApplySync`, `Deactivate`,
`CheckPending`, `InsertReservation`, and `Crash`. Failing variants are named
`...Fails`.

Modelling decisions a reader should know of:

* Statements of the sync. The job and the main loop use different connections
  of the pool, so an UPDATE of the sync may be executed after statements that
  were issued later. With `SyncOvertaken = TRUE` issuing and executing are two
  steps; with `FALSE` they are one. A row locked by the start transaction makes
  the UPDATE wait in both.
* READ COMMITTED. The two reads of reservations inside the start transaction are
  two steps and may see different reservations; its writes show at the commit.
* The order of rows. No SELECT of reservations has an ORDER BY
  (`auto-timer.service.ts:520`, `:593`), so cards are dealt along any order of
  them (`Orders`). `DealtInOrderOfReservation` is about the list dealing is
  given, whatever its order.
* An empty table of cards. `distributeCardsToUsers` warns and returns
  (`auto-timer.service.ts:609`) and the transaction commits charges and STARTED.
  The model has this case (`Dealt` gives nothing) and `PurchasesComeWithCards`
  says what is left: a user who paid holds a card, or *every* card, be there
  none, has been dealt. The runs have cards; the theorems hold for no cards too.
* A start that fails is counted by `handleRoomError` twice, in `startGame` and in
  `checkPlayerCountAndProceed`; once, if it is the ROLLBACK that fails. The exit
  for a room whose game room is not found (`auto-timer.service.ts:284`) is left
  out: no code deletes rows of either table while the program runs.
* Prizes are constants of the read-only `getWinners` and are not paid by any
  code, so the engine has no payouts.

## The rooms as the tables show them, and the gateway

`RoomRows` is what a reader of the tables may rely on: a row is inserted PENDING,
its game starts once, numbers and winners come only while it is STARTED and are
only added, and FINISHED needs a winner of the full card. It says on purpose
what is *not* promised: STARTED may be written over FINISHED by a sync that ran
before the engine learned that the game was over. The refinement maps the
statuses of the engine's rows, the number of distinct players, the set of drawn
numbers and the types of win that have rows. It is checked for statements in
issue order and without failing calls; with them it is false, and rightly so:
after a start that failed half-way memory says STARTED, so numbers are drawn for
a row that is still PENDING.

A step of `RoomsGateway` runs from one await to the next. Beside the five tables
there are `cache` (`roomsCache`), `sync` (the one load or sync under way: which
await it is at, the rooms that `getPendingRooms` found and has counted so far, the
queries it waits for and the details that have come) and `faults`.
`FindRooms` and `CountPlayers` are `getPendingRooms`, one query for the rooms and
one for the players of each; `MergeRooms` prunes the cache and goes through the
rooms up to the first whose details have to be fetched (`Proceed`); the four
queries of a room (`getDrawnNumbers`, `FindWinners`, `FindFinished`,
`getRoomInfo`) are answered one by one, in any order for the sync and in turn
for the load; `ApplyDetails` and `DetailsFail` go on with the next room.
`decrementRemainingSeconds` runs at any await of the sync. What a client is
answered (`roomInfo`, `numberDrawn`, `win`, `activeRoomGlobal`) is an operator.

What the code does and a reader may not expect:

* A room that is pending shows 30 free cards whatever is reserved: the sync asks
  for the details of started rooms only.
* An error inside `getWinners` is answered as "no winners", so winners that were
  shown may disappear until the next sync; a finished game may be shown without
  its winners.
* A started room that the sync meets for the first time shows no numbers until
  the next sync.
* `entryFee` and `minPlayers` of an entry are never refreshed. `refreshCache` and
  `getCacheStatus` are never called and left out.
* The countdown of the gateway is set only at zero, so it may run ahead of the
  engine's, or behind it, for the whole wait. `CountdownOnlyFalls` is what is left
  to be promised.

`EngineAndGateway` is the process: `EngineRuns` is any step of `GameEngine` but its
crash, `GatewayRuns` any step of the gateway's two jobs over the rows as the engine
has them, `ProcessRestarts` ends and restarts both. `announced` is the last `win` the engine
has broadcast of a room: `checkLineWinners` after it has saved winners,
`checkFullWinners` after it has marked the row, both with all winners read back
from the table; clients keep it over a restart. In its gateway a reserved
place is a distinct player, as in `getPendingRooms`. `WinsToldAreWon` relates what a
client was told, by the gateway or by the engine, to the cards and numbers of the tables, over two caches (memory
of the engine, cache of the gateway) that are filled at different times;
`NumbersShownAreNotDrawnAgain` relates the two caches directly.

One played room and one that never starts are enough: rooms meet only in the
list a sync works through, and there the second stands before or after the
first. One number and one type of win are enough to tell "shown" from "there".

## The wallet

`Ledger` is the promise: `Post` adds one row together with its money, `Settle`
turns one pending withdrawal into a confirmed one, or into a failed one that is
paid back.

`Wallet` is the code: a service that checks and then acts is two steps, the read
and the commit. `chargeWallet` depends on nothing it reads and is one step.
`request[u][s]` is the state of the s-th request for a user under way: a withdrawal
between check and commit, a spin between any two of its five statements, a
profile update between its reading of the user and its `save`, a reward between
its three. `decision[a]` is the row an administrator has read. `RequestFails` and
`DecisionFails` end a request anywhere, by an error or a crash.
`processCardPurchases` is the charge of one buyer in the commit of a starting
room; the other buyers of the same commit are other steps, which no property
of a single user tells apart. `spent`, `paidIn`, `won` and `rewarded` are histories.

Three handlers write a balance they have read before: the wheel (`PayPrize`), the
reward (`Credit`) and `save(user)`, which reads the row again, compares it with the
user as it was read first and writes the columns that differ. The balance
differs when it has changed meanwhile, and the old one is written back
(`LoadProfile`, `UpdateProfile`). `Spinners`, `Referrers` and `Editors` name the
users who meet them; who meets none is a saver. The refinement covers the
savers only (`Savers`), and rightly so: each of the three breaks the promise for
those who do. Of everybody, `OldBalancesMakeNoMoney` is what is left: a balance
written back may return money that was spent or withdrawn since, but no wallet
ever holds more than was charged, refunded and won. `WithdrawalsAreCovered` holds
of all these users as well, as long as one request for a user is under way at
a time; with two, an old balance can be written over a withdrawal and withdrawn
again, or two withdrawals pass one check.

`Credited` is the sum as the program computes it: `walletBalance` is a bigint
column, which the driver returns as a string, so `+` appends digits. 1 and a
reward of 1 are 11 (run `wallet_reward`), and what is too long for the column
fails the UPDATE. That is why both properties stop at a user's first reward.

The raw SQL `walletBalance + n` is taken for what it is meant to be, an
increment of the column.

## Accounts

A phone is a user, or may become one; `users[p]` is its row. No handler of these
services has a transaction, so every call to the database is a step:
`verifyOtp` (validation and the look-up of the referral code), `FindOtp`,
`MarkVerified`, `FindUser`, `generateUniqueReferralCode` (once for each attempt),
`InsertUser`, then the reward, `FindReferrer`, `ReadSetting`, `Credit`,
`SaveBonus`, and the token. `verify[v]` is a request under way and `edit[e]` a
profile update between its reading of the user and the `save` that writes what
differs (`LoadProfile`, `UpdateProfile`), here the name. `credits` counts, for each
new user, the UPDATEs that have credited a referrer for them. `RequestFails`, `RewardFails` and `EditFails` end a request at any await; a
failing reward is swallowed, as in the code, and the token is still given.

`OneBonusForEachReferral` and `EveryBonusIsCreditedOnce` do not follow from any check of the code (a
verification never asks whether the user was rewarded for): they hold because
the INSERT of the user, which the unique phone number lets through once, comes
before the reward and the reward is never retried. A credit whose row is missing
is possible, a row whose credit is missing is not.

## The scheduler

A job is a name and the count of its registration, since `addJob` of a known name
makes a new object. A *chain* is a timer and the callback it runs in turn; a job
should have one. `timer[j]` is the field that `clearTimeout` uses, which between
the timer and the end of its callback refers to a timer that has fired. Time is
relative: `late[j]` is `now - expectedNext`. A job that is removed, replaced or
stopped while its callback is awaited is `interrupted`: its callback sets another
timer afterwards, which nobody knows of. Of such jobs nothing is claimed
(`Steady` excludes them); their timers fire at any time.

`RunsAreOnTime` has two parts: no run begins before its time, and the drift of a
job with catch-up is bounded by one callback and one late timer, if both
together are no longer than the interval. A job with `avoidCatchUp` has no such
bound: `Math.max(expectedNext - now, intervalMs)` is always `intervalMs`, because
`expectedNext` lies at most one interval ahead, so the period is the interval plus
the length of the callback, and the delays do add up (the comment at
`SocketScheduler.ts:106` says they should not).

## The schema

`Schema` is the merge of `src/migrations` and `src/seeds` by the timestamps of the
class names, `migration:run` as one transaction, `migration:revert`, and a start of
the application with or without `synchronize`, which gives every entity's table
the shape of the entity. Columns and foreign keys are modelled, types, unique
keys and indices are not. `PendingMigrationsApply` says that whatever is pending
finds the tables and columns it needs, from any mixture of runs, reverts and
synchronizing starts; the one exception is a user who signed up with the phone
number or username of the administrator before the seed. `RevertsGoThrough` says
that without `synchronize` each step can be taken back. (`app.module.ts:35` ships
`synchronize: true`; what that does to reverting is under
[What does not hold](#what-does-not-hold).)

## Bounds and fairness

Two users and two cards are the least that can share a winning number; two
rooms are the least that need a successor; two numbers are the least with a
draw after another; one fault of each kind meets every await. Three failures
are needed for a deactivation (`engine_live`). Three rows of
`wallet_transactions` are a charge, a withdrawal and one that comes between.
`BigintMax` is the width of the column, made small in `wallet` so that rewards
exceed it. Two verifications of one phone race for one OTP and one INSERT; two phones are a
referrer and a new user; two codes and one attempt make every collision happen,
and the eight digits after the last. Three starts of the application fit between,
before and after a run and a revert.
The bounds stand in the guards (`MaxRoom` in `Absent`, `MaxReservations` in
`CheckPending`, the fault counters in `Fails`, `AckLost` and `Crash`, `Ids` in
`NextIds`, `MaxDays` in `DayPasses`, `MaxOtps` in `requestOtp`, `MaxAdds` in `addJob`, `MaxInterrupted` in `MayInterrupt`,
`MaxLate` in `Tick`, `MaxStarts` in `StartApp`, `MaxReserved` in `Reserve`).

`FairSpec` of the engine assumes that the two jobs go on, that a statement that
is sent is executed once its row is not locked, and that a handler that has found
its room goes on. `DrawNumber` has strong fairness: a started room is visited
every second and draws at the first visit after three seconds, so a loop that
visits for ever draws for ever. `FairSpec` of the gateway assumes that its sync is
run again and again and its queries are answered or fail. Nothing is assumed of
users, of faults or of the tables.

That jobs go on is the property `JobsKeepRunning` of the scheduler, under the
assumption that timers fire and callbacks end (`FairSpec` of `SocketScheduler`).
A callback that never ends stalls its job for good: there is no timeout in the
code, so a database call that never answers is outside every liveness property
here.

## What is proved

TLAPS checks every step, for any number of users, rooms, numbers, jobs and
requests; the assumptions are the named `ASSUME`s on the constants, which TLC
evaluates in the runs. Those of the engine: users, cards and numbers are finite
sets, and `minPlayers` and `startTimer` are at least one, as the `@Min(1)` of
`create-game-room.dto.ts` has it. The requests of a user under way (`Slots`) are
finitely many.

`GameEngine_proofs`:

* `TypeCorrect`: `Spec => []TypeOK`. `TypeOK` is inductive as it stands because
  the types of `main` and `sync` say that a number is at hand when one is saved
  and that a status sent by the sync is one a row may have.
* `WinnersHoldTheirCards`, `LineIsWonOnce`: from `WinnersCorrect`. Both are
  inductive together with `TypeOK`, given that cards and drawn numbers only grow
  (`NothingTakenBack`) and that completion is monotone in both
  (`CompletionGrows`).
* `FinishedMeansWon`: `FinishedRoomsHaveAWinner` alone is not inductive. A room
  may be about to be marked (`main.at` is `finishRow` or `report`) and an UPDATE
  of the sync that carries FINISHED may be on its way. `FinishAnnounced` says
  that in each of these cases the winner rows are already there.
* `GameOnlyGrows`: `NothingIsTakenBack`, as an action property.

The same module, about `BingoCards`: what dealing gives for every list of reservations
and every shuffle. `CardIndex` is a recursive function and not a `RECURSIVE` operator, and
its equation is proved (`IndexEquation`): the first length for which there were no
such function (`SmallestNumber`) would leave one for the length before, which goes
on. From it the slices of the deck follow each other and do not overlap: `CardsGoToOneUser`,
and by `WhoeverReservedIsServed` every user in the list has a card or all cards are dealt. `DealingIsInOrder` compares
dealing with its reference, who has asked for the k-th card (`Wanted`, which joins
what every reservation asks for): `cardIndex` is the length of what is joined so
far, up to the end of the deck (`IndexIsCapped`), and a joined sequence shows
at every place the user of the reservation that place falls into
(`JoinedSlices`). `WinningIsByNumbers` is the same for lines and full cards.

`EngineOrder_proofs`: what memory, rows and the main loop know of each other.

* Through every fault. `LifeIsOrdered`: the main loop works for a room that has in
  memory the status its await needs (`LoopKnowsStatus`), only rooms with a row are
  loaded, reserved, synced or deactivated (`RowsExist`), and the first start-up
  finds no rows (`FirstBootIsEmpty`). `TransactionIsWhole`: what the open
  transaction is going to write charges nobody twice, deals no card twice, and
  deals a card to each user it charges unless all cards are dealt. The two reads of
  the reservations may differ, in order too: whoever was charged at `purchase` is
  among the buyers at `distribute`, since reservations are only added, and every
  order has the same rows (`OrdersKeepRows`). `ChargesBringCards`
  (`PurchasesComeWithCards`) and `FullWinEndsDrawing` (`NoDrawAfterFullWin`) follow,
  the latter from `WinIsReported`: as long as nothing has failed, a full-card win
  is on its way to memory or has arrived there.
* `UsersPayOnce` and `CardsHaveOneOwner` from `StartsUndealt`: a room that is PENDING
  in memory, that is starting, or whose row is PENDING, has no purchases and no
  cards. They assume `Unovertaken`: there is no restart, or no statement overtakes
  one of the sync. Failed calls and lost answers, of the COMMIT too, are allowed in
  any number.
* `MemoryIsTheTable` (`MemoryAgreesWithRows`) and `NumbersAreDrawnOnce`
  (`NoDuplicateDraws`) from `NumbersAgree`: the numbers in memory are those of the
  table, with the number under way added while it is being saved. They assume
  `NothingRepeated`: no lost answer, and either no restart or no fault but restarts.
* `APendingRoomIsOpen` (`AlwaysAPendingRoom`) and `EngineImplementsRoomRows`
  (`ImplementsRoomRows`) assume `InOrder`: restarts are the only fault. The
  invariants are `RowsFollow` (a room that memory knows as PENDING is PENDING in
  its row; one it knows as STARTED is STARTED there, or its start transaction is
  open, or its end is being reported), `OnePending` (there is one PENDING row at
  most, and none only while the next one is being created), `Places` (the
  reservations keep within their bound) and `Timers` (a timer is below zero by one
  second for each restart at most: a crash between the last second and the start
  makes the next process count on from there). Each step of the engine is then an
  INSERT, an UPDATE that `Successors` allows, a reservation, a draw, a win or a
  stutter of `RoomRows`.
* `DealsInOrder` (`DealtInOrderOfReservation`) and `WinsByNumbers`
  (`CompletionIsByNumbers`): the comparisons that the run `engine_live` makes on
  samples, for every list of reservations and every matrix, from `DealingIsInOrder`
  and `WinningIsByNumbers`.
* `FullIsWonOnce`: no user wins the full card of a room twice, unless a call failed or
  the process was restarted. `FullWins` says that the winner rows of a room come
  from one check, which names a user once, and that after it the room is no
  longer drawn for; the run `engine_second_full_win` is what a restart does to it.

Engine and gateway, also in `EngineOrder_proofs`, all under `InOrder`:

* `SystemImplementsGateway` (`ImplementsGateway`): a step of the system is a step of
  the gateway over `RoomRows` or a stutter. For the engine's steps this is
  `EngineImplementsRoomRows`; for the gateway's it is immediate once the tables are
  known to be those rows (`TablesAreRows`), which the engine's invariant `RowsInv`
  gives. To use the theorems of `RoomsGateway_proofs` for this gateway (the instance
  `GP`), its assumptions on the constants are proved of the engine's constants
  (`GatewayAssumptions`).
* `SystemTellsOfWins` (`WinsToldAreWon`) puts together four facts of different
  modules: no broadcast tells of a win without rows (`BroadcastsTrailTheTables`), no answer runs ahead of the tables (`AnswersAreBorneOut`), a winner row names
  a completed card (`WinnersHoldTheirCards`), and rows are saved only for winners
  there are (`FullWins`).
* `SystemShowsNumbers` (`NumbersShownAreNotDrawnAgain`): what is shown is in the table,
  and what is in the table is not among the numbers left in memory
  (`NumbersAgree`).

The three conditions are on the bounds of the faults, not on the states, and are
as weak as we know them to be: with one restart and an overtaken statement TLC
finds a user charged twice, a card dealt twice and a number stored twice; with one
lost answer, or one failed call and one restart, a number stored twice; with one
failed call or one overtaken statement no PENDING room, and a step that `RoomRows`
does not have. The traces are described under
[What does not hold](#what-does-not-hold).

`RoomsGateway_proofs`, from an invariant in four parts, each a predicate of the
tables so that "the tables have grown" (`GrowsTo`) preserves it by one lemma each:

* the tables have no game before the start and no end without a full card
  (`RowsInv`);
* every entry of the cache is borne out by the tables, and a pending one has no
  game (`EntriesOK`);
* so are the rows and the details a sync holds across its awaits, and each room
  is there once (`RowsOK`, `AskedOK`);
* a row that the sync found pending fits the cache: the entry has not started
  (`Fit`). This is what keeps an older reading of a row from taking a started
  entry back to pending with its numbers, and it needs that there is one sync
  at a time.

`ProceedKeeps` carries them over the loop between two awaits; that its first
waiting room exists is `SmallestExists` of `SmallestNumber`. The theorems are
`TypeCorrect`, `AnswersAreBorneOut` (`AnswersTrailTheTables`), `PendingShowsNoGame`
(`PendingRoomsShowNoGame`) and `CountdownFalls` (`CountdownOnlyFalls`).

`Wallet_proofs`:

* `WalletTypeCorrect`: `Spec => []TypeOK`.
* `WithdrawalsCovered` (`WithdrawalsAreCovered`): with one request for a user at a
  time (`OneSlot`). The strengthening (`CoveredInv`) says that a withdrawal which has
  passed its check is still covered, and that a balance that is to be written
  back is no smaller than what cards have cost since.
* `OnlyPaidInMoney` (`OldBalancesMakeNoMoney`), for any number of requests and
  administrators. `CameInInv` adds that a balance to be written back is at most
  what has come in, since it was there once; the prize of a spin counts from the
  moment the spin is saved.
* `WalletImplementsLedger` (`ImplementsLedger`): with one administrator at a time
  (`OneAdmin`), every step of `Wallet` is a `Post`, a `Settle` or a stutter of `Ledger`.
  It needs (`LedgerInv`) that ids name one row and that the row an administrator
  has read is still pending, which is what two administrators break.
* `PrizesSpunFor`: `PrizesAreSpunFor`, for any number of requests and
  administrators. Alone it is not inductive: the row of a prize comes two
  statements after its spin. `PrizeInv` adds what the spins that are saved and
  not yet booked still owe (`Owed`, summed over the slots), and that a decision
  names a withdrawal by its id, so that it cannot touch a prize.
* `SpinsFit` (`SpinsFitRequests`), for any number of requests: `SpinInv` counts the
  requests that have passed `canSpin` and have not saved their spin together with
  the spins already saved. The sum never exceeds the number of requests, because
  `canSpin` lets nobody pass after the first spin. With two requests the bound of
  two is reached.

Both sums are `MapThenSumSet` of the community modules, an iteration over subsets
that takes a chosen element away each time. That the iteration exists for every
finite set (`SumsExist`), that any element may be taken first (`AnyElementFirst`)
and with it the laws of sums (`TotalWithOneMore`, `TotalAgrees`) are proved at
the smallest subset for which they would fail, because the induction theorems of
the library take an operator.

`Accounts_proofs`: `TypeCorrect`, `TokensAreForOtps` (`TokensNeedAnOtp`),
`BonusesAreForReferrals` (`OneBonusForEachReferral`) and `CreditsAreForReferrals`
(`EveryBonusIsCreditedOnce`). The properties are inductive only together with what
the requests under way carry: a verification that has read its OTP holds a row of
its phone (`OtpRows`); one that is past the INSERT has a user with the code it
carries, is the only one to reward for that user, and finds no bonus row of
theirs (`RewardsInv`); the new user has been credited for once if
their reward has passed the UPDATE and not at all before (`CreditsInv`).

`SocketScheduler_proofs`: `TypeCorrect`, `JobsRunOnce` (`OneChain`),
`RemovedJobsAreQuiet` (`OnlyRegisteredJobsRun`), `JobsAreOnTime`
(`RunsAreOnTime`). The invariant of a job that was not interrupted (`JobInv`): it
has a chain exactly if it is registered and the scheduler runs, that chain is the
one `timer` refers to, and (`OnTime`) while the timer is set, lateness plus the
time left is between 0 and one callback and one late timer; while the callback is
awaited, lateness is the drift plus at most what the callback has taken.

`Schema_proofs`: `TablesFollowTheFiles`, `RunsGoThrough` (`PendingMigrationsApply`) and
`RevertsFindNothingInTheWay` (`RevertsGoThrough`), for any number of starts of the
application. The two promises are not inductive: whether the next migration finds
its table depends on all that ran before, and on what an open run goes back to.
`SchemaInv` says it of the database and of the state a rollback restores (`Kept`):
each executed migration has left its table, each table has at least the columns of
its migration, whoever made it (`Usable`), and without a synchronizing start the
tables are exactly those of the executed migrations, as these make them
(`AsFilesSay`). That `Migrations` lists every file once, at its rank, is a count of
the files (`EveryPlaceIsTaken`, from the pigeonhole of `FiniteSetTheorems`).

Every safety and every action property of the passing runs is proved. Some more that
no run repeats are theorems only: `LineWonOnce`, `NothingIsTakenBack`,
`CountdownOnlyFalls` and `SpinsFitRequests`. Only
model-checked are the liveness properties under fairness (`engine_live`, `gateway`,
`scheduler`), which need ENABLED.

## What does not hold

The runs that end in a violation, with the line of the code and the document it
differs from, are under "findings" in `PROJECT.json`:

| Property | What the code does |
|---|---|
| `NoUserWinsFullTwice` | after a crash between the winner rows and the FINISHED row the recovered room draws on and saves the same full winners again |
| `CardsArePaid` | a reservation that is committed between the two reads of the start transaction gets cards and is not charged |
| `RewardsAddUp` | a reward is appended to the digits of the balance |

Other traces met while modelling, which no run of its own repeats:

Engine and winners:

- A start whose transaction fails leaves STARTED in memory and creates no
  successor, so there is no PENDING room (`StartedRoomIsReplaced`).
- A user who reserves two cards is dealt two and pays one entry fee
  (`CardsCostTheEntryFee`, `auto-timer.service.ts:542`).
- A full-card winner does not always end the game: if the FINISHED update of the
  last number fails or the process stops before it, the room stays STARTED with
  no number left, and nothing looks for winners again
  (`auto-timer.service.ts:154`).
- A sync UPDATE of PENDING that is overtaken by the start of the same room puts
  the row back to PENDING; if the process stops before the next sync, recovery
  finds a PENDING row that was charged and dealt, starts it again and charges
  again. `OnePurchasePerUserAndRoom` therefore holds with statements in order only.
- A number whose INSERT took effect but whose answer is lost is drawn again and
  stored twice; the clean-up runs at the next start only. The migration declares
  `UQ_drawn_numbers_activeRoom_number`, but the entity does not, so `synchronize`
  drops it; the model has no such key.
- A reservation whose INSERT comes after the start is neither charged nor dealt
  and stays pending.

Wallet and wheel:

- Two administrators who have both read a pending withdrawal both settle it: a
  confirmed one is rejected and paid back, or one is paid back twice
  (`admin/wallet.service.ts:125`; `ImplementsLedger` with two elements in `Admins`).
- Two concurrent spins of one user both pass `canSpin`: two prizes in 24 hours
  (`SpinsFitRequests` with two elements in `Slots`).
- A spin that reads the balance before a charge and pays after it takes the
  charge away; so does a profile update (`users.service.ts:182`, `:226`) or a reward
  (`auth.service.ts:249`) that is under way across one.
- Two concurrent withdrawals of one user both pass the check of the balance and
  leave it below zero.
- A card purchase asks for no balance at all; balances below zero are legal
  states of `Wallet`.

Accounts:

- Two verifications of one OTP both find it unverified: two tokens for one code.
- An empty string in a profile update is turned into `undefined`, which `save`
  skips: a field cannot be cleared (`users.service.ts:169`).
- If the code of the tenth attempt collides as well, the code is made of eight
  digits for a `varchar(6)`: the INSERT fails and the OTP is spent.

Scheduler and schema:

- A job that is removed or stopped while its callback is awaited lives on
  (`SocketScheduler.ts:111`). Nothing in `src` calls `stop`, and `removeJob` is
  called from `onModuleDestroy` only (`auto-timer.service.ts:865`).
- `npm run migration:revert` uses a configuration without the seeds
  (`package.json:25`), and the last executed migration is a seed,
  `SeedAppSettings1700000000016`, so it cannot be reverted that way.
- After a synchronizing start `CreateCardsTable` cannot be reverted: the entity
  `ActiveRoomWinners` points to it. Without `synchronize` the columns
  `reservations.status` and `wheel_spins.createdAt`, `updatedAt` do not exist, and
  the services that use them fail.
- The foreign key of `active_room_global.gameRoomId` is SET NULL on a column that
  is NOT NULL: a game room with rows cannot be deleted.

## What is not modelled

* Administration of game rooms (`game-rooms.service.ts`): single-row create and
  update. `GameEngine` takes one game room with constant settings; the engine
  reads the settings again for every new room, so a change shows in the next one.
* The balance of reserved cards, rooms over REST, monitoring and the socket mock:
  read-only, or a description of the socket events over HTTP.
* Signing and expiry of tokens (the library), input validation beyond what decides
  a path, Swagger, emitted payloads.
* `onModuleDestroy` of the engine and its status reports. The interval of three
  seconds between draws is a free choice of each visit.
* In `Schema`: types, unique keys, indices, and the second configuration file.

## Plan

1. Done: `BingoCards`, `GameEngine`, `RoomRows`, `RoomsGateway`, `Ledger`, `Wallet`,
   `Accounts`, `SocketScheduler`, `Schema`, `EngineAndGateway`, and the proofs listed
   above.
2. `GameEngine` with several game rooms whose settings change.
3. `Wallet` and `Accounts` in one module that composes the two, in which the rewards
   of the one are those of the other.
