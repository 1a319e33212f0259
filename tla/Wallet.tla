------------------------------- MODULE Wallet -------------------------------
(***************************************************************************)
(* users.walletBalance and wallet_transactions, and everything that writes *)
(* them: the charge and the withdrawal of WalletService, the decisions on  *)
(* withdrawals of administrators, the cards a starting room charges for,   *)
(* the wheel of fortune, the reward for a referral, and save(user) of a    *)
(* profile update, which writes back the balance it has read.              *)
(*                                                                         *)
(* Transactions are READ COMMITTED, take no lock when they read, and show  *)
(* their writes at their commit; the rows they update stay locked until    *)
(* then.  A service that checks and then acts is therefore two steps: what *)
(* it reads, and its commit.  The wheel, the reward and the profile have   *)
(* no transaction at all: each of their calls is a step, and any of them   *)
(* may be the last.                                                        *)
(*                                                                         *)
(* Every user may spin, be rewarded and have their profile saved; three    *)
(* constants name those who do, for the properties that hold of the others.*)
(*                                                                         *)
(* Bounds: Ids (rows of wallet_transactions) and MaxDays (days that pass). *)
(***************************************************************************)
EXTENDS Integers, FiniteSets, FiniteSetsExt

CONSTANTS
    Users,
    Spinners,      \* the users who spin the wheel
    Editors,       \* the users whose profile is saved, by them or an administrator
    Referrers,     \* the users whose referral code others register with
    Slots,         \* the requests for one user that may be under way at a time
    Admins,        \* the requests of administrators under way at a time
    Amounts,       \* what a charge, a withdrawal or a card costs
    Prizes,        \* {20000, 10000, 5000, 0} in the code
    Rewards,       \* the values of referral_reward_amount
    BigintMax,     \* the largest walletBalance, 2^63 - 1
    Ids,
    MaxDays

ASSUME UsersAssumption ==
    Spinners \subseteq Users /\ Editors \subseteq Users /\ Referrers \subseteq Users
ASSUME SlotsAssumption == IsFiniteSet(Slots)
ASSUME PositiveAmounts == Amounts \subseteq Nat \ {0}
ASSUME PrizesAssumption == Prizes \subseteq Nat
ASSUME RewardsAssumption == Rewards \subseteq Nat \ {0} /\ BigintMax \in Nat
ASSUME WalletBounds == Ids \subseteq Nat /\ MaxDays \in Nat

VARIABLES
    balance,    \* users.walletBalance
    rows,       \* wallet_transactions
    recent,     \* how many wheel_spins of a user are less than 24 hours old
    won,        \* the prizes of all wheel_spins of a user, added up
    spent,      \* history: what a user has been charged for cards
    paidIn,     \* history: charges, refunds and rewards of a user, added up
    rewarded,   \* history: the users who have had a reward
    request,    \* a withdrawal, spin, profile update or reward under way
    decision,   \* the withdrawal an administrator is settling, as it was read
    days

incoming == <<paidIn, rewarded>>
vars == <<balance, rows, recent, won, spent, paidIn, rewarded, request, decision, days>>

-----------------------------------------------------------------------------
TransactionType == {"charge", "withdraw", "card_purchase", "wheel_spin", "referral_bonus"}
TransactionStatus == {"pending", "confirmed", "failed"}

WalletTransaction ==
    [id : Ids, user : Users, amount : Int, type : TransactionType,
     status : TransactionStatus]

Request ==
    [at : {"idle", "withdraw", "canSpin", "saveSpin", "pay", "saveRow",
           "load", "update", "credit", "saveBonus"},
     seen : Int, amount : Nat]

Undecided == [at |-> "idle"]

Decision == {Undecided} \cup [at : {"confirmWithdraw", "rejectWithdraw"}, row : WalletTransaction]

\* Types of the ten variables.
TypeOK ==
    /\ balance \in [Users -> Int]
    /\ rows \subseteq WalletTransaction
    /\ recent \in [Users -> Nat]
    /\ won \in [Users -> Nat]
    /\ spent \in [Users -> Nat]
    /\ paidIn \in [Users -> Nat]
    /\ rewarded \subseteq Users
    /\ request \in [Users -> [Slots -> Request]]
    /\ decision \in [Admins -> Decision]
    /\ days \in Nat

Init ==
    /\ balance = [u \in Users |-> 0]
    /\ rows = {}
    /\ recent = [u \in Users |-> 0]
    /\ won = [u \in Users |-> 0]
    /\ spent = [u \in Users |-> 0]
    /\ paidIn = [u \in Users |-> 0]
    /\ rewarded = {}
    /\ request = [u \in Users |-> [s \in Slots |-> [at |-> "idle", seen |-> 0, amount |-> 0]]]
    /\ decision = [a \in Admins |-> Undecided]
    /\ days = 0

-----------------------------------------------------------------------------
\* The next id of wallet_transactions; none when the bound is reached.
Unused == {id \in Ids : \A t \in rows : t.id # id}
NextIds == {id \in Unused : \A other \in Unused : id <= other}

InsertRow(id, u, amount, type, status) ==
    rows' = rows \cup {[id |-> id, user |-> u, amount |-> amount, type |-> type,
                        status |-> status]}

\* UPDATE users SET walletBalance = walletBalance + amount
Add(u, amount) == balance' = [balance EXCEPT ![u] = @ + amount]

\* ... for money that comes from outside.
PayIn(u, amount) == Add(u, amount) /\ paidIn' = [paidIn EXCEPT ![u] = @ + amount]

At(u, s, step) == request[u][s].at = step
Become(u, s, step, seen, amount) ==
    request' = [request EXCEPT ![u][s] = [at |-> step, seen |-> seen, amount |-> amount]]
Go(u, s, step) == Become(u, s, step, request[u][s].seen, request[u][s].amount)
Finish(u, s) == Become(u, s, "idle", 0, 0)

\* chargeWallet: one transaction that depends on nothing it has read.
chargeWallet(u) ==
    /\ \E id \in NextIds, amount \in Amounts :
        /\ InsertRow(id, u, amount, "charge", "confirmed")
        /\ PayIn(u, amount)
    /\ UNCHANGED <<recent, won, spent, rewarded, request, decision, days>>

\* Mutant: the balance is not looked at.
CheckBalance_Skipped(u, s) ==
    /\ At(u, s, "idle")
    /\ \E amount \in Amounts : Become(u, s, "withdraw", 0, amount)
    /\ UNCHANGED <<balance, rows, recent, won, spent, incoming, decision, days>>

\* withdrawWallet reads the user; too small a balance ends it.
CheckBalance(u, s) ==
    /\ At(u, s, "idle")
    /\ \E amount \in Amounts :
        amount <= balance[u] /\ Become(u, s, "withdraw", 0, amount)
    /\ UNCHANGED <<balance, rows, recent, won, spent, incoming, decision, days>>

\* ... and commits a PENDING row and the deduction.
CommitWithdraw(u, s) ==
    /\ At(u, s, "withdraw")
    /\ \E id \in NextIds :
        InsertRow(id, u, -request[u][s].amount, "withdraw", "pending")
    /\ Add(u, -request[u][s].amount)
    /\ Finish(u, s)
    /\ UNCHANGED <<recent, won, spent, incoming, decision, days>>

\* The commit of a room's start, as far as one buyer is concerned: nothing
\* asks whether the balance is enough.
processCardPurchases(u) ==
    /\ \E id \in NextIds, amount \in Amounts :
        /\ InsertRow(id, u, amount, "card_purchase", "confirmed")
        /\ Add(u, -amount)
        /\ spent' = [spent EXCEPT ![u] = @ + amount]
    /\ UNCHANGED <<recent, won, incoming, request, decision, days>>

-----------------------------------------------------------------------------
(***************************************************************************)
(* confirmWithdraw and rejectWithdraw: the status is checked when the row  *)
(* is read, and the UPDATE names the row by its id only.                   *)
(***************************************************************************)
ReadWithdraw(a) ==
    /\ decision[a].at = "idle"
    /\ \E t \in rows, verdict \in {"confirmWithdraw", "rejectWithdraw"} :
        /\ t.type = "withdraw" /\ t.status = "pending"
        /\ decision' = [decision EXCEPT ![a] = [at |-> verdict, row |-> t]]
    /\ UNCHANGED <<balance, rows, recent, won, spent, incoming, request, days>>

\* Mutant: a status the enum of the table does not have.
SetStatus_Rejected(id, status) ==
    rows' = {IF t.id = id THEN [t EXCEPT !.status = "rejected"] ELSE t : t \in rows}

SetStatus(id, status) ==
    rows' = {IF t.id = id THEN [t EXCEPT !.status = status] ELSE t : t \in rows}

Decided(a) == decision' = [decision EXCEPT ![a] = Undecided]

confirmWithdraw(a) ==
    /\ decision[a].at = "confirmWithdraw"
    /\ SetStatus(decision[a].row.id, "confirmed")
    /\ Decided(a)
    /\ UNCHANGED <<balance, recent, won, spent, incoming, request, days>>

\* Mutant: the amount is added with its sign.
Refund_Signed(t) == t.amount

\* Math.abs(transaction.amount)
Refund(t) == IF t.amount < 0 THEN -t.amount ELSE t.amount

rejectWithdraw(a) ==
    /\ decision[a].at = "rejectWithdraw"
    /\ SetStatus(decision[a].row.id, "failed")
    /\ PayIn(decision[a].row.user, Refund(decision[a].row))
    /\ Decided(a)
    /\ UNCHANGED <<recent, won, spent, rewarded, request, days>>

-----------------------------------------------------------------------------
(***************************************************************************)
(* spinWheel: five database calls without a transaction.                   *)
(***************************************************************************)
ReadUser(u, s) ==
    /\ At(u, s, "idle")
    /\ Become(u, s, "canSpin", balance[u], 0)
    /\ UNCHANGED <<balance, rows, recent, won, spent, incoming, decision, days>>

\* canSpin looks at the latest spin only; then the prize the client names is
\* checked against the list.
canSpin(u, s) ==
    /\ At(u, s, "canSpin")
    /\ \/ recent[u] > 0 /\ Finish(u, s)
       \/ /\ recent[u] = 0
          /\ \E prize \in Prizes : Become(u, s, "saveSpin", request[u][s].seen, prize)
    /\ UNCHANGED <<balance, rows, recent, won, spent, incoming, decision, days>>

\* Mutant: the prize is paid without a spin.
SaveSpin_Forgotten(u, s) ==
    /\ At(u, s, "saveSpin")
    /\ IF request[u][s].amount = 0 THEN Finish(u, s) ELSE Go(u, s, "pay")
    /\ UNCHANGED <<balance, rows, recent, won, spent, incoming, decision, days>>

SaveSpin(u, s) ==
    /\ At(u, s, "saveSpin")
    /\ recent' = [recent EXCEPT ![u] = @ + 1]
    /\ won' = [won EXCEPT ![u] = @ + request[u][s].amount]
    /\ IF request[u][s].amount = 0 THEN Finish(u, s) ELSE Go(u, s, "pay")
    /\ UNCHANGED <<balance, rows, spent, incoming, decision, days>>

\* Mutant: the balance that was read is added to the one that is there.
PayPrize_OnTop(u, s) ==
    /\ At(u, s, "pay")
    /\ balance' = [balance EXCEPT ![u] = @ + request[u][s].seen + request[u][s].amount]
    /\ Go(u, s, "saveRow")
    /\ UNCHANGED <<rows, recent, won, spent, incoming, decision, days>>

\* The balance becomes the one read at the start plus the prize.
PayPrize(u, s) ==
    /\ At(u, s, "pay")
    /\ balance' = [balance EXCEPT ![u] = request[u][s].seen + request[u][s].amount]
    /\ Go(u, s, "saveRow")
    /\ UNCHANGED <<rows, recent, won, spent, incoming, decision, days>>

SavePrizeRow(u, s) ==
    /\ At(u, s, "saveRow")
    /\ \E id \in NextIds :
        InsertRow(id, u, request[u][s].amount, "wheel_spin", "confirmed")
    /\ Finish(u, s)
    /\ UNCHANGED <<balance, recent, won, spent, incoming, decision, days>>

-----------------------------------------------------------------------------
(***************************************************************************)
(* updateProfile and updateUserById, as far as the balance is concerned:   *)
(* save(user) reads the row again, compares it with the user as it was     *)
(* read first, and updates what differs.  (The name is in Accounts; one    *)
(* that is taken ends the request like a call that fails.)                 *)
(***************************************************************************)
ReadProfile(u, s) ==
    /\ At(u, s, "idle")
    /\ Become(u, s, "load", balance[u], 0)
    /\ UNCHANGED <<balance, rows, recent, won, spent, incoming, decision, days>>

LoadProfile(u, s) ==
    /\ At(u, s, "load")
    /\ IF request[u][s].seen = balance[u] THEN Finish(u, s) ELSE Go(u, s, "update")
    /\ UNCHANGED <<balance, rows, recent, won, spent, incoming, decision, days>>

UpdateProfile(u, s) ==
    /\ At(u, s, "update")
    /\ balance' = [balance EXCEPT ![u] = request[u][s].seen]
    /\ Finish(u, s)
    /\ UNCHANGED <<rows, recent, won, spent, incoming, decision, days>>

-----------------------------------------------------------------------------
(***************************************************************************)
(* giveReferralReward for the owner of a code (who that is, and how often, *)
(* is in Accounts).                                                        *)
(***************************************************************************)
\* The referrer is read, then the setting; without it, or one that is not
\* positive, there is no reward.
FindReferrer(u, s) ==
    /\ At(u, s, "idle")
    /\ \E reward \in Rewards : Become(u, s, "credit", balance[u], reward)
    /\ UNCHANGED <<balance, rows, recent, won, spent, incoming, decision, days>>

\* walletBalance is a bigint column and comes as a string: + puts the digits of
\* the reward behind those of the balance.
Credited(old, reward) ==
    LET digits == CHOOSE d \in 1..19 : 10^(d - 1) <= reward /\ reward < 10^d
    IN  old * 10^digits + (IF old < 0 THEN -reward ELSE reward)

\* UPDATE with the balance FindReferrer has read; an error if it is no bigint.
Credit(u, s) ==
    LET reward == request[u][s].amount
        sum == Credited(request[u][s].seen, reward)
    IN  /\ At(u, s, "credit")
        /\ IF sum \in (-BigintMax - 1)..BigintMax
           THEN /\ balance' = [balance EXCEPT ![u] = sum]
                /\ paidIn' = [paidIn EXCEPT ![u] = @ + reward]
                /\ rewarded' = rewarded \cup {u}
                /\ Go(u, s, "saveBonus")
           ELSE Finish(u, s) /\ UNCHANGED <<balance, incoming>>
        /\ UNCHANGED <<rows, recent, won, spent, decision, days>>

SaveBonus(u, s) ==
    /\ At(u, s, "saveBonus")
    /\ \E id \in NextIds :
        InsertRow(id, u, request[u][s].amount, "referral_bonus", "confirmed")
    /\ Finish(u, s)
    /\ UNCHANGED <<balance, recent, won, spent, incoming, decision, days>>

-----------------------------------------------------------------------------
\* A database call fails, or the process stops: a transaction rolls back, the
\* others end where they are.
RequestFails(u, s) ==
    /\ ~At(u, s, "idle")
    /\ Finish(u, s)
    /\ UNCHANGED <<balance, rows, recent, won, spent, incoming, decision, days>>

DecisionFails(a) ==
    /\ decision[a].at # "idle"
    /\ Decided(a)
    /\ UNCHANGED <<balance, rows, recent, won, spent, incoming, request, days>>

\* Twenty-four hours go by.
DayPasses ==
    /\ days < MaxDays
    /\ days' = days + 1
    /\ recent' = [u \in Users |-> 0]
    /\ UNCHANGED <<balance, rows, won, spent, incoming, request, decision>>

spinWheel(u, s) ==
    \/ ReadUser(u, s) \/ canSpin(u, s) \/ SaveSpin(u, s) \/ PayPrize(u, s)
    \/ SavePrizeRow(u, s)

updateProfile(u, s) == ReadProfile(u, s) \/ LoadProfile(u, s) \/ UpdateProfile(u, s)

giveReferralReward(u, s) == FindReferrer(u, s) \/ Credit(u, s) \/ SaveBonus(u, s)

withdrawWallet(u, s) == CheckBalance(u, s) \/ CommitWithdraw(u, s)

Settle(a) == ReadWithdraw(a) \/ confirmWithdraw(a) \/ rejectWithdraw(a) \/ DecisionFails(a)

Next ==
    \/ \E u \in Users : chargeWallet(u) \/ processCardPurchases(u)
    \/ \E u \in Users, s \in Slots : withdrawWallet(u, s) \/ RequestFails(u, s)
    \/ \E u \in Spinners, s \in Slots : spinWheel(u, s)
    \/ \E u \in Editors, s \in Slots : updateProfile(u, s)
    \/ \E u \in Referrers, s \in Slots : giveReferralReward(u, s)
    \/ \E a \in Admins : Settle(a)
    \/ DayPasses

Spec == Init /\ [][Next]_vars

-----------------------------------------------------------------------------
(***************************************************************************)
(* Properties                                                              *)
(***************************************************************************)
\* The users whose balance nothing writes but the UPDATEs that add to it.
Savers == Users \ (Spinners \cup Editors \cup Referrers)

\* The wallets of the savers.
L == INSTANCE Ledger WITH Users <- Savers,
                          balance <- [u \in Savers |-> balance[u]],
                          rows <- {t \in rows : t.user \in Savers}

\* With one administrator at a time, every step of the services posts one row
\* together with its money, settles one pending withdrawal, or changes nothing
\* a Ledger shows; whatever the other users do.
ImplementsLedger == L!Spec

\* Withdrawals never take what is not there: a balance below zero is at most
\* what was charged for cards, although the wheel and save(user) write old
\* balances back.  One request for a user at a time, and until their first
\* reward, which is put behind the digits of a balance below zero as well.
WithdrawalsAreCovered ==
    \A u \in Users \ rewarded : balance[u] + spent[u] >= 0

\* A wallet holds no more than what was ever charged and paid back to it, the
\* rewards of its referrals, and the prizes of its spins.
HoldsWhatCameIn(u) == balance[u] <= paidIn[u] + won[u]

\* The old balances that the wheel and save(user) write back may return money
\* that was spent since, and never put a wallet above what came in: however
\* many requests and administrators there are, and wherever one is cut off.
\* Until the first reward, which breaks it:
OldBalancesMakeNoMoney == \A u \in Users \ rewarded : HoldsWhatCameIn(u)

\* a reward is added to the account of the referrer
\* (1404-06-26-T008-ReferralRewardSystem.md of the documents).
RewardsAddUp == \A u \in rewarded : HoldsWhatCameIn(u)

\* The prizes in wallet_transactions are prizes of wheel_spins: a spin cut off
\* by a failure may lose its prize and never doubles it.
PrizesAreSpunFor ==
    \A u \in Users :
        MapThenSumSet(LAMBDA t : t.amount,
                      {t \in rows : t.user = u /\ t.type = "wheel_spin"}) <= won[u]

\* In twenty-four hours a user spins at most as often as there are requests of
\* theirs under way at a time: canSpin holds back every later one.
SpinsFitRequests == \A u \in Users : recent[u] <= Cardinality(Slots)

=============================================================================
