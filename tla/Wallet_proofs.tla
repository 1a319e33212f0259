---------------------------- MODULE Wallet_proofs ----------------------------
(***************************************************************************)
(* Theorems about Wallet, for every set of users, amounts and ids.         *)
(***************************************************************************)
EXTENDS Wallet, SmallestNumber, FiniteSetTheorems, TLAPS

\* The assumptions of the theorems: administrators decide one after the other;
\* for a user one request is under way at a time.
OneAdmin == \A a, b \in Admins : a = b
OneSlot == \A s, q \in Slots : s = q

-----------------------------------------------------------------------------
(***************************************************************************)
(* Types                                                                   *)
(***************************************************************************)
\* A new row of wallet_transactions keeps the table's type.
LEMMA InsertTyped ==
    ASSUME TypeOK, NEW id \in NextIds, NEW u \in Users, NEW amount \in Int,
           NEW type \in TransactionType, NEW status \in TransactionStatus,
           InsertRow(id, u, amount, type, status)
    PROVE  rows' \subseteq WalletTransaction
<1>1. id \in Ids
  BY DEF NextIds, Unused
<1> QED
  BY <1>1 DEF TypeOK, InsertRow, WalletTransaction

\* So does a change of status.
LEMMA StatusTyped ==
    ASSUME TypeOK, NEW id, NEW status \in TransactionStatus, SetStatus(id, status)
    PROVE  rows' \subseteq WalletTransaction
<1>1. ASSUME NEW t \in WalletTransaction
      PROVE  [t EXCEPT !.status = status] \in WalletTransaction
  BY <1>1 DEF WalletTransaction
<1> QED
  BY <1>1 DEF TypeOK, SetStatus

\* Requests keep their type when one of them moves on.
LEMMA RequestTyped ==
    ASSUME TypeOK, NEW u \in Users, NEW s \in Slots, NEW seen \in Int, NEW amount \in Nat,
           NEW step \in {"idle", "withdraw", "canSpin", "saveSpin", "pay", "saveRow",
                       "load", "update", "credit", "saveBonus"},
           Become(u, s, step, seen, amount)
    PROVE  request' \in [Users -> [Slots -> Request]]
<1>1. [at |-> step, seen |-> seen, amount |-> amount] \in Request
  BY DEF Request
<1> QED
  BY <1>1 DEF TypeOK, Become

\* So they do when a request ends,
LEMMA FinishTyped ==
    ASSUME TypeOK, NEW u \in Users, NEW s \in Slots, Finish(u, s)
    PROVE  request' \in [Users -> [Slots -> Request]]
  BY RequestTyped DEF Finish

\* and when one goes on.
LEMMA GoTyped ==
    ASSUME TypeOK, NEW u \in Users, NEW s \in Slots,
           NEW step \in {"pay", "saveRow", "update", "saveBonus"}, Go(u, s, step)
    PROVE  request' \in [Users -> [Slots -> Request]]
<1>1. request[u][s].seen \in Int /\ request[u][s].amount \in Nat
  BY DEF TypeOK, Request
<1> QED
  BY <1>1, RequestTyped DEF Go

\* A decision that ends keeps the type of the decisions.
LEMMA DecidedTyped ==
    ASSUME TypeOK, NEW a \in Admins, Decided(a)
    PROVE  decision' \in [Admins -> Decision]
  BY DEF TypeOK, Decided, Decision

\* An addition to a balance keeps it an integer.
LEMMA AddTyped ==
    ASSUME TypeOK, NEW u \in Users, NEW amount \in Int, Add(u, amount)
    PROVE  balance' \in [Users -> Int]
  BY DEF TypeOK, Add

\* So does money that comes in.
LEMMA PaidInTyped ==
    ASSUME TypeOK, NEW u \in Users, NEW amount \in Nat, PayIn(u, amount)
    PROVE  balance' \in [Users -> Int] /\ paidIn' \in [Users -> Nat]
<1>1. balance' \in [Users -> Int]
  BY AddTyped DEF PayIn
<1>2. paidIn' \in [Users -> Nat]
  BY DEF PayIn, TypeOK
<1> QED
  BY <1>1, <1>2

\* Every step of the services, the failures and the clock keep the types.
THEOREM WalletTypeStep == TypeOK /\ [Next]_vars => TypeOK'
<1> SUFFICES ASSUME TypeOK, Next PROVE TypeOK'
  BY DEF vars, TypeOK
<1> USE DEF TransactionType, TransactionStatus, incoming
<1>0. \A amount \in Amounts : amount \in Nat /\ amount \in Int /\ -amount \in Int
  BY PositiveAmounts
<1>1. ASSUME NEW u \in Users, chargeWallet(u) PROVE TypeOK'
  <2>1. /\ rows' \subseteq WalletTransaction
        /\ balance' \in [Users -> Int] /\ paidIn' \in [Users -> Nat]
    BY <1>0, <1>1, InsertTyped, PaidInTyped DEF chargeWallet
  <2> QED
    BY <1>1, <2>1 DEF chargeWallet, TypeOK
<1>2. ASSUME NEW u \in Users, processCardPurchases(u) PROVE TypeOK'
  <2>1. rows' \subseteq WalletTransaction /\ balance' \in [Users -> Int]
    BY <1>0, <1>2, InsertTyped, AddTyped DEF processCardPurchases
  <2>2. spent' \in [Users -> Nat]
    BY <1>0, <1>2 DEF processCardPurchases, TypeOK
  <2> QED
    BY <1>2, <2>1, <2>2 DEF processCardPurchases, TypeOK
<1>3. ASSUME NEW u \in Users, NEW s \in Slots, CheckBalance(u, s) PROVE TypeOK'
  <2>1. request' \in [Users -> [Slots -> Request]]
    BY <1>0, <1>3, RequestTyped DEF CheckBalance
  <2> QED
    BY <1>3, <2>1 DEF CheckBalance, TypeOK
<1>4. ASSUME NEW u \in Users, NEW s \in Slots, CommitWithdraw(u, s) PROVE TypeOK'
  <2>1. request[u][s].amount \in Nat
    BY DEF TypeOK, Request
  <2>2. /\ rows' \subseteq WalletTransaction
        /\ balance' \in [Users -> Int]
        /\ request' \in [Users -> [Slots -> Request]]
    BY <1>4, <2>1, InsertTyped, AddTyped, FinishTyped DEF CommitWithdraw
  <2> QED
    BY <1>4, <2>2 DEF CommitWithdraw, TypeOK
<1>5. ASSUME NEW u \in Users, NEW s \in Slots, RequestFails(u, s) PROVE TypeOK'
  BY <1>5, FinishTyped DEF RequestFails, TypeOK
<1>6. ASSUME NEW u \in Users, NEW s \in Slots, spinWheel(u, s) PROVE TypeOK'
  <2>0. request[u][s] \in Request /\ request[u][s].amount \in Nat /\ request[u][s].seen \in Int
    BY DEF TypeOK, Request
  <2>1. CASE ReadUser(u, s)
    <3>1. balance[u] \in Int
      BY DEF TypeOK
    <3> QED
      BY <2>1, <3>1, RequestTyped DEF ReadUser, TypeOK
  <2>2. CASE canSpin(u, s)
    <3>1. request' \in [Users -> [Slots -> Request]]
      BY <2>0, <2>2, FinishTyped, RequestTyped, PrizesAssumption DEF canSpin
    <3> QED
      BY <2>2, <3>1 DEF canSpin, TypeOK
  <2>3. CASE SaveSpin(u, s)
    <3>1. recent' \in [Users -> Nat] /\ won' \in [Users -> Nat]
      BY <2>0, <2>3 DEF SaveSpin, TypeOK
    <3>2. request' \in [Users -> [Slots -> Request]]
      BY <2>3, FinishTyped, GoTyped DEF SaveSpin
    <3> QED
      BY <2>3, <3>1, <3>2 DEF SaveSpin, TypeOK
  <2>4. CASE PayPrize(u, s)
    <3>1. balance' \in [Users -> Int]
      BY <2>0, <2>4 DEF PayPrize, TypeOK
    <3> QED
      BY <2>4, <3>1, GoTyped DEF PayPrize, TypeOK
  <2>5. CASE SavePrizeRow(u, s)
    BY <2>0, <2>5, InsertTyped, FinishTyped DEF SavePrizeRow, TypeOK
  <2> QED
    BY <1>6, <2>1, <2>2, <2>3, <2>4, <2>5 DEF spinWheel
<1>7. ASSUME NEW a \in Admins, Settle(a) PROVE TypeOK'
  <2>1. CASE ReadWithdraw(a)
    BY <2>1 DEF ReadWithdraw, TypeOK, Decision
  <2>2. CASE confirmWithdraw(a)
    BY <2>2, StatusTyped, DecidedTyped DEF confirmWithdraw, TypeOK
  <2>3. CASE rejectWithdraw(a)
    <3>1. decision[a].row \in WalletTransaction
      BY <2>3 DEF rejectWithdraw, TypeOK, Decision, Undecided
    <3>2. decision[a].row.user \in Users /\ Refund(decision[a].row) \in Nat
      BY <3>1 DEF WalletTransaction, Refund
    <3> QED
      BY <2>3, <3>2, StatusTyped, DecidedTyped, PaidInTyped DEF rejectWithdraw, TypeOK
  <2>4. CASE DecisionFails(a)
    BY <2>4, DecidedTyped DEF DecisionFails, TypeOK
  <2> QED
    BY <1>7, <2>1, <2>2, <2>3, <2>4 DEF Settle
<1>8. CASE DayPasses
  BY <1>8 DEF DayPasses, TypeOK
<1>9. ASSUME NEW u \in Users, NEW s \in Slots, updateProfile(u, s) PROVE TypeOK'
  <2>0. balance[u] \in Int /\ request[u][s].seen \in Int
    BY DEF TypeOK, Request
  <2>1. CASE ReadProfile(u, s)
    BY <2>0, <2>1, RequestTyped DEF ReadProfile, TypeOK
  <2>2. CASE LoadProfile(u, s)
    BY <2>2, FinishTyped, GoTyped DEF LoadProfile, TypeOK
  <2>3. CASE UpdateProfile(u, s)
    <3>1. balance' \in [Users -> Int]
      BY <2>0, <2>3 DEF UpdateProfile, TypeOK
    <3> QED
      BY <2>3, <3>1, FinishTyped DEF UpdateProfile, TypeOK
  <2> QED
    BY <1>9, <2>1, <2>2, <2>3 DEF updateProfile
<1>10. ASSUME NEW u \in Users, NEW s \in Slots, giveReferralReward(u, s) PROVE TypeOK'
  <2>0. balance[u] \in Int /\ request[u][s].amount \in Nat
    BY DEF TypeOK, Request
  <2>1. CASE FindReferrer(u, s)
    <3>1. request' \in [Users -> [Slots -> Request]]
      BY <2>0, <2>1, RewardsAssumption, RequestTyped DEF FindReferrer
    <3> QED
      BY <2>1, <3>1 DEF FindReferrer, TypeOK
  <2>2. CASE Credit(u, s)
    <3> DEFINE sum == Credited(request[u][s].seen, request[u][s].amount)
    <3>1. sum \in (-BigintMax - 1)..BigintMax => sum \in Int
      BY RewardsAssumption
    <3> HIDE DEF sum
    <3>2. balance' \in [Users -> Int] /\ paidIn' \in [Users -> Nat] /\ rewarded' \subseteq Users
      BY <2>0, <2>2, <3>1 DEF Credit, TypeOK, sum
    <3>3. request' \in [Users -> [Slots -> Request]]
      BY <2>2, FinishTyped, GoTyped DEF Credit
    <3> QED
      BY <2>2, <3>2, <3>3 DEF Credit, TypeOK
  <2>3. CASE SaveBonus(u, s)
    BY <2>0, <2>3, InsertTyped, FinishTyped DEF SaveBonus, TypeOK
  <2> QED
    BY <1>10, <2>1, <2>2, <2>3 DEF giveReferralReward
<1> QED
  BY <1>1, <1>2, <1>3, <1>4, <1>5, <1>6, <1>7, <1>8, <1>9, <1>10, UsersAssumption
     DEF Next, withdrawWallet

\* The types of balances, rows, requests and decisions always hold.
THEOREM WalletTypeCorrect == Spec => []TypeOK
<1>1. Init => TypeOK
  BY DEF Init, TypeOK, Request, Undecided, Decision
<1> QED
  BY <1>1, WalletTypeStep, PTL DEF Spec

-----------------------------------------------------------------------------
(***************************************************************************)
(* WithdrawalsAreCovered: what a withdrawal has seen stays there until it  *)
(* commits, since only cards are charged meanwhile and those count as      *)
(* spent.  The wheel and save(user) write an old balance back, but not one *)
(* from before a withdrawal: the user's only slot is taken by them.        *)
(***************************************************************************)
Covered(u, s) ==
    /\ At(u, s, "withdraw") => balance[u] + spent[u] >= request[u][s].amount
    /\ request[u][s].at \in {"canSpin", "saveSpin", "pay", "load", "update"} =>
            request[u][s].seen + spent[u] >= 0

CoveredInv ==
    /\ TypeOK
    /\ WithdrawalsAreCovered
    /\ \A u \in Users \ rewarded, s \in Slots : Covered(u, s)

\* The other users' requests and, with one slot, all requests but the one
\* that moves are untouched.
LEMMA OthersUntouched ==
    ASSUME TypeOK, OneSlot, NEW u \in Users, NEW s \in Slots,
           NEW step, NEW seen, NEW amount, Become(u, s, step, seen, amount),
           NEW v \in Users, NEW z \in Slots
    PROVE  /\ v # u => request'[v][z] = request[v][z]
           /\ v = u => request'[v][z] = [at |-> step, seen |-> seen, amount |-> amount]
<1>1. z = s
  BY DEF OneSlot
<1> QED
  BY <1>1 DEF TypeOK, Become

\* A request that moves, with what its new step relies on.
LEMMA CoveredMove ==
    ASSUME OneSlot, CoveredInv, TypeOK', NEW u \in Users, NEW s \in Slots,
           NEW step, NEW seen, NEW amount, Become(u, s, step, seen, amount),
           UNCHANGED <<spent, rewarded>>,
           \A v \in Users : v # u => balance'[v] = balance[v],
           u \notin rewarded =>
               /\ balance'[u] + spent[u] >= 0
               /\ step = "withdraw" => balance'[u] + spent[u] >= amount
               /\ step \in {"canSpin", "saveSpin", "pay", "load", "update"} =>
                      seen + spent[u] >= 0
    PROVE  CoveredInv'
<1>1. \A v \in Users \ rewarded : balance'[v] + spent'[v] >= 0
  BY DEF CoveredInv, WithdrawalsAreCovered
<1>2. ASSUME NEW v \in Users \ rewarded, NEW z \in Slots PROVE Covered(v, z)'
  <2>1. /\ v # u => request'[v][z] = request[v][z]
        /\ v = u => request'[v][z] = [at |-> step, seen |-> seen, amount |-> amount]
    BY OthersUntouched DEF CoveredInv
  <2> QED
    BY <2>1 DEF CoveredInv, Covered, At
<1> QED
  BY <1>1, <1>2 DEF CoveredInv, WithdrawalsAreCovered

\* A step of somebody else: it takes no money but for cards.
LEMMA CoveredBySpending ==
    ASSUME CoveredInv, TypeOK', UNCHANGED <<request, rewarded>>,
           \A v \in Users : /\ spent'[v] >= spent[v]
                            /\ balance'[v] + spent'[v] >= balance[v] + spent[v]
    PROVE  CoveredInv'
<1>1. \A v \in Users, z \in Slots :
        request[v][z].seen \in Int /\ request[v][z].amount \in Nat
  BY DEF CoveredInv, TypeOK, Request
<1>2. \A v \in Users :
        balance[v] \in Int /\ balance'[v] \in Int /\ spent[v] \in Nat /\ spent'[v] \in Nat
  BY DEF CoveredInv, TypeOK
<1> QED
  BY <1>1, <1>2 DEF CoveredInv, WithdrawalsAreCovered, Covered, At

\* One step of any service.
LEMMA CoveredStep ==
    ASSUME OneSlot, CoveredInv, TypeOK', Next
    PROVE  CoveredInv'
<1>0. /\ balance \in [Users -> Int] /\ spent \in [Users -> Nat]
      /\ \A v \in Users, z \in Slots :
            request[v][z].seen \in Int /\ request[v][z].amount \in Nat
      /\ \A v \in Users \ rewarded : balance[v] + spent[v] >= 0
      /\ \A v \in Users \ rewarded, z \in Slots : Covered(v, z)
  BY DEF CoveredInv, TypeOK, WithdrawalsAreCovered, Request
<1>a. \A amount \in Amounts : amount \in Nat
  BY PositiveAmounts
<1> USE DEF incoming
<1>1. ASSUME NEW u \in Users, chargeWallet(u) \/ processCardPurchases(u) PROVE CoveredInv'
  <2>1. /\ UNCHANGED <<request, rewarded>>
        /\ \A v \in Users : /\ spent'[v] >= spent[v]
                            /\ balance'[v] + spent'[v] >= balance[v] + spent[v]
    BY <1>0, <1>1, <1>a DEF chargeWallet, processCardPurchases, PayIn, Add
  <2> QED
    BY <2>1, CoveredBySpending
<1>2. ASSUME NEW u \in Users, NEW s \in Slots, CheckBalance(u, s) PROVE CoveredInv'
  <2>1. PICK amount \in Amounts : amount <= balance[u] /\ Become(u, s, "withdraw", 0, amount)
    BY <1>2 DEF CheckBalance
  <2>2. UNCHANGED <<balance, spent, rewarded>>
    BY <1>2 DEF CheckBalance
  <2> QED
    BY <1>0, <1>a, <2>1, <2>2, CoveredMove
<1>3. ASSUME NEW u \in Users, NEW s \in Slots, CommitWithdraw(u, s) PROVE CoveredInv'
  <2>1. /\ UNCHANGED <<spent, rewarded>> /\ Become(u, s, "idle", 0, 0)
        /\ \A v \in Users : balance'[v] = IF v = u THEN balance[u] - request[u][s].amount
                                           ELSE balance[v]
    BY <1>0, <1>3 DEF CommitWithdraw, Add, Finish
  <2>2. u \notin rewarded => balance[u] + spent[u] >= request[u][s].amount
    BY <1>0, <1>3 DEF CommitWithdraw, Covered
  <2> QED
    BY <1>0, <2>1, <2>2, CoveredMove
<1>4. ASSUME NEW u \in Users, NEW s \in Slots, Finish(u, s), UNCHANGED <<balance, spent, rewarded>>
      PROVE  CoveredInv'
  BY <1>0, <1>4, CoveredMove DEF Finish
<1>5. ASSUME NEW u \in Users, NEW s \in Slots, NEW step \in {"canSpin", "load", "credit"},
             NEW amount, Become(u, s, step, balance[u], amount),
             UNCHANGED <<balance, spent, rewarded>>
      PROVE  CoveredInv'
  BY <1>0, <1>5, CoveredMove
<1>6. ASSUME NEW u \in Users, NEW s \in Slots, NEW step \in {"saveSpin", "pay", "update"},
             NEW amount, Become(u, s, step, request[u][s].seen, amount),
             request[u][s].at \in {"canSpin", "saveSpin", "load"},
             UNCHANGED <<balance, spent, rewarded>>
      PROVE  CoveredInv'
  <2>1. u \notin rewarded => request[u][s].seen + spent[u] >= 0
    BY <1>0, <1>6 DEF Covered
  <2> QED
    BY <1>0, <1>6, <2>1, CoveredMove
<1>7. ASSUME NEW u \in Users, NEW s \in Slots, spinWheel(u, s) PROVE CoveredInv'
  <2>1. CASE ReadUser(u, s)
    BY <1>5, <2>1 DEF ReadUser
  <2>2. CASE canSpin(u, s)
    BY <1>4, <1>6, <2>2 DEF canSpin, At
  <2>3. CASE SaveSpin(u, s)
    BY <1>4, <1>6, <2>3 DEF SaveSpin, Go, At
  <2>4. CASE PayPrize(u, s)
    <3>1. u \notin rewarded => request[u][s].seen + spent[u] >= 0
      BY <1>0, <2>4 DEF PayPrize, Covered, At
    <3>2. /\ UNCHANGED <<spent, rewarded>>
          /\ Become(u, s, "saveRow", request[u][s].seen, request[u][s].amount)
          /\ \A v \in Users : balance'[v] =
                IF v = u THEN request[u][s].seen + request[u][s].amount ELSE balance[v]
      BY <1>0, <2>4 DEF PayPrize, Go
    <3> QED
      BY <1>0, <3>1, <3>2, CoveredMove
  <2>5. CASE SavePrizeRow(u, s)
    BY <1>4, <2>5 DEF SavePrizeRow
  <2> QED
    BY <1>7, <2>1, <2>2, <2>3, <2>4, <2>5 DEF spinWheel
<1>8. ASSUME NEW u \in Users, NEW s \in Slots, updateProfile(u, s) PROVE CoveredInv'
  <2>1. CASE ReadProfile(u, s)
    BY <1>5, <2>1 DEF ReadProfile
  <2>2. CASE LoadProfile(u, s)
    BY <1>4, <1>6, <2>2 DEF LoadProfile, Go, At
  <2>3. CASE UpdateProfile(u, s)
    <3>1. u \notin rewarded => request[u][s].seen + spent[u] >= 0
      BY <1>0, <2>3 DEF UpdateProfile, Covered, At
    <3>2. /\ UNCHANGED <<spent, rewarded>> /\ Become(u, s, "idle", 0, 0)
          /\ \A v \in Users : balance'[v] = IF v = u THEN request[u][s].seen ELSE balance[v]
      BY <1>0, <2>3 DEF UpdateProfile, Finish
    <3> QED
      BY <1>0, <3>1, <3>2, CoveredMove
  <2> QED
    BY <1>8, <2>1, <2>2, <2>3 DEF updateProfile
<1>9. ASSUME NEW u \in Users, NEW s \in Slots, giveReferralReward(u, s) PROVE CoveredInv'
  <2>1. CASE FindReferrer(u, s)
    BY <1>5, <2>1 DEF FindReferrer
  <2>2. CASE Credit(u, s) /\ rewarded' = rewarded
    <3>1. CASE u \in rewarded
      <4>1. PICK step, seen, amount : Become(u, s, step, seen, amount)
        BY <2>2 DEF Credit, Finish, Go
      <4>2. UNCHANGED spent /\ \A v \in Users : v # u => balance'[v] = balance[v]
        BY <1>0, <2>2 DEF Credit
      <4> QED
        BY <2>2, <3>1, <4>1, <4>2, CoveredMove
    <3>2. CASE u \notin rewarded
      BY <1>4, <2>2, <3>2 DEF Credit
    <3> QED
      BY <3>1, <3>2
  <2>3. CASE Credit(u, s) /\ rewarded' # rewarded
    <3>1. /\ rewarded' = rewarded \cup {u} /\ UNCHANGED spent
          /\ \A v \in Users : v # u => balance'[v] = balance[v]
          /\ \A v \in Users : v # u => request'[v] = request[v]
      BY <1>0, <2>3 DEF Credit, Go, Become, CoveredInv, TypeOK
    <3> QED
      BY <1>0, <3>1 DEF CoveredInv, WithdrawalsAreCovered, Covered, At
  <2>4. CASE SaveBonus(u, s)
    BY <1>4, <2>4 DEF SaveBonus
  <2> QED
    BY <1>9, <2>1, <2>2, <2>3, <2>4 DEF giveReferralReward
<1>10. ASSUME NEW a \in Admins, Settle(a) PROVE CoveredInv'
  <2>1. UNCHANGED <<request, spent, rewarded>>
    BY <1>10 DEF Settle, ReadWithdraw, confirmWithdraw, rejectWithdraw, DecisionFails
  <2>2. \A v \in Users : balance'[v] >= balance[v]
    <3>1. CASE UNCHANGED balance
      BY <1>0, <3>1
    <3>2. CASE rejectWithdraw(a)
      <4>1. decision[a].row \in WalletTransaction
        BY <3>2 DEF rejectWithdraw, CoveredInv, TypeOK, Decision, Undecided
      <4>2. Refund(decision[a].row) \in Nat
        BY <4>1 DEF WalletTransaction, Refund
      <4> QED
        BY <1>0, <3>2, <4>2 DEF rejectWithdraw, PayIn, Add
    <3> QED
      BY <1>10, <3>1, <3>2 DEF Settle, ReadWithdraw, confirmWithdraw, DecisionFails
  <2>3. \A v \in Users : balance'[v] \in Int
    BY DEF TypeOK
  <2> QED
    BY <1>0, <2>1, <2>2, <2>3, CoveredBySpending
<1>11. CASE DayPasses
  BY <1>0, <1>11, CoveredBySpending DEF DayPasses
<1>12. ASSUME NEW u \in Users, NEW s \in Slots, RequestFails(u, s) PROVE CoveredInv'
  BY <1>4, <1>12 DEF RequestFails
<1> QED
  BY <1>1, <1>2, <1>3, <1>7, <1>8, <1>9, <1>10, <1>11, <1>12, UsersAssumption
     DEF Next, withdrawWallet

\* With one request of a user at a time no withdrawal takes a balance below
\* what the cards have cost.
THEOREM WithdrawalsCovered == OneSlot /\ Spec => []WithdrawalsAreCovered
<1> SUFFICES ASSUME OneSlot PROVE Spec => []WithdrawalsAreCovered
  OBVIOUS
<1>1. Init => CoveredInv
  BY DEF Init, CoveredInv, TypeOK, WithdrawalsAreCovered, Covered, At, Request,
         Undecided, Decision
<1>2. CoveredInv /\ [Next]_vars => CoveredInv'
  <2> SUFFICES ASSUME CoveredInv, [Next]_vars PROVE CoveredInv'
    OBVIOUS
  <2>1. CASE Next
    BY <2>1, CoveredStep, WalletTypeStep DEF CoveredInv
  <2>2. CASE UNCHANGED vars
    BY <2>2 DEF vars, CoveredInv, TypeOK, WithdrawalsAreCovered, Covered, At
  <2> QED
    BY <2>1, <2>2
<1>3. CoveredInv => WithdrawalsAreCovered
  BY DEF CoveredInv
<1> QED
  BY <1>1, <1>2, <1>3, PTL DEF Spec

-----------------------------------------------------------------------------
(***************************************************************************)
(* OldBalancesMakeNoMoney.  A balance that is to be written back was there *)
(* once, so it is no more than what had come in by then; the prize of a    *)
(* spin counts from the moment the spin is saved, before it is paid.       *)
(***************************************************************************)
CameIn(u) == paidIn[u] + won[u]

WritesWhatCameIn(u, s) ==
    /\ request[u][s].at \in {"canSpin", "saveSpin", "load", "update"} =>
            request[u][s].seen <= CameIn(u)
    /\ At(u, s, "pay") => request[u][s].seen + request[u][s].amount <= CameIn(u)

CameInInv ==
    /\ TypeOK
    /\ OldBalancesMakeNoMoney
    /\ \A u \in Users \ rewarded, s \in Slots : WritesWhatCameIn(u, s)

\* A step that moves no request and takes nothing off what came in.
LEMMA MoreCameIn ==
    ASSUME CameInInv, TypeOK', UNCHANGED <<request, rewarded>>,
           \A v \in Users : /\ CameIn(v)' >= CameIn(v)
                            /\ balance'[v] - balance[v] <= CameIn(v)' - CameIn(v)
    PROVE  CameInInv'
<1>1. \A v \in Users, z \in Slots :
        request[v][z].seen \in Int /\ request[v][z].amount \in Nat
  BY DEF CameInInv, TypeOK, Request
<1>2. \A v \in Users :
        balance[v] \in Int /\ balance'[v] \in Int /\ CameIn(v) \in Nat /\ CameIn(v)' \in Nat
  BY DEF CameInInv, TypeOK, CameIn
<1>3. \A v \in Users \ rewarded : balance[v] <= CameIn(v)
  BY DEF CameInInv, OldBalancesMakeNoMoney, HoldsWhatCameIn, CameIn
<1>4. \A v \in Users \ rewarded' : balance'[v] <= CameIn(v)'
  BY <1>2, <1>3
<1>5. ASSUME NEW v \in Users \ rewarded', NEW z \in Slots PROVE WritesWhatCameIn(v, z)'
  <2>1. WritesWhatCameIn(v, z) /\ CameIn(v)' >= CameIn(v) /\ request'[v][z] = request[v][z]
    BY DEF CameInInv
  <2> HIDE DEF CameIn
  <2>2. CameIn(v) \in Nat /\ CameIn(v)' \in Nat
    BY <1>2
  <2> QED
    BY <1>1, <2>1, <2>2 DEF WritesWhatCameIn, At
<1>6. OldBalancesMakeNoMoney'
  BY <1>4 DEF OldBalancesMakeNoMoney, HoldsWhatCameIn, CameIn
<1> QED
  BY <1>5, <1>6 DEF CameInInv

\* A request that moves, with what its new step may write.
LEMMA CameInMove ==
    ASSUME CameInInv, TypeOK', NEW u \in Users, NEW s \in Slots,
           NEW step, NEW seen \in Int, NEW amount \in Nat, Become(u, s, step, seen, amount),
           UNCHANGED <<paidIn, rewarded>>,
           \A v \in Users : won'[v] >= won[v] /\ (v # u => balance'[v] = balance[v]),
           u \notin rewarded =>
               /\ balance'[u] <= CameIn(u)'
               /\ step \in {"canSpin", "saveSpin", "load", "update"} => seen <= CameIn(u)'
               /\ step = "pay" => seen + amount <= CameIn(u)'
    PROVE  CameInInv'
<1>1. \A v \in Users, z \in Slots :
        request[v][z].seen \in Int /\ request[v][z].amount \in Nat
  BY DEF CameInInv, TypeOK, Request
<1>2. \A v \in Users : /\ balance[v] \in Int /\ balance'[v] \in Int
                       /\ CameIn(v) \in Nat /\ CameIn(v)' \in Nat /\ CameIn(v)' >= CameIn(v)
  BY DEF CameInInv, TypeOK, CameIn
<1>3. ASSUME NEW v \in Users \ rewarded PROVE balance'[v] <= CameIn(v)'
  <2>1. balance[v] <= CameIn(v)
    BY DEF CameInInv, OldBalancesMakeNoMoney, HoldsWhatCameIn, CameIn
  <2> HIDE DEF CameIn
  <2> QED
    BY <1>2, <2>1
<1>4. ASSUME NEW v \in Users \ rewarded, NEW z \in Slots PROVE WritesWhatCameIn(v, z)'
  <2>1. WritesWhatCameIn(v, z)
    BY DEF CameInInv
  <2>2. CASE v = u /\ z = s
    <3>1. request'[v][z] = [at |-> step, seen |-> seen, amount |-> amount]
      BY <2>2 DEF Become, CameInInv, TypeOK
    <3> QED
      BY <2>2, <3>1 DEF WritesWhatCameIn, At
  <2>3. CASE ~(v = u /\ z = s)
    <3>1. request'[v][z] = request[v][z]
      BY <2>3 DEF Become, CameInInv, TypeOK
    <3>2. CameIn(v) \in Nat /\ CameIn(v)' \in Nat /\ CameIn(v)' >= CameIn(v)
      BY <1>2
    <3> QED
      BY <1>1, <2>1, <3>1, <3>2 DEF WritesWhatCameIn, At
  <2> QED
    BY <2>2, <2>3
<1>5. OldBalancesMakeNoMoney'
  BY <1>3 DEF OldBalancesMakeNoMoney, HoldsWhatCameIn, CameIn
<1> QED
  BY <1>4, <1>5 DEF CameInInv

\* One step of any service.
LEMMA CameInStep ==
    ASSUME CameInInv, TypeOK', Next
    PROVE  CameInInv'
<1>0. /\ balance \in [Users -> Int] /\ paidIn \in [Users -> Nat] /\ won \in [Users -> Nat]
      /\ \A v \in Users, z \in Slots :
            request[v][z].seen \in Int /\ request[v][z].amount \in Nat
      /\ \A v \in Users \ rewarded : balance[v] <= paidIn[v] + won[v]
      /\ \A v \in Users \ rewarded, z \in Slots : WritesWhatCameIn(v, z)
  BY DEF CameInInv, TypeOK, OldBalancesMakeNoMoney, HoldsWhatCameIn, Request
<1>a. \A amount \in Amounts : amount \in Nat
  BY PositiveAmounts
<1> USE DEF incoming, CameIn
<1>1. ASSUME NEW u \in Users, chargeWallet(u) PROVE CameInInv'
  <2>1. PICK amount \in Amounts : PayIn(u, amount)
    BY <1>1 DEF chargeWallet
  <2>2. UNCHANGED <<request, rewarded, won>>
    BY <1>1 DEF chargeWallet
  <2>3. \A v \in Users :
            /\ paidIn'[v] = IF v = u THEN paidIn[v] + amount ELSE paidIn[v]
            /\ balance'[v] = IF v = u THEN balance[v] + amount ELSE balance[v]
    BY <1>0, <2>1 DEF PayIn, Add
  <2> QED
    BY <1>0, <1>a, <2>2, <2>3, MoreCameIn
<1>2. ASSUME NEW u \in Users, processCardPurchases(u) PROVE CameInInv'
  <2>1. UNCHANGED <<request, rewarded, won, paidIn>>
    BY <1>2 DEF processCardPurchases
  <2>2. \A v \in Users : balance'[v] <= balance[v]
    BY <1>0, <1>2, <1>a DEF processCardPurchases, Add
  <2>3. \A v \in Users : balance'[v] \in Int
    BY DEF TypeOK
  <2> QED
    BY <1>0, <2>1, <2>2, <2>3, MoreCameIn
<1>3. ASSUME NEW u \in Users, NEW s \in Slots, CheckBalance(u, s) PROVE CameInInv'
  <2>1. PICK amount \in Amounts : Become(u, s, "withdraw", 0, amount)
    BY <1>3 DEF CheckBalance
  <2>2. UNCHANGED <<balance, won, paidIn, rewarded>>
    BY <1>3 DEF CheckBalance
  <2> QED
    BY <1>0, <1>a, <2>1, <2>2, CameInMove
<1>4. ASSUME NEW u \in Users, NEW s \in Slots, CommitWithdraw(u, s) PROVE CameInInv'
  <2>1. /\ UNCHANGED <<won, paidIn, rewarded>> /\ Become(u, s, "idle", 0, 0)
        /\ \A v \in Users : balance'[v] = IF v = u THEN balance[u] - request[u][s].amount
                                           ELSE balance[v]
    BY <1>0, <1>4 DEF CommitWithdraw, Add, Finish
  <2> QED
    BY <1>0, <2>1, CameInMove
<1>5. ASSUME NEW u \in Users, NEW s \in Slots, Finish(u, s),
             UNCHANGED <<balance, won, paidIn, rewarded>>
      PROVE  CameInInv'
  BY <1>0, <1>5, CameInMove DEF Finish
<1>6. ASSUME NEW u \in Users, NEW s \in Slots, NEW step \in {"canSpin", "load", "credit"},
             NEW amount \in Nat, Become(u, s, step, balance[u], amount),
             UNCHANGED <<balance, won, paidIn, rewarded>>
      PROVE  CameInInv'
  BY <1>0, <1>6, CameInMove
<1>7. ASSUME NEW u \in Users, NEW s \in Slots, NEW step \in {"saveSpin", "update"},
             NEW amount \in Nat, Become(u, s, step, request[u][s].seen, amount),
             request[u][s].at \in {"canSpin", "load"},
             UNCHANGED <<balance, won, paidIn, rewarded>>
      PROVE  CameInInv'
  <2>1. u \notin rewarded => request[u][s].seen <= CameIn(u)
    BY <1>0, <1>7 DEF WritesWhatCameIn
  <2> QED
    BY <1>0, <1>7, <2>1, CameInMove
<1>8. ASSUME NEW u \in Users, NEW s \in Slots, spinWheel(u, s) PROVE CameInInv'
  <2>1. CASE ReadUser(u, s)
    BY <1>6, <2>1 DEF ReadUser
  <2>2. CASE canSpin(u, s)
    BY <1>5, <1>7, <2>2, PrizesAssumption DEF canSpin, At
  <2>3. CASE SaveSpin(u, s)
    <3>1. /\ UNCHANGED <<balance, paidIn, rewarded>>
          /\ \A v \in Users : won'[v] = IF v = u THEN won[v] + request[u][s].amount ELSE won[v]
      BY <1>0, <2>3 DEF SaveSpin
    <3>2. u \notin rewarded => request[u][s].seen + request[u][s].amount <= CameIn(u)'
      <4>1. u \notin rewarded => request[u][s].seen <= CameIn(u)
        BY <1>0, <2>3 DEF SaveSpin, At, WritesWhatCameIn
      <4> QED
        BY <1>0, <3>1, <4>1
    <3>3. CASE Finish(u, s)
      BY <1>0, <3>1, <3>3, CameInMove DEF Finish
    <3>4. CASE Go(u, s, "pay")
      BY <1>0, <3>1, <3>2, <3>4, CameInMove DEF Go
    <3> QED
      BY <2>3, <3>3, <3>4 DEF SaveSpin
  <2>4. CASE PayPrize(u, s)
    <3>1. u \notin rewarded => request[u][s].seen + request[u][s].amount <= CameIn(u)
      BY <1>0, <2>4 DEF PayPrize, WritesWhatCameIn
    <3>2. /\ UNCHANGED <<won, paidIn, rewarded>>
          /\ Become(u, s, "saveRow", request[u][s].seen, request[u][s].amount)
          /\ \A v \in Users : balance'[v] =
                IF v = u THEN request[u][s].seen + request[u][s].amount ELSE balance[v]
      BY <1>0, <2>4 DEF PayPrize, Go
    <3> QED
      BY <1>0, <3>1, <3>2, CameInMove
  <2>5. CASE SavePrizeRow(u, s)
    BY <1>5, <2>5 DEF SavePrizeRow
  <2> QED
    BY <1>8, <2>1, <2>2, <2>3, <2>4, <2>5 DEF spinWheel
<1>9. ASSUME NEW u \in Users, NEW s \in Slots, updateProfile(u, s) PROVE CameInInv'
  <2>1. CASE ReadProfile(u, s)
    BY <1>6, <2>1 DEF ReadProfile
  <2>2. CASE LoadProfile(u, s)
    BY <1>0, <1>5, <1>7, <2>2 DEF LoadProfile, Go, At
  <2>3. CASE UpdateProfile(u, s)
    <3>1. u \notin rewarded => request[u][s].seen <= CameIn(u)
      BY <1>0, <2>3 DEF UpdateProfile, WritesWhatCameIn, At
    <3>2. /\ UNCHANGED <<won, paidIn, rewarded>> /\ Become(u, s, "idle", 0, 0)
          /\ \A v \in Users : balance'[v] = IF v = u THEN request[u][s].seen ELSE balance[v]
      BY <1>0, <2>3 DEF UpdateProfile, Finish
    <3> QED
      BY <1>0, <3>1, <3>2, CameInMove
  <2> QED
    BY <1>9, <2>1, <2>2, <2>3 DEF updateProfile
<1>10. ASSUME NEW u \in Users, NEW s \in Slots, giveReferralReward(u, s) PROVE CameInInv'
  <2>1. CASE FindReferrer(u, s)
    BY <1>6, <2>1, RewardsAssumption DEF FindReferrer
  <2>2. CASE Credit(u, s)
    <3>1. CASE Finish(u, s) /\ UNCHANGED <<balance, paidIn, rewarded>>
      BY <1>5, <2>2, <3>1 DEF Credit
    <3>2. CASE rewarded' = rewarded \cup {u}
      <4>1. \A v \in Users : v # u =>
                /\ balance'[v] = balance[v] /\ paidIn'[v] = paidIn[v] /\ won'[v] = won[v]
                /\ request'[v] = request[v]
        BY <1>0, <2>2 DEF Credit, Go, Finish, Become, CameInInv, TypeOK
      <4>2. OldBalancesMakeNoMoney'
        BY <1>0, <3>2, <4>1 DEF OldBalancesMakeNoMoney, HoldsWhatCameIn
      <4>3. \A v \in Users \ rewarded', z \in Slots : WritesWhatCameIn(v, z)'
        BY <1>0, <3>2, <4>1 DEF WritesWhatCameIn, At
      <4> QED
        BY <4>2, <4>3 DEF CameInInv
    <3> QED
      BY <2>2, <3>1, <3>2 DEF Credit
  <2>3. CASE SaveBonus(u, s)
    BY <1>5, <2>3 DEF SaveBonus
  <2> QED
    BY <1>10, <2>1, <2>2, <2>3 DEF giveReferralReward
<1>11. ASSUME NEW a \in Admins, Settle(a) PROVE CameInInv'
  <2>1. UNCHANGED <<request, won, rewarded>>
    BY <1>11 DEF Settle, ReadWithdraw, confirmWithdraw, rejectWithdraw, DecisionFails
  <2>2. CASE UNCHANGED <<balance, paidIn>>
    BY <1>0, <2>1, <2>2, MoreCameIn
  <2>3. CASE rejectWithdraw(a)
    <3> DEFINE u == decision[a].row.user
               amount == Refund(decision[a].row)
    <3>1. decision[a].row \in WalletTransaction
      BY <2>3 DEF rejectWithdraw, CameInInv, TypeOK, Decision, Undecided
    <3>2. amount \in Nat /\ PayIn(u, amount)
      BY <2>3, <3>1 DEF WalletTransaction, Refund, rejectWithdraw
    <3> HIDE DEF u, amount
    <3>3. \A v \in Users :
              /\ paidIn'[v] = IF v = u THEN paidIn[v] + amount ELSE paidIn[v]
              /\ balance'[v] = IF v = u THEN balance[v] + amount ELSE balance[v]
      BY <1>0, <3>2 DEF PayIn, Add
    <3> QED
      BY <1>0, <2>1, <3>2, <3>3, MoreCameIn
  <2> QED
    BY <1>11, <2>2, <2>3 DEF Settle, ReadWithdraw, confirmWithdraw, DecisionFails
<1>12. CASE DayPasses
  BY <1>0, <1>12, MoreCameIn DEF DayPasses
<1>13. ASSUME NEW u \in Users, NEW s \in Slots, RequestFails(u, s) PROVE CameInInv'
  BY <1>5, <1>13 DEF RequestFails
<1> QED
  BY <1>1, <1>2, <1>3, <1>4, <1>8, <1>9, <1>10, <1>11, <1>12, <1>13, UsersAssumption
     DEF Next, withdrawWallet

\* Until a user has had a reward their wallet never holds more than was charged,
\* paid back and won, whatever the wheel and save(user) write back, for any
\* number of requests of a user and of administrators.
THEOREM OnlyPaidInMoney == Spec => []OldBalancesMakeNoMoney
<1>1. Init => CameInInv
  BY DEF Init, CameInInv, TypeOK, OldBalancesMakeNoMoney, HoldsWhatCameIn, WritesWhatCameIn, At,
         Request, Undecided, Decision
<1>2. CameInInv /\ [Next]_vars => CameInInv'
  <2> SUFFICES ASSUME CameInInv, [Next]_vars PROVE CameInInv'
    OBVIOUS
  <2>1. CASE Next
    BY <2>1, CameInStep, WalletTypeStep DEF CameInInv
  <2>2. CASE UNCHANGED vars
    BY <2>2 DEF vars, CameInInv, TypeOK, OldBalancesMakeNoMoney, HoldsWhatCameIn,
       WritesWhatCameIn, CameIn, At
  <2> QED
    BY <2>1, <2>2
<1>3. CameInInv => OldBalancesMakeNoMoney
  BY DEF CameInInv
<1> QED
  BY <1>1, <1>2, <1>3, PTL DEF Spec

-----------------------------------------------------------------------------
(***************************************************************************)
(* ImplementsLedger.  The UPDATE of a decision names a row by its id, so   *)
(* the mapping needs three facts: ids name one row, the row an             *)
(* administrator has read is still pending (true with one administrator    *)
(* only), and a saver's request is a withdrawal of a legal amount.         *)
(***************************************************************************)
IdsNameRows == \A t, v \in rows : t.id = v.id => t = v

SaverRows == \A t \in rows : t.user \in Savers => t \in L!WalletTransaction

SaverRequests ==
    \A u \in Savers, s \in Slots :
        \/ At(u, s, "idle")
        \/ At(u, s, "withdraw") /\ request[u][s].amount \in Amounts

DecisionsArePending ==
    \A a \in Admins : decision[a].at # "idle" =>
        /\ decision[a].row \in rows
        /\ decision[a].row.type = "withdraw" /\ decision[a].row.status = "pending"

LedgerInv ==
    TypeOK /\ IdsNameRows /\ SaverRows /\ SaverRequests /\ DecisionsArePending

Row(id, u, amount, type, status) ==
    [id |-> id, user |-> u, amount |-> amount, type |-> type, status |-> status]

Settled(t, status) ==
    [id |-> t.id, user |-> t.user, amount |-> t.amount, type |-> t.type, status |-> status]

\* A row that is inserted has an id of its own, and the others stay.
LEMMA InsertedRow ==
    ASSUME LedgerInv, NEW id \in NextIds, NEW u, NEW amount, NEW type, NEW status,
           InsertRow(id, u, amount, type, status)
    PROVE  /\ id \in Ids
           /\ \A t \in rows : t.id # id
           /\ rows' = rows \cup {Row(id, u, amount, type, status)}
  BY DEF InsertRow, Row, NextIds, Unused

\* What an insertion leaves of the invariant.
LEMMA InsertKeeps ==
    ASSUME LedgerInv, NEW id \in NextIds, NEW u, NEW amount, NEW type, NEW status,
           InsertRow(id, u, amount, type, status), UNCHANGED decision,
           u \in Savers => Row(id, u, amount, type, status) \in L!WalletTransaction
    PROVE  IdsNameRows' /\ SaverRows' /\ DecisionsArePending'
<1>1. /\ \A t \in rows : t.id # id
      /\ rows' = rows \cup {Row(id, u, amount, type, status)}
      /\ Row(id, u, amount, type, status).id = id
      /\ Row(id, u, amount, type, status).user = u
  BY InsertedRow DEF Row
<1>2. IdsNameRows'
  BY <1>1 DEF LedgerInv, IdsNameRows
<1>3. SaverRows'
  BY <1>1 DEF LedgerInv, SaverRows, L!WalletTransaction, L!TransactionType, L!TransactionStatus
<1>4. DecisionsArePending'
  BY <1>1 DEF LedgerInv, DecisionsArePending
<1> QED
  BY <1>2, <1>3, <1>4

\* A saver's row that comes with its money is a Post of the Ledger.
LEMMA InsertPosts ==
    ASSUME LedgerInv, NEW id \in NextIds, NEW u \in Savers, NEW amount \in Int, NEW type,
           NEW status, NEW moved \in Int,
           InsertRow(id, u, amount, type, status), Add(u, moved),
           Row(id, u, amount, type, status) \in L!WalletTransaction,
           status = (IF type = "withdraw" THEN "pending" ELSE "confirmed"),
           moved = L!Effect(Row(id, u, amount, type, status))
    PROVE  L!Post
<1> DEFINE t == Row(id, u, amount, type, status)
<1>0. t.user = u /\ t.id = id /\ t.type = type /\ t.status = status
  BY DEF Row
<1>1. (\A other \in rows : other.id # id) /\ rows' = rows \cup {t}
  BY InsertedRow
<1>2. {v \in rows' : v.user \in Savers} = {v \in rows : v.user \in Savers} \cup {t}
  BY <1>0, <1>1
<1>3. [v \in Savers |-> balance'[v]]
        = [[v \in Savers |-> balance[v]] EXCEPT ![u] = @ + moved]
  BY DEF LedgerInv, TypeOK, Savers, Add
<1>4. t \in L!WalletTransaction /\ moved = L!Effect(t)
  OBVIOUS
<1> HIDE DEF t
<1> QED
  BY <1>0, <1>1, <1>2, <1>3, <1>4 DEF L!Post

\* Money and rows of the others do not show in the Ledger.
LEMMA OthersDoNotShow ==
    ASSUME LedgerInv, NEW u \in Users, u \notin Savers,
           \/ UNCHANGED rows
           \/ \E id \in NextIds : \E amount, type, status : InsertRow(id, u, amount, type, status),
           \A v \in Users : v # u => balance'[v] = balance[v]
    PROVE  UNCHANGED L!vars
<1>1. {t \in rows' : t.user \in Savers} = {t \in rows : t.user \in Savers}
  <2>1. CASE UNCHANGED rows
    BY <2>1
  <2>2. ASSUME NEW id \in NextIds, NEW amount, NEW type, NEW status,
               InsertRow(id, u, amount, type, status)
        PROVE  {t \in rows' : t.user \in Savers} = {t \in rows : t.user \in Savers}
    <3>1. rows' = rows \cup {Row(id, u, amount, type, status)}
            /\ Row(id, u, amount, type, status).user = u
      BY <2>2, InsertedRow DEF Row
    <3> QED
      BY <3>1
  <2> QED
    BY <2>1, <2>2
<1>2. [v \in Savers |-> balance'[v]] = [v \in Savers |-> balance[v]]
  BY DEF Savers
<1> QED
  BY <1>1, <1>2 DEF L!vars

\* An UPDATE by id changes the status of one row.
LEMMA StatusOfOneRow ==
    ASSUME LedgerInv, NEW t \in rows, NEW status, SetStatus(t.id, status)
    PROVE  rows' = (rows \ {t}) \cup {Settled(t, status)}
<1>1. [t EXCEPT !.status = status] = Settled(t, status)
  BY DEF LedgerInv, TypeOK, WalletTransaction, Settled
<1>2. \A v \in rows : v.id = t.id <=> v = t
  BY DEF LedgerInv, IdsNameRows
<1>3. rows' = {IF v = t THEN Settled(t, status) ELSE v : v \in rows}
  BY <1>1, <1>2 DEF SetStatus
<1> QED
  BY <1>3

\* A decision of the only administrator: the row it has read is settled.
LEMMA DecisionSettles ==
    ASSUME OneAdmin, LedgerInv, NEW a \in Admins, NEW status \in {"confirmed", "failed"},
           decision[a].at # "idle", SetStatus(decision[a].row.id, status), Decided(a),
           UNCHANGED request, TypeOK',
           NEW u \in Users, u = decision[a].row.user,
           NEW moved \in Int, Add(u, moved),
           u \in Savers => moved = IF status = "failed" THEN -decision[a].row.amount ELSE 0
    PROVE  LedgerInv' /\ (L!Settle \/ UNCHANGED L!vars)
<1> DEFINE t == decision[a].row
<1> DEFINE new == Settled(t, status)
<1>1. t \in rows /\ t.type = "withdraw" /\ t.status = "pending"
  BY DEF LedgerInv, DecisionsArePending
<1>2. rows' = (rows \ {t}) \cup {new}
  BY <1>1, StatusOfOneRow
<1>3. t \in WalletTransaction
  BY <1>1 DEF LedgerInv, TypeOK
<1>4. new.id = t.id /\ new.user = t.user /\ new.amount = t.amount /\ new.type = t.type
      /\ new.status = status
  BY DEF Settled
<1>5. new = [t EXCEPT !.status = status]
  BY <1>3 DEF Settled, WalletTransaction
<1>6. t.user \in Savers => new \in L!WalletTransaction /\ t \in L!WalletTransaction
  BY <1>1 DEF LedgerInv, SaverRows, L!WalletTransaction, L!TransactionStatus, Settled
<1>7. t.amount \in Int /\ t.user = u
  BY <1>3 DEF WalletTransaction
<1> HIDE DEF t, new
<1>8. IdsNameRows'
  BY <1>1, <1>2, <1>4 DEF LedgerInv, IdsNameRows
<1>9. SaverRows'
  BY <1>2, <1>4, <1>6 DEF LedgerInv, SaverRows, L!WalletTransaction, L!TransactionType,
     L!TransactionStatus
<1>10. DecisionsArePending'
  BY DEF OneAdmin, LedgerInv, TypeOK, DecisionsArePending, Decided, Undecided
<1>11. SaverRequests'
  BY DEF LedgerInv, SaverRequests, At
<1>12. CASE t.user \in Savers
  <2>1. {v \in rows' : v.user \in Savers} = ({v \in rows : v.user \in Savers} \ {t}) \cup {new}
    BY <1>2, <1>4, <1>12
  <2>2. [v \in Savers |-> balance'[v]]
          = [[v \in Savers |-> balance[v]] EXCEPT ![u] = @ + moved]
    BY <1>7, <1>12 DEF LedgerInv, TypeOK, Savers, Add
  <2>3. moved = L!Effect(new) - L!Effect(t)
    BY <1>1, <1>4, <1>7, <1>12 DEF L!Effect, t
  <2>4. balance[u] + moved = balance[u] + L!Effect(new) - L!Effect(t)
    <3>1. balance[u] \in Int
      BY DEF LedgerInv, TypeOK
    <3>2. L!Effect(new) \in Int /\ L!Effect(t) \in Int
      BY <1>1, <1>4, <1>7 DEF L!Effect
    <3> QED
      BY <2>3, <3>1, <3>2
  <2>5. [v \in Savers |-> balance'[v]]
          = [[v \in Savers |-> balance[v]] EXCEPT ![u] = @ + L!Effect(new) - L!Effect(t)]
    BY <1>7, <1>12, <2>2, <2>4
  <2>6. L!Settle
    BY <1>1, <1>5, <1>7, <1>12, <2>1, <2>5 DEF L!Settle
  <2> QED
    BY <1>8, <1>9, <1>10, <1>11, <2>6 DEF LedgerInv
<1>13. CASE t.user \notin Savers
  <2>1. {v \in rows' : v.user \in Savers} = {v \in rows : v.user \in Savers}
    BY <1>2, <1>4, <1>13
  <2>2. [v \in Savers |-> balance'[v]] = [v \in Savers |-> balance[v]]
    BY <1>7, <1>13 DEF LedgerInv, TypeOK, Savers, Add
  <2> QED
    BY <1>8, <1>9, <1>10, <1>11, <2>1, <2>2 DEF LedgerInv, L!vars
<1> QED
  BY <1>12, <1>13

\* A step that keeps rows and decisions and moves no saver's money.
LEMMA Hidden ==
    ASSUME LedgerInv, TypeOK', UNCHANGED <<rows, decision>>, SaverRequests',
           \A u \in Savers : balance'[u] = balance[u]
    PROVE  LedgerInv' /\ UNCHANGED L!vars
<1>1. [v \in Savers |-> balance'[v]] = [v \in Savers |-> balance[v]]
  OBVIOUS
<1> QED
  BY <1>1 DEF LedgerInv, IdsNameRows, SaverRows, DecisionsArePending, L!vars

\* A saver's request that ends, or reads a balance, or another's that goes on.
LEMMA RequestsStayLegal ==
    ASSUME LedgerInv, NEW u \in Users, NEW s \in Slots, NEW step, NEW seen, NEW amount,
           Become(u, s, step, seen, amount),
           \/ u \notin Savers
           \/ step = "idle"
           \/ step = "withdraw" /\ amount \in Amounts
    PROVE  SaverRequests'
<1>1. \A v \in Savers, z \in Slots :
        \/ request'[v][z] = request[v][z]
        \/ v = u /\ request'[v][z] = [at |-> step, seen |-> seen, amount |-> amount]
  BY DEF LedgerInv, TypeOK, Become, Savers
<1> QED
  BY <1>1 DEF LedgerInv, SaverRequests, At

\* Every step of a service is a step of the Ledger or does not show.
LEMMA LedgerStep ==
    ASSUME OneAdmin, LedgerInv, TypeOK', Next
    PROVE  LedgerInv' /\ (L!Next \/ UNCHANGED L!vars)
<1>0. /\ \A amount \in Amounts : amount \in Nat /\ amount > 0 /\ -amount \in Int
      /\ \A u \in Users, s \in Slots : request[u][s].amount \in Nat
  BY PositiveAmounts DEF LedgerInv, TypeOK, Request
<1>1. ASSUME NEW u \in Users, chargeWallet(u) \/ processCardPurchases(u)
      PROVE  LedgerInv' /\ (L!Next \/ UNCHANGED L!vars)
  <2>1. PICK id \in NextIds, amount \in Amounts, type \in {"charge", "card_purchase"} :
            /\ InsertRow(id, u, amount, type, "confirmed")
            /\ Add(u, IF type = "charge" THEN amount ELSE -amount)
    <3>1. CASE chargeWallet(u)
      BY <3>1 DEF chargeWallet, PayIn
    <3>2. CASE processCardPurchases(u)
      BY <3>2 DEF processCardPurchases
    <3> QED
      BY <1>1, <3>1, <3>2
  <2> DEFINE moved == IF type = "charge" THEN amount ELSE -amount
  <2>2. UNCHANGED <<request, decision>>
    BY <1>1 DEF chargeWallet, processCardPurchases
  <2>3. u \in Savers => Row(id, u, amount, type, "confirmed") \in L!WalletTransaction
    BY <1>0, <2>1, InsertedRow DEF Row, L!WalletTransaction, L!TransactionType, L!TransactionStatus
  <2>4. LedgerInv'
    BY <2>1, <2>2, <2>3, InsertKeeps DEF LedgerInv, SaverRequests, At
  <2>5. CASE u \in Savers
    <3>1. moved = L!Effect(Row(id, u, amount, type, "confirmed"))
      BY <1>0, <2>1 DEF Row, L!Effect
    <3>2. "confirmed" = (IF type = "withdraw" THEN "pending" ELSE "confirmed")
      BY <2>1
    <3>3. amount \in Int /\ moved \in Int
      BY <1>0
    <3>4. L!Post
      BY <2>1, <2>3, <2>5, <3>1, <3>2, <3>3, InsertPosts
    <3> QED
      BY <2>4, <3>4 DEF L!Next
  <2>6. CASE u \notin Savers
    <3>1. \A v \in Users : v # u => balance'[v] = balance[v]
      BY <2>1 DEF LedgerInv, TypeOK, Add
    <3> QED
      BY <2>1, <2>4, <2>6, <3>1, OthersDoNotShow
  <2> QED
    BY <2>5, <2>6
<1>2. ASSUME NEW u \in Users, NEW s \in Slots, CheckBalance(u, s)
      PROVE  LedgerInv' /\ (L!Next \/ UNCHANGED L!vars)
  <2>1. SaverRequests'
    BY <1>2, RequestsStayLegal DEF CheckBalance
  <2> QED
    BY <1>2, <2>1, Hidden DEF CheckBalance
<1>3. ASSUME NEW u \in Users, NEW s \in Slots, CommitWithdraw(u, s)
      PROVE  LedgerInv' /\ (L!Next \/ UNCHANGED L!vars)
  <2> DEFINE amount == -request[u][s].amount
  <2>1. PICK id \in NextIds : InsertRow(id, u, amount, "withdraw", "pending")
    BY <1>3 DEF CommitWithdraw
  <2>2. Add(u, amount) /\ UNCHANGED decision /\ amount \in Int
    BY <1>0, <1>3 DEF CommitWithdraw
  <2>3. u \in Savers => Row(id, u, amount, "withdraw", "pending") \in L!WalletTransaction
    <3>1. u \in Savers => request[u][s].amount \in Amounts
      BY <1>3 DEF LedgerInv, SaverRequests, CommitWithdraw, At
    <3> QED
      BY <1>0, <2>1, <3>1, InsertedRow DEF Row, L!WalletTransaction, L!TransactionType,
         L!TransactionStatus
  <2>4. SaverRequests'
    BY <1>3, RequestsStayLegal DEF CommitWithdraw, Finish
  <2> HIDE DEF amount
  <2>5. LedgerInv'
    BY <2>1, <2>2, <2>3, <2>4, InsertKeeps DEF LedgerInv
  <2>6. CASE u \in Savers
    <3>1. amount = L!Effect(Row(id, u, amount, "withdraw", "pending"))
      BY DEF Row, L!Effect
    <3>2. L!Post
      BY <2>1, <2>2, <2>3, <2>6, <3>1, InsertPosts
    <3> QED
      BY <2>5, <3>2 DEF L!Next
  <2>7. CASE u \notin Savers
    <3>1. \A v \in Users : v # u => balance'[v] = balance[v]
      BY <2>2 DEF LedgerInv, TypeOK, Add
    <3> QED
      BY <2>1, <2>5, <2>7, <3>1, OthersDoNotShow
  <2> QED
    BY <2>6, <2>7
<1>4. ASSUME NEW u \in Users, NEW s \in Slots, RequestFails(u, s)
      PROVE  LedgerInv' /\ (L!Next \/ UNCHANGED L!vars)
  <2>1. SaverRequests'
    BY <1>4, RequestsStayLegal DEF RequestFails, Finish
  <2> QED
    BY <1>4, <2>1, Hidden DEF RequestFails
<1>5. ASSUME NEW u \in Spinners, NEW s \in Slots, spinWheel(u, s)
      PROVE  LedgerInv' /\ (L!Next \/ UNCHANGED L!vars)
  <2>0. u \in Users /\ u \notin Savers
    BY UsersAssumption DEF Savers
  <2>1. SaverRequests'
    BY <1>5, <2>0, RequestsStayLegal
       DEF spinWheel, ReadUser, canSpin, SaveSpin, PayPrize, SavePrizeRow, Finish, Go
  <2>2. \A v \in Users : v # u => balance'[v] = balance[v]
    BY <1>5 DEF spinWheel, ReadUser, canSpin, SaveSpin, PayPrize, SavePrizeRow, LedgerInv, TypeOK
  <2>3. CASE UNCHANGED <<rows, decision>>
    BY <2>0, <2>1, <2>2, <2>3, Hidden DEF Savers
  <2>4. CASE SavePrizeRow(u, s)
    <3>1. PICK id \in NextIds : InsertRow(id, u, request[u][s].amount, "wheel_spin", "confirmed")
      BY <2>4 DEF SavePrizeRow
    <3>2. UNCHANGED decision
      BY <2>4 DEF SavePrizeRow
    <3>3. LedgerInv'
      BY <2>0, <2>1, <3>1, <3>2, InsertKeeps DEF LedgerInv
    <3> QED
      BY <2>0, <2>2, <3>1, <3>3, OthersDoNotShow
  <2> QED
    BY <1>5, <2>3, <2>4 DEF spinWheel, ReadUser, canSpin, SaveSpin, PayPrize
<1>6. ASSUME NEW a \in Admins, Settle(a)
      PROVE  LedgerInv' /\ (L!Next \/ UNCHANGED L!vars)
  <2>1. CASE ReadWithdraw(a)
    <3>1. DecisionsArePending'
      BY <2>1 DEF ReadWithdraw, LedgerInv, TypeOK, DecisionsArePending
    <3> QED
      BY <2>1, <3>1 DEF ReadWithdraw, LedgerInv, IdsNameRows, SaverRows, SaverRequests, At, L!vars
  <2>2. CASE DecisionFails(a)
    <3>1. DecisionsArePending'
      BY <2>2 DEF DecisionFails, Decided, Undecided, LedgerInv, TypeOK, DecisionsArePending
    <3> QED
      BY <2>2, <3>1 DEF DecisionFails, LedgerInv, IdsNameRows, SaverRows, SaverRequests, At, L!vars
  <2>3. CASE confirmWithdraw(a) \/ rejectWithdraw(a)
    <3>1. decision[a].row \in rows /\ decision[a].row.type = "withdraw" /\ decision[a].at # "idle"
      BY <2>3 DEF confirmWithdraw, rejectWithdraw, LedgerInv, DecisionsArePending
    <3>2. decision[a].row.user \in Users /\ decision[a].row.amount \in Int
      BY <3>1 DEF LedgerInv, TypeOK, WalletTransaction
    <3>3. CASE confirmWithdraw(a)
      <4>1. Add(decision[a].row.user, 0)
        BY <3>2, <3>3 DEF Add, LedgerInv, TypeOK, confirmWithdraw
      <4> QED
        BY <3>1, <3>2, <3>3, <4>1, DecisionSettles DEF confirmWithdraw, L!Next
    <3>4. CASE rejectWithdraw(a)
      <4>1. decision[a].row.user \in Savers => Refund(decision[a].row) = -decision[a].row.amount
        BY <3>1, <3>2 DEF Refund, LedgerInv, SaverRows, L!WalletTransaction
      <4>2. Refund(decision[a].row) \in Int
        BY <3>2 DEF Refund
      <4> QED
        BY <3>1, <3>2, <3>4, <4>1, <4>2, DecisionSettles DEF rejectWithdraw, PayIn, L!Next
    <3> QED
      BY <2>3, <3>3, <3>4
  <2> QED
    BY <1>6, <2>1, <2>2, <2>3 DEF Settle
<1>7. CASE DayPasses
  <2>1. SaverRequests'
    BY <1>7 DEF DayPasses, LedgerInv, SaverRequests, At
  <2> QED
    BY <1>7, <2>1, Hidden DEF DayPasses
<1>8. ASSUME NEW u \in Editors, NEW s \in Slots, updateProfile(u, s)
      PROVE  LedgerInv' /\ (L!Next \/ UNCHANGED L!vars)
  <2>0. u \in Users /\ u \notin Savers
    BY UsersAssumption DEF Savers
  <2>1. SaverRequests'
    BY <1>8, <2>0, RequestsStayLegal
       DEF updateProfile, ReadProfile, LoadProfile, UpdateProfile, Finish, Go
  <2>2. \A v \in Users : v # u => balance'[v] = balance[v]
    BY <1>8 DEF updateProfile, ReadProfile, LoadProfile, UpdateProfile, LedgerInv, TypeOK
  <2>3. UNCHANGED <<rows, decision>>
    BY <1>8 DEF updateProfile, ReadProfile, LoadProfile, UpdateProfile
  <2> QED
    BY <2>0, <2>1, <2>2, <2>3, Hidden DEF Savers
<1>9. ASSUME NEW u \in Referrers, NEW s \in Slots, giveReferralReward(u, s)
      PROVE  LedgerInv' /\ (L!Next \/ UNCHANGED L!vars)
  <2>0. u \in Users /\ u \notin Savers
    BY UsersAssumption DEF Savers
  <2>1. SaverRequests'
    BY <1>9, <2>0, RequestsStayLegal
       DEF giveReferralReward, FindReferrer, Credit, SaveBonus, Finish, Go
  <2>2. \A v \in Users : v # u => balance'[v] = balance[v]
    BY <1>9 DEF giveReferralReward, FindReferrer, Credit, SaveBonus, LedgerInv, TypeOK
  <2>3. CASE UNCHANGED <<rows, decision>>
    BY <2>0, <2>1, <2>2, <2>3, Hidden DEF Savers
  <2>4. CASE SaveBonus(u, s)
    <3>1. PICK id \in NextIds :
              InsertRow(id, u, request[u][s].amount, "referral_bonus", "confirmed")
      BY <2>4 DEF SaveBonus
    <3>2. UNCHANGED decision
      BY <2>4 DEF SaveBonus
    <3>3. LedgerInv'
      BY <2>0, <2>1, <3>1, <3>2, InsertKeeps DEF LedgerInv
    <3> QED
      BY <2>0, <2>2, <3>1, <3>3, OthersDoNotShow
  <2> QED
    BY <1>9, <2>3, <2>4 DEF giveReferralReward, FindReferrer, Credit
<1> QED
  BY <1>1, <1>2, <1>3, <1>4, <1>5, <1>6, <1>7, <1>8, <1>9 DEF Next, withdrawWallet

\* The invariant holds and every step maps.
LEMMA LedgerInvariant == OneAdmin /\ Spec => [](LedgerInv /\ TypeOK)
<1> SUFFICES ASSUME OneAdmin PROVE Spec => [](LedgerInv /\ TypeOK)
  OBVIOUS
<1>1. Init => LedgerInv /\ TypeOK
  BY UsersAssumption
     DEF Init, LedgerInv, TypeOK, Request, Undecided, Decision, IdsNameRows, SaverRows,
         SaverRequests, At, DecisionsArePending, Savers
<1>2. LedgerInv /\ TypeOK /\ [Next]_vars => (LedgerInv /\ TypeOK)'
  <2> SUFFICES ASSUME LedgerInv, TypeOK, [Next]_vars PROVE (LedgerInv /\ TypeOK)'
    OBVIOUS
  <2>1. TypeOK'
    BY WalletTypeStep
  <2>2. CASE Next
    BY <2>1, <2>2, LedgerStep
  <2>3. CASE UNCHANGED vars
    BY <2>1, <2>3 DEF vars, LedgerInv, IdsNameRows, SaverRows, SaverRequests, At,
       DecisionsArePending
  <2> QED
    BY <2>2, <2>3
<1> QED
  BY <1>1, <1>2, PTL DEF Spec

\* With one administrator the services implement the Ledger for everybody whose
\* balance only additions write: each of their steps posts a row with its money,
\* settles a pending withdrawal, or does not show.
THEOREM WalletImplementsLedger == OneAdmin /\ Spec => ImplementsLedger
<1> SUFFICES ASSUME OneAdmin PROVE Spec => L!Spec
  BY DEF ImplementsLedger
<1>1. Init => L!Init
  BY UsersAssumption DEF Init, L!Init, Savers
<1>2. LedgerInv /\ (LedgerInv /\ TypeOK)' /\ [Next]_vars => [L!Next]_(L!vars)
  <2> SUFFICES ASSUME LedgerInv, TypeOK', [Next]_vars PROVE L!Next \/ UNCHANGED L!vars
    OBVIOUS
  <2>1. CASE Next
    BY <2>1, LedgerStep
  <2>2. CASE UNCHANGED vars
    BY <2>2 DEF vars, L!vars
  <2> QED
    BY <2>1, <2>2
<1>3. Spec => [](LedgerInv /\ TypeOK)
  BY LedgerInvariant
<1> QED
  BY <1>1, <1>2, <1>3, PTL DEF Spec, L!Spec

-----------------------------------------------------------------------------
(***************************************************************************)
(* Sums over finite sets.  MapThenSumSet is an iteration over subsets that *)
(* takes a chosen element away each time; Total is the same iteration over *)
(* the values of a function.  A sum does not depend on the order of the    *)
(* choices: at the smallest set where it would, the first two elements     *)
(* taken can be exchanged.                                                 *)
(***************************************************************************)
Chosen(s) == CHOOSE x \in s : TRUE

\* f is the iteration over the subsets of S with at most n elements.
SumsUpTo(f, w, S, n) ==
    f = [s \in {z \in SUBSET S : Cardinality(z) <= n} |->
            IF s = {} THEN 0 ELSE w[Chosen(s)] + f[s \ {Chosen(s)}]]

\* f is the iteration over all subsets of S.
Sums(f, w, S) ==
    f = [s \in SUBSET S |-> IF s = {} THEN 0 ELSE w[Chosen(s)] + f[s \ {Chosen(s)}]]

Total(w, S) == (CHOOSE f : Sums(f, w, S))[S]

\* What is left when an element is taken from a finite set.
LEMMA OneLess ==
    ASSUME NEW S, IsFiniteSet(S), NEW s \in SUBSET S, NEW x \in s
    PROVE  /\ Cardinality(s) \in Nat /\ Cardinality(s \ {x}) \in Nat
           /\ Cardinality(s \ {x}) = Cardinality(s) - 1
           /\ s \ {x} \in SUBSET S
<1>1. IsFiniteSet(s)
  BY FS_Subset
<1>2. Cardinality(s) \in Nat
  BY <1>1, FS_CardinalityType
<1>3. IsFiniteSet(s \ {x}) /\ Cardinality(s \ {x}) = Cardinality(s) - 1
  BY <1>1, FS_RemoveElement
<1>4. Cardinality(s \ {x}) \in Nat
  BY <1>3, FS_CardinalityType
<1> QED
  BY <1>2, <1>3, <1>4

\* The element that is chosen is one of the set.
LEMMA ChosenIsIn == ASSUME NEW s, s # {} PROVE Chosen(s) \in s
  BY DEF Chosen

\* The iteration exists up to every size ...
LEMMA SumsUpToExist ==
    ASSUME NEW w, NEW S, IsFiniteSet(S), NEW n \in Nat
    PROVE  \E f : SumsUpTo(f, w, S, n)
<1> DEFINE Bad == {m \in Nat : ~ \E f : SumsUpTo(f, w, S, m)}
           Small(m) == {z \in SUBSET S : Cardinality(z) <= m}
<1> SUFFICES ASSUME Bad # {} PROVE FALSE
  OBVIOUS
<1>1. PICK b \in Bad : \A m \in Bad : b <= m
  BY SmallestExists
<1>2. b \in Nat /\ ~ \E f : SumsUpTo(f, w, S, b)
  OBVIOUS
<1>3. b # 0
  <2>1. Small(0) \subseteq {{}}
    <3>1. ASSUME NEW z \in Small(0), z # {} PROVE FALSE
      <4>1. PICK x \in z : TRUE
        BY <3>1
      <4>2. z \in SUBSET S /\ Cardinality(z) <= 0
        OBVIOUS
      <4>3. /\ Cardinality(z) \in Nat /\ Cardinality(z \ {x}) \in Nat
            /\ Cardinality(z \ {x}) = Cardinality(z) - 1
        BY <4>1, <4>2, OneLess
      <4> QED
        BY <4>2, <4>3
    <3> QED
      BY <3>1
  <2> DEFINE g == [s \in Small(0) |-> 0]
  <2>2. g = [s \in Small(0) |-> IF s = {} THEN 0 ELSE w[Chosen(s)] + g[s \ {Chosen(s)}]]
    BY <2>1
  <2>3. SumsUpTo(g, w, S, 0)
    BY <2>2 DEF SumsUpTo
  <2> QED
    BY <1>2, <2>3
<1>4. b - 1 \in Nat /\ b - 1 \notin Bad
  BY <1>1, <1>2, <1>3
<1>5. PICK f : SumsUpTo(f, w, S, b - 1)
  BY <1>4
<1> DEFINE g == [s \in Small(b) |-> IF s = {} THEN 0 ELSE w[Chosen(s)] + f[s \ {Chosen(s)}]]
<1>6. ASSUME NEW s \in Small(b), s # {}
      PROVE  g[s \ {Chosen(s)}] = f[s \ {Chosen(s)}]
  <2> DEFINE r == s \ {Chosen(s)}
  <2>1. r \in SUBSET S /\ Cardinality(r) <= b - 1 /\ Cardinality(r) <= b
    BY <1>2, <1>6, ChosenIsIn, OneLess
  <2>2. r \in Small(b) /\ r \in Small(b - 1)
    BY <2>1
  <2> HIDE DEF r
  <2>3. f[r] = IF r = {} THEN 0 ELSE w[Chosen(r)] + f[r \ {Chosen(r)}]
    BY <1>5, <2>2 DEF SumsUpTo
  <2>4. g[r] = f[r]
    BY <2>2, <2>3
  <2> QED
    BY <2>4 DEF r
<1>7. g = [s \in Small(b) |-> IF s = {} THEN 0 ELSE w[Chosen(s)] + g[s \ {Chosen(s)}]]
  <2>1. \A s \in Small(b) :
            (IF s = {} THEN 0 ELSE w[Chosen(s)] + f[s \ {Chosen(s)}])
              = (IF s = {} THEN 0 ELSE w[Chosen(s)] + g[s \ {Chosen(s)}])
    BY <1>6
  <2> HIDE DEF Small
  <2> QED
    BY <2>1
<1>8. SumsUpTo(g, w, S, b)
  BY <1>7 DEF SumsUpTo
<1> QED
  BY <1>2, <1>8

\* ... and over all subsets.
LEMMA SumsExist ==
    ASSUME NEW w, NEW S, IsFiniteSet(S)
    PROVE  \E f : Sums(f, w, S)
<1>1. Cardinality(S) \in Nat
  BY FS_CardinalityType
<1>2. {z \in SUBSET S : Cardinality(z) <= Cardinality(S)} = SUBSET S
  BY FS_Subset
<1>3. PICK f : SumsUpTo(f, w, S, Cardinality(S))
  BY <1>1, SumsUpToExist
<1>4. Sums(f, w, S)
  BY <1>2, <1>3 DEF SumsUpTo, Sums
<1> QED
  BY <1>4

\* One step of the iteration.
LEMMA SumsUnfold ==
    ASSUME NEW w, NEW S, NEW f, Sums(f, w, S), NEW s \in SUBSET S
    PROVE  f[s] = IF s = {} THEN 0 ELSE w[Chosen(s)] + f[s \ {Chosen(s)}]
  BY DEF Sums

\* A property of the subsets of a finite set that fails somewhere fails at a
\* subset of which it holds for all smaller ones.
LEMMA SmallestSubset ==
    ASSUME NEW S, IsFiniteSet(S), NEW B \in SUBSET (SUBSET S), B # {}
    PROVE  \E s \in B : \A r \in SUBSET S : Cardinality(r) < Cardinality(s) => r \notin B
<1>1. \A s \in SUBSET S : Cardinality(s) \in Nat
  BY FS_Subset, FS_CardinalityType
<1> DEFINE Sizes == {Cardinality(s) : s \in B}
<1>2. Sizes \in SUBSET Nat /\ Sizes # {}
  BY <1>1
<1>3. PICK m \in Sizes : \A n \in Sizes : m <= n
  BY <1>2, SmallestExists
<1>4. PICK s \in B : Cardinality(s) = m
  BY <1>3
<1>5. ASSUME NEW r \in SUBSET S, Cardinality(r) < Cardinality(s) PROVE r \notin B
  <2>1. SUFFICES ASSUME r \in B PROVE FALSE
    OBVIOUS
  <2>2. m <= Cardinality(r)
    BY <1>3, <2>1
  <2> QED
    BY <1>1, <1>4, <1>5, <2>2
<1> QED
  BY <1>4, <1>5

\* Sums of integers are integers.
LEMMA SumsAreIntegers ==
    ASSUME NEW W, NEW w \in [W -> Int], NEW S \in SUBSET W, IsFiniteSet(S),
           NEW f, Sums(f, w, S), NEW s \in SUBSET S
    PROVE  f[s] \in Int
<1> DEFINE B == {z \in SUBSET S : f[z] \notin Int}
<1> SUFFICES ASSUME B # {} PROVE FALSE
  OBVIOUS
<1>1. PICK z \in B : \A r \in SUBSET S : Cardinality(r) < Cardinality(z) => r \notin B
  <2>1. B \in SUBSET (SUBSET S)
    OBVIOUS
  <2> HIDE DEF B
  <2> QED
    BY <2>1, SmallestSubset
<1>2. z \in SUBSET S /\ f[z] \notin Int
  OBVIOUS
<1>3. z # {}
  <2>1. z = {} => f[z] = 0
    BY <1>2 DEF Sums
  <2> QED
    BY <1>2, <2>1
<1>4. Chosen(z) \in z /\ w[Chosen(z)] \in Int
  BY <1>2, <1>3, ChosenIsIn
<1>5. z \ {Chosen(z)} \in SUBSET S /\ Cardinality(z \ {Chosen(z)}) < Cardinality(z)
  BY <1>2, <1>4, OneLess
<1>6. f[z \ {Chosen(z)}] \in Int
  BY <1>1, <1>5
<1>7. f[z] = w[Chosen(z)] + f[z \ {Chosen(z)}]
  BY <1>2, <1>3, SumsUnfold
<1> QED
  BY <1>2, <1>4, <1>6, <1>7

\* Any element can be taken away first.
LEMMA AnyElementFirst ==
    ASSUME NEW W, NEW w \in [W -> Int], NEW S \in SUBSET W, IsFiniteSet(S),
           NEW f, Sums(f, w, S), NEW s \in SUBSET S, NEW x \in s
    PROVE  f[s] = w[x] + f[s \ {x}]
<1> DEFINE B == {z \in SUBSET S : \E y \in z : f[z] # w[y] + f[z \ {y}]}
<1> SUFFICES ASSUME B # {} PROVE FALSE
  OBVIOUS
<1>1. PICK z \in B : \A r \in SUBSET S : Cardinality(r) < Cardinality(z) => r \notin B
  <2>1. B \in SUBSET (SUBSET S)
    OBVIOUS
  <2> HIDE DEF B
  <2> QED
    BY <2>1, SmallestSubset
<1>2. z \in SUBSET S
  OBVIOUS
<1>3. PICK y \in z : f[z] # w[y] + f[z \ {y}]
  OBVIOUS
<1> DEFINE c == Chosen(z)
<1>4. c \in z
  BY <1>3, ChosenIsIn
<1>5. f[z] = w[c] + f[z \ {c}]
  BY <1>2, <1>3, SumsUnfold
<1> HIDE DEF c
<1>6. c # y
  BY <1>3, <1>5
<1>7. /\ z \ {c} \in SUBSET S /\ Cardinality(z \ {c}) < Cardinality(z)
      /\ z \ {y} \in SUBSET S /\ Cardinality(z \ {y}) < Cardinality(z)
  BY <1>2, <1>3, <1>4, OneLess
<1>8. y \in z \ {c} /\ c \in z \ {y}
  BY <1>3, <1>4, <1>6
<1> DEFINE both == (z \ {c}) \ {y}
<1>9. both = (z \ {y}) \ {c}
  OBVIOUS
<1>10. f[z \ {c}] = w[y] + f[both]
  BY <1>1, <1>7, <1>8
<1>11. f[z \ {y}] = w[c] + f[both]
  <2>1. f[z \ {y}] = w[c] + f[(z \ {y}) \ {c}]
    BY <1>1, <1>7, <1>8
  <2> QED
    BY <1>9, <2>1
<1>12. w[y] \in Int /\ w[c] \in Int
  BY <1>2, <1>3, <1>4
<1>13. both \in SUBSET S
  BY <1>7
<1> HIDE DEF both
<1>14. f[both] \in Int
  BY <1>13, SumsAreIntegers
<1> QED
  BY <1>3, <1>5, <1>10, <1>11, <1>12, <1>14

\* Two iterations agree on a set when their values do.
LEMMA SumsAgree ==
    ASSUME NEW S, IsFiniteSet(S), NEW w, NEW v, \A x \in S : w[x] = v[x],
           NEW T, NEW R, S \subseteq T, S \subseteq R,
           NEW f, NEW g, Sums(f, w, T), Sums(g, v, R)
    PROVE  f[S] = g[S]
<1> DEFINE B == {z \in SUBSET S : f[z] # g[z]}
<1> SUFFICES ASSUME B # {} PROVE FALSE
  OBVIOUS
<1>1. PICK z \in B : \A r \in SUBSET S : Cardinality(r) < Cardinality(z) => r \notin B
  <2>1. B \in SUBSET (SUBSET S)
    OBVIOUS
  <2> HIDE DEF B
  <2> QED
    BY <2>1, SmallestSubset
<1>2. z \in SUBSET S /\ f[z] # g[z]
  OBVIOUS
<1>3. /\ f[z] = IF z = {} THEN 0 ELSE w[Chosen(z)] + f[z \ {Chosen(z)}]
      /\ g[z] = IF z = {} THEN 0 ELSE v[Chosen(z)] + g[z \ {Chosen(z)}]
  <2>1. z \in SUBSET T /\ z \in SUBSET R
    BY <1>2
  <2>2. f[z] = IF z = {} THEN 0 ELSE w[Chosen(z)] + f[z \ {Chosen(z)}]
    BY <2>1, SumsUnfold
  <2>3. g[z] = IF z = {} THEN 0 ELSE v[Chosen(z)] + g[z \ {Chosen(z)}]
    BY <2>1 DEF Sums
  <2> QED
    BY <2>2, <2>3
<1>4. z # {}
  BY <1>2, <1>3
<1>5. Chosen(z) \in z /\ w[Chosen(z)] = v[Chosen(z)]
  BY <1>2, <1>4, ChosenIsIn
<1>6. z \ {Chosen(z)} \in SUBSET S /\ Cardinality(z \ {Chosen(z)}) < Cardinality(z)
  BY <1>2, <1>5, OneLess
<1>7. f[z \ {Chosen(z)}] = g[z \ {Chosen(z)}]
  BY <1>1, <1>6
<1> QED
  BY <1>2, <1>3, <1>4, <1>5, <1>7

\* A sum over a finite set is the value of any iteration that reaches it.
LEMMA TotalIs ==
    ASSUME NEW S, IsFiniteSet(S), NEW w, NEW T, S \subseteq T, NEW f, Sums(f, w, T)
    PROVE  Total(w, S) = f[S]
<1>1. Sums(CHOOSE g : Sums(g, w, S), w, S)
  BY SumsExist
<1>2. ASSUME NEW g, Sums(g, w, S) PROVE g[S] = f[S]
  <2> DEFINE v == w
  <2>1. (\A x \in S : w[x] = v[x]) /\ S \subseteq S /\ Sums(f, v, T)
    OBVIOUS
  <2> HIDE DEF v
  <2> QED
    BY <1>2, <2>1, SumsAgree
<1> QED
  BY <1>1, <1>2 DEF Total

\* The laws of sums: nothing is zero,
LEMMA TotalOfNothing == ASSUME NEW w PROVE Total(w, {}) = 0
<1>1. IsFiniteSet({})
  BY FS_EmptySet
<1>2. PICK f : Sums(f, w, {})
  BY <1>1, SumsExist
<1>3. f[{}] = 0
  BY <1>2, SumsUnfold
<1> QED
  BY <1>1, <1>2, <1>3, TotalIs

\* a sum of integers is an integer,
LEMMA TotalType ==
    ASSUME NEW W, NEW w \in [W -> Int], NEW S \in SUBSET W, IsFiniteSet(S)
    PROVE  Total(w, S) \in Int
<1>1. PICK f : Sums(f, w, S)
  BY SumsExist
<1>2. f[S] \in Int
  BY <1>1, SumsAreIntegers
<1> QED
  BY <1>1, <1>2, TotalIs

\* a new element adds its value,
LEMMA TotalWithOneMore ==
    ASSUME NEW W, NEW w \in [W -> Int], NEW S \in SUBSET W, IsFiniteSet(S), NEW x \in W, x \notin S
    PROVE  Total(w, S \cup {x}) = Total(w, S) + w[x]
<1> DEFINE T == S \cup {x}
<1>1. IsFiniteSet(T) /\ T \in SUBSET W /\ x \in T /\ T \ {x} = S /\ S \subseteq T
  BY FS_AddElement
<1> HIDE DEF T
<1>2. PICK f : Sums(f, w, T)
  BY <1>1, SumsExist
<1>3. f[T] = w[x] + f[S]
  <2>1. T \in SUBSET T
    OBVIOUS
  <2>2. f[T] = w[x] + f[T \ {x}]
    BY <1>1, <1>2, <2>1, AnyElementFirst
  <2> QED
    BY <1>1, <2>2
<1>4. Total(w, T) = f[T] /\ Total(w, S) = f[S]
  BY <1>1, <1>2, TotalIs
<1>5. w[x] \in Int /\ Total(w, S) \in Int
  BY TotalType
<1> QED
  BY <1>3, <1>4, <1>5 DEF T

\* an element taken away takes its value,
LEMMA TotalWithOneLess ==
    ASSUME NEW W, NEW w \in [W -> Int], NEW S \in SUBSET W, IsFiniteSet(S), NEW x \in S
    PROVE  Total(w, S) = Total(w, S \ {x}) + w[x]
<1>1. IsFiniteSet(S \ {x}) /\ S \ {x} \in SUBSET W /\ x \notin S \ {x} /\ (S \ {x}) \cup {x} = S
  BY FS_RemoveElement
<1> QED
  BY <1>1, TotalWithOneMore

\* and what the function is elsewhere does not matter.
LEMMA TotalAgrees ==
    ASSUME NEW S, IsFiniteSet(S), NEW w, NEW v, \A x \in S : w[x] = v[x]
    PROVE  Total(w, S) = Total(v, S)
<1>1. PICK f : Sums(f, w, S)
  BY SumsExist
<1>2. PICK g : Sums(g, v, S)
  BY SumsExist
<1>3. f[S] = g[S]
  BY <1>1, <1>2, SumsAgree
<1> QED
  BY <1>1, <1>2, <1>3, TotalIs

\* A sum of values that are not negative is not negative,
LEMMA TotalIsNotNegative ==
    ASSUME NEW W, NEW w \in [W -> Int], IsFiniteSet(W), \A x \in W : w[x] >= 0
    PROVE  Total(w, W) >= 0
<1> DEFINE B == {z \in SUBSET W : ~ (Total(w, z) >= 0)}
<1> SUFFICES ASSUME B # {} PROVE FALSE
  OBVIOUS
<1>1. PICK z \in B : \A r \in SUBSET W : Cardinality(r) < Cardinality(z) => r \notin B
  <2>1. B \in SUBSET (SUBSET W)
    OBVIOUS
  <2> HIDE DEF B
  <2> QED
    BY <2>1, SmallestSubset
<1>2. z \in SUBSET W /\ ~ (Total(w, z) >= 0)
  OBVIOUS
<1>3. z # {}
  BY <1>2, TotalOfNothing
<1>4. PICK x \in z : TRUE
  BY <1>3
<1>5. IsFiniteSet(z)
  BY <1>2, FS_Subset
<1>6. Total(w, z) = Total(w, z \ {x}) + w[x]
  BY <1>2, <1>4, <1>5, TotalWithOneLess
<1>7. z \ {x} \in SUBSET W /\ Cardinality(z \ {x}) < Cardinality(z)
  BY <1>2, <1>4, OneLess
<1>8. Total(w, z \ {x}) >= 0
  BY <1>1, <1>7
<1>9. w[x] \in Int /\ w[x] >= 0 /\ Total(w, z \ {x}) \in Int
  BY <1>2, <1>4, <1>5, <1>7, FS_RemoveElement, TotalType
<1> QED
  BY <1>2, <1>6, <1>8, <1>9

\* and a sum of zeros is zero.
LEMMA TotalOfZeros ==
    ASSUME NEW W, NEW w \in [W -> Int], IsFiniteSet(W), \A x \in W : w[x] = 0
    PROVE  Total(w, W) = 0
<1> DEFINE B == {z \in SUBSET W : Total(w, z) # 0}
<1> SUFFICES ASSUME B # {} PROVE FALSE
  OBVIOUS
<1>1. PICK z \in B : \A r \in SUBSET W : Cardinality(r) < Cardinality(z) => r \notin B
  <2>1. B \in SUBSET (SUBSET W)
    OBVIOUS
  <2> HIDE DEF B
  <2> QED
    BY <2>1, SmallestSubset
<1>2. z \in SUBSET W /\ Total(w, z) # 0
  OBVIOUS
<1>3. z # {}
  BY <1>2, TotalOfNothing
<1>4. PICK x \in z : TRUE
  BY <1>3
<1>5. IsFiniteSet(z)
  BY <1>2, FS_Subset
<1>6. Total(w, z) = Total(w, z \ {x}) + w[x]
  BY <1>2, <1>4, <1>5, TotalWithOneLess
<1>7. z \ {x} \in SUBSET W /\ Cardinality(z \ {x}) < Cardinality(z)
  BY <1>2, <1>4, OneLess
<1>8. Total(w, z \ {x}) = 0 /\ w[x] = 0
  BY <1>1, <1>2, <1>4, <1>7
<1> QED
  BY <1>2, <1>6, <1>8

-----------------------------------------------------------------------------
(***************************************************************************)
(* PrizesAreSpunFor, with any number of requests under way and any number  *)
(* of administrators: what has been paid out as rows and what is on its    *)
(* way (the spins that are saved and whose row is not) together never      *)
(* exceed the prizes of the spins.  A decision cannot touch a prize: its   *)
(* id names a withdrawal.                                                  *)
(***************************************************************************)
RowAmounts == [t \in WalletTransaction |-> t.amount]

\* Amounts of rows are whole numbers.
LEMMA RowAmountsAreIntegers == RowAmounts \in [WalletTransaction -> Int]
  BY DEF RowAmounts, WalletTransaction

\* The library's sum of the amounts of rows is their Total.
LEMMA SumOfAmounts ==
    ASSUME NEW S \in SUBSET WalletTransaction, IsFiniteSet(S)
    PROVE  MapThenSumSet(LAMBDA t : t.amount, S) = Total(RowAmounts, S)
<1> DEFINE Iteration(g) ==
            g = [s \in SUBSET S |->
                    IF s = {} THEN 0
                    ELSE (CHOOSE x \in s : TRUE).amount + g[s \ {CHOOSE x \in s : TRUE}]]
           h == CHOOSE g : Iteration(g)
<1>1. ASSUME NEW g PROVE Sums(g, RowAmounts, S) <=> Iteration(g)
  <2>1. \A s \in SUBSET S : s # {} => RowAmounts[Chosen(s)] = (CHOOSE x \in s : TRUE).amount
    BY ChosenIsIn DEF RowAmounts, Chosen
  <2>2. \A s \in SUBSET S :
            (IF s = {} THEN 0 ELSE RowAmounts[Chosen(s)] + g[s \ {Chosen(s)}])
              = (IF s = {} THEN 0
                 ELSE (CHOOSE x \in s : TRUE).amount + g[s \ {CHOOSE x \in s : TRUE}])
    BY <2>1 DEF Chosen
  <2> QED
    BY <2>2 DEF Sums
<1>2. \E g : Iteration(g)
  <2>1. PICK g : Sums(g, RowAmounts, S)
    BY SumsExist
  <2>2. Iteration(g)
    BY <1>1, <2>1
  <2> HIDE DEF Iteration
  <2> QED
    BY <2>2
<1>3. Iteration(h)
  <2> HIDE DEF Iteration
  <2> QED
    BY <1>2
<1>4. Sums(h, RowAmounts, S)
  BY <1>1, <1>3
<1>5. MapThenSumSet(LAMBDA t : t.amount, S) = h[S]
  BY DEF MapThenSumSet, MapThenFoldSet
<1> HIDE DEF h
<1> QED
  BY <1>4, <1>5, TotalIs

PrizeRows(u) == {t \in rows : t.user = u /\ t.type = "wheel_spin"}

\* What the spins of a user that are saved have not posted yet.
Owed(u) ==
    [s \in Slots |->
        IF request[u][s].at \in {"pay", "saveRow"} THEN request[u][s].amount ELSE 0]

DecisionsNameWithdrawals ==
    \A a \in Admins : decision[a].at # "idle" =>
        \E t \in rows : t.id = decision[a].row.id /\ t.type = "withdraw"

PaidAndOwed(u) == Total(RowAmounts, PrizeRows(u)) + Total(Owed(u), Slots)

PrizeInv ==
    /\ TypeOK
    /\ IdsNameRows
    /\ DecisionsNameWithdrawals
    /\ \A u \in Users : IsFiniteSet(PrizeRows(u)) /\ PaidAndOwed(u) <= won[u]

\* The two sums are whole numbers.
LEMMA PrizeTypes ==
    ASSUME TypeOK, NEW u \in Users, IsFiniteSet(PrizeRows(u))
    PROVE  /\ PrizeRows(u) \in SUBSET WalletTransaction
           /\ Total(RowAmounts, PrizeRows(u)) \in Int
           /\ Owed(u) \in [Slots -> Int] /\ Total(Owed(u), Slots) \in Int
           /\ \A s \in Slots : Owed(u)[s] >= 0
<1>1. PrizeRows(u) \in SUBSET WalletTransaction
  BY DEF TypeOK, PrizeRows
<1>2. Owed(u) \in [Slots -> Int] /\ \A s \in Slots : Owed(u)[s] >= 0
  <2>1. \A s \in Slots : request[u][s].amount \in Nat
    BY DEF TypeOK, Request
  <2> QED
    BY <2>1 DEF Owed
<1>3. Total(RowAmounts, PrizeRows(u)) \in Int
  BY <1>1, RowAmountsAreIntegers, TotalType
<1>4. Slots \in SUBSET Slots
  OBVIOUS
<1>5. Total(Owed(u), Slots) \in Int
  BY <1>2, <1>4, SlotsAssumption, TotalType
<1> QED
  BY <1>1, <1>2, <1>3, <1>5

\* A request that moves changes what is owed by what it owes before and after.
LEMMA OwedMoves ==
    ASSUME TypeOK, TypeOK', NEW u \in Users, NEW s \in Slots,
           NEW step, NEW seen, NEW amount \in Nat, Become(u, s, step, seen, amount)
    PROVE  /\ \A v \in Users : v # u => Owed(v)' = Owed(v)
           /\ Total(Owed(u)', Slots)
                = Total(Owed(u), Slots) - Owed(u)[s]
                    + (IF step \in {"pay", "saveRow"} THEN amount ELSE 0)
<1> DEFINE rest == Slots \ {s}
           new == Owed(u)'
           old == Owed(u)
<1>1. \A v \in Users : v # u => request'[v] = request[v]
  BY DEF TypeOK, Become
<1>2. \A z \in Slots : request'[u][z] = IF z = s THEN [at |-> step, seen |-> seen, amount |-> amount]
                                         ELSE request[u][z]
  BY DEF TypeOK, Become
<1>3. /\ \A z \in rest : old[z] = new[z]
      /\ new[s] = IF step \in {"pay", "saveRow"} THEN amount ELSE 0
  BY <1>2 DEF Owed
<1>4. old \in [Slots -> Int] /\ new \in [Slots -> Int]
  <2>1. \A z \in Slots : request[u][z].amount \in Nat /\ request'[u][z].amount \in Nat
    BY DEF TypeOK, Request
  <2> QED
    BY <2>1 DEF Owed
<1>5. \A v \in Users : v # u => Owed(v)' = Owed(v)
  BY <1>1 DEF Owed
<1> HIDE DEF old, new
<1>6. Slots \in SUBSET Slots /\ rest \in SUBSET Slots /\ IsFiniteSet(rest)
  BY SlotsAssumption, FS_RemoveElement
<1>7. Total(old, Slots) = Total(old, rest) + old[s]
  BY <1>4, <1>6, SlotsAssumption, TotalWithOneLess
<1>8. Total(new, Slots) = Total(new, rest) + new[s]
  BY <1>4, <1>6, SlotsAssumption, TotalWithOneLess
<1>9. Total(old, rest) = Total(new, rest)
  BY <1>3, <1>6, TotalAgrees
<1>10. Total(old, rest) \in Int /\ old[s] \in Int /\ new[s] \in Int
  BY <1>4, <1>6, TotalType
<1>11. Total(new, Slots) = Total(old, Slots) - old[s] + new[s]
  BY <1>7, <1>8, <1>9, <1>10
<1> QED
  BY <1>3, <1>5, <1>11 DEF old, new

\* A new row: a prize only if it says so.
LEMMA InsertedPrize ==
    ASSUME PrizeInv, NEW id \in NextIds, NEW u, NEW amount, NEW type, NEW status,
           InsertRow(id, u, amount, type, status), UNCHANGED decision
    PROVE  /\ IdsNameRows' /\ DecisionsNameWithdrawals'
           /\ \A v \in Users : v # u \/ type # "wheel_spin" => PrizeRows(v)' = PrizeRows(v)
           /\ type = "wheel_spin" =>
                PrizeRows(u)' = PrizeRows(u) \cup {Row(id, u, amount, type, status)}
           /\ Row(id, u, amount, type, status) \notin rows
<1> DEFINE t == Row(id, u, amount, type, status)
<1>1. t.id = id /\ t.user = u /\ t.type = type /\ t.amount = amount
  BY DEF Row
<1>2. rows' = rows \cup {t} /\ \A v \in rows : v.id # id
  BY DEF InsertRow, Row, NextIds, Unused
<1> HIDE DEF t
<1>3. IdsNameRows'
  BY <1>1, <1>2 DEF PrizeInv, IdsNameRows
<1>4. DecisionsNameWithdrawals'
  BY <1>2 DEF PrizeInv, DecisionsNameWithdrawals
<1> QED
  BY <1>1, <1>2, <1>3, <1>4 DEF PrizeRows, t

\* A decision leaves the prizes alone.
LEMMA DecisionKeepsPrizes ==
    ASSUME PrizeInv, NEW a \in Admins, decision[a].at # "idle", NEW status,
           SetStatus(decision[a].row.id, status), Decided(a)
    PROVE  /\ IdsNameRows' /\ DecisionsNameWithdrawals'
           /\ \A v \in Users : PrizeRows(v)' = PrizeRows(v)
<1>1. PICK t \in rows : t.id = decision[a].row.id /\ t.type = "withdraw"
  BY DEF PrizeInv, DecisionsNameWithdrawals
<1> DEFINE new == [t EXCEPT !.status = status]
<1>2. rows' = (rows \ {t}) \cup {new}
  BY <1>1 DEF SetStatus, PrizeInv, IdsNameRows
<1>3. new.id = t.id /\ new.type = "withdraw"
  BY <1>1 DEF PrizeInv, TypeOK, WalletTransaction
<1> HIDE DEF new
<1>4. IdsNameRows'
  BY <1>1, <1>2, <1>3 DEF PrizeInv, IdsNameRows
<1>5. ASSUME NEW b \in Admins, decision'[b].at # "idle"
      PROVE  \E v \in rows' : v.id = decision'[b].row.id /\ v.type = "withdraw"
  <2>1. decision'[b] = decision[b]
    BY <1>5 DEF Decided, Undecided, PrizeInv, TypeOK
  <2>2. PICK v \in rows : v.id = decision[b].row.id /\ v.type = "withdraw"
    BY <1>5, <2>1 DEF PrizeInv, DecisionsNameWithdrawals
  <2>3. v \in rows' \/ v = t
    BY <1>2
  <2> QED
    BY <1>2, <1>3, <2>1, <2>2, <2>3
<1>6. DecisionsNameWithdrawals'
  BY <1>5 DEF DecisionsNameWithdrawals
<1> QED
  BY <1>1, <1>2, <1>3, <1>4, <1>6 DEF PrizeRows

\* A step that keeps the prizes that are paid, owes no more and takes no spin
\* back.
LEMMA NothingNewIsPaid ==
    ASSUME PrizeInv, TypeOK', IdsNameRows', DecisionsNameWithdrawals',
           \A v \in Users : PrizeRows(v)' = PrizeRows(v),
           \A v \in Users : Total(Owed(v)', Slots) - Total(Owed(v), Slots) <= won'[v] - won[v]
    PROVE  PrizeInv'
<1>1. ASSUME NEW v \in Users PROVE IsFiniteSet(PrizeRows(v)') /\ PaidAndOwed(v)' <= won'[v]
  <2>1. IsFiniteSet(PrizeRows(v)) /\ PaidAndOwed(v) <= won[v] /\ IsFiniteSet(PrizeRows(v)')
    BY DEF PrizeInv
  <2>2. Total(RowAmounts, PrizeRows(v)) \in Int /\ Total(Owed(v), Slots) \in Int
    BY <2>1, PrizeTypes DEF PrizeInv
  <2>3. Total(Owed(v)', Slots) \in Int
    <3>1. \A z \in Slots : request'[v][z].amount \in Nat
      BY DEF TypeOK, Request
    <3>2. Owed(v)' \in [Slots -> Int] /\ Slots \in SUBSET Slots
      BY <3>1 DEF Owed
    <3> QED
      BY <3>2, SlotsAssumption, TotalType
  <2>4. won[v] \in Int /\ won'[v] \in Int
    BY DEF PrizeInv, TypeOK
  <2>5. PaidAndOwed(v)' = Total(RowAmounts, PrizeRows(v)) + Total(Owed(v)', Slots)
    BY DEF PaidAndOwed
  <2> QED
    BY <2>1, <2>2, <2>3, <2>4, <2>5 DEF PaidAndOwed
<1> QED
  BY <1>1 DEF PrizeInv

\* So does a step that lets one request go on without owing more.
LEMMA OwesNoMore ==
    ASSUME PrizeInv, TypeOK', IdsNameRows', DecisionsNameWithdrawals',
           \A v \in Users : PrizeRows(v)' = PrizeRows(v),
           NEW u \in Users, NEW s \in Slots, NEW step, NEW seen, NEW amount \in Nat,
           Become(u, s, step, seen, amount),
           \A v \in Users : v # u => won'[v] = won[v],
           (IF step \in {"pay", "saveRow"} THEN amount ELSE 0) - Owed(u)[s] <= won'[u] - won[u]
    PROVE  PrizeInv'
<1>1. ASSUME NEW v \in Users
      PROVE  Total(Owed(v)', Slots) - Total(Owed(v), Slots) <= won'[v] - won[v]
  <2>1. Total(Owed(v), Slots) \in Int /\ Owed(v)[s] \in Int /\ won[v] \in Int /\ won'[v] \in Int
    BY PrizeTypes DEF PrizeInv, TypeOK
  <2>2. CASE v # u
    <3>1. Owed(v)' = Owed(v)
      BY <2>2, OwedMoves DEF PrizeInv
    <3> QED
      BY <2>1, <2>2, <3>1
  <2>3. CASE v = u
    <3>1. Total(Owed(u)', Slots)
            = Total(Owed(u), Slots) - Owed(u)[s] + (IF step \in {"pay", "saveRow"} THEN amount ELSE 0)
      BY OwedMoves DEF PrizeInv
    <3> QED
      BY <2>1, <2>3, <3>1
  <2> QED
    BY <2>2, <2>3
<1> QED
  BY <1>1, NothingNewIsPaid

\* One step of any service.
LEMMA PrizeStep ==
    ASSUME PrizeInv, TypeOK', Next
    PROVE  PrizeInv'
<1>0. /\ \A v \in Users, z \in Slots : request[v][z].amount \in Nat /\ request[v][z].seen \in Int
      /\ \A v \in Users : won[v] \in Nat /\ won'[v] \in Nat
      /\ TypeOK
  BY DEF PrizeInv, TypeOK, Request
<1>a. ASSUME UNCHANGED <<request, won>>
      PROVE  \A v \in Users : Total(Owed(v)', Slots) - Total(Owed(v), Slots) <= won'[v] - won[v]
  <2>1. \A v \in Users : Owed(v)' = Owed(v)
    BY <1>a DEF Owed
  <2>2. \A v \in Users : Total(Owed(v), Slots) \in Int
    BY PrizeTypes DEF PrizeInv
  <2> QED
    BY <1>0, <1>a, <2>1, <2>2
<1>b. ASSUME UNCHANGED <<rows, decision>>
      PROVE  /\ IdsNameRows' /\ DecisionsNameWithdrawals'
             /\ \A v \in Users : PrizeRows(v)' = PrizeRows(v)
  BY <1>b DEF PrizeInv, IdsNameRows, DecisionsNameWithdrawals, PrizeRows
<1>c. \A v \in Users, z \in Slots :
        /\ Owed(v)[z] >= 0 /\ Owed(v)[z] \in Int
        /\ Owed(v)[z] = IF request[v][z].at \in {"pay", "saveRow"} THEN request[v][z].amount ELSE 0
  BY <1>0 DEF Owed
<1>1. ASSUME NEW u \in Users, chargeWallet(u) \/ processCardPurchases(u) PROVE PrizeInv'
  <2>1. PICK id \in NextIds, amount \in Amounts, type \in {"charge", "card_purchase"} :
            InsertRow(id, u, amount, type, "confirmed")
    BY <1>1 DEF chargeWallet, processCardPurchases
  <2>2. UNCHANGED <<request, won, decision>>
    BY <1>1 DEF chargeWallet, processCardPurchases
  <2>3. /\ IdsNameRows' /\ DecisionsNameWithdrawals'
        /\ \A v \in Users : PrizeRows(v)' = PrizeRows(v)
    BY <2>1, <2>2, InsertedPrize
  <2> QED
    BY <1>a, <2>2, <2>3, NothingNewIsPaid
<1>2. ASSUME NEW u \in Users, NEW s \in Slots, CheckBalance(u, s) PROVE PrizeInv'
  <2>1. PICK amount \in Amounts : Become(u, s, "withdraw", 0, amount)
    BY <1>2 DEF CheckBalance
  <2>2. UNCHANGED <<rows, decision, won>> /\ Owed(u)[s] = 0 /\ amount \in Nat
    BY <1>2, <1>c, PositiveAmounts DEF CheckBalance, At
  <2> QED
    BY <1>0, <1>b, <2>1, <2>2, OwesNoMore
<1>3. ASSUME NEW u \in Users, NEW s \in Slots, CommitWithdraw(u, s) PROVE PrizeInv'
  <2>1. PICK id \in NextIds : InsertRow(id, u, -request[u][s].amount, "withdraw", "pending")
    BY <1>3 DEF CommitWithdraw
  <2>2. UNCHANGED <<decision, won>> /\ Become(u, s, "idle", 0, 0) /\ Owed(u)[s] >= 0
    BY <1>3, <1>c DEF CommitWithdraw, Finish
  <2>3. /\ IdsNameRows' /\ DecisionsNameWithdrawals'
        /\ \A v \in Users : PrizeRows(v)' = PrizeRows(v)
    BY <2>1, <2>2, InsertedPrize
  <2> QED
    BY <1>0, <1>c, <2>2, <2>3, OwesNoMore
<1>4. ASSUME NEW u \in Users, NEW s \in Slots, RequestFails(u, s) PROVE PrizeInv'
  <2>1. UNCHANGED <<rows, decision, won>> /\ Become(u, s, "idle", 0, 0) /\ Owed(u)[s] >= 0
    BY <1>4, <1>c DEF RequestFails, Finish
  <2> QED
    BY <1>0, <1>b, <1>c, <2>1, OwesNoMore
<1>5. ASSUME NEW u \in Users, NEW s \in Slots, spinWheel(u, s) PROVE PrizeInv'
  <2>1. CASE ReadUser(u, s)
    <3>1. /\ UNCHANGED <<rows, decision, won>> /\ Become(u, s, "canSpin", balance[u], 0)
          /\ Owed(u)[s] >= 0
      BY <1>c, <2>1 DEF ReadUser
    <3> QED
      BY <1>0, <1>b, <1>c, <3>1, OwesNoMore
  <2>2. CASE canSpin(u, s)
    <3>1. UNCHANGED <<rows, decision, won>> /\ Owed(u)[s] >= 0
      BY <1>c, <2>2 DEF canSpin
    <3>2. PICK step \in {"idle", "saveSpin"}, seen \in Int, amount \in Nat :
              Become(u, s, step, seen, amount)
      BY <1>0, <2>2, PrizesAssumption DEF canSpin, Finish
    <3> QED
      BY <1>0, <1>b, <1>c, <3>1, <3>2, OwesNoMore
  <2>3. CASE SaveSpin(u, s)
    <3>1. /\ UNCHANGED <<rows, decision>> /\ Owed(u)[s] = 0
          /\ \A v \in Users : won'[v] = IF v = u THEN won[v] + request[u][s].amount ELSE won[v]
      BY <1>0, <1>c, <2>3 DEF SaveSpin, At, TypeOK
    <3>2. CASE Finish(u, s)
      BY <1>0, <1>b, <3>1, <3>2, OwesNoMore DEF Finish
    <3>3. CASE Go(u, s, "pay")
      BY <1>0, <1>b, <3>1, <3>3, OwesNoMore DEF Go
    <3> QED
      BY <2>3, <3>2, <3>3 DEF SaveSpin
  <2>4. CASE PayPrize(u, s)
    <3>1. /\ UNCHANGED <<rows, decision, won>> /\ Owed(u)[s] = request[u][s].amount
          /\ Become(u, s, "saveRow", request[u][s].seen, request[u][s].amount)
      BY <1>c, <2>4 DEF PayPrize, At, Go
    <3> QED
      BY <1>0, <1>b, <3>1, OwesNoMore
  <2>5. CASE SavePrizeRow(u, s)
    <3> DEFINE amount == request[u][s].amount
    <3>1. PICK id \in NextIds : InsertRow(id, u, amount, "wheel_spin", "confirmed")
      BY <2>5 DEF SavePrizeRow
    <3> DEFINE t == Row(id, u, amount, "wheel_spin", "confirmed")
    <3>2. UNCHANGED <<decision, won>> /\ Become(u, s, "idle", 0, 0) /\ Owed(u)[s] = amount
      BY <1>c, <2>5 DEF SavePrizeRow, At, Finish
    <3>3. /\ IdsNameRows' /\ DecisionsNameWithdrawals'
          /\ \A v \in Users : v # u => PrizeRows(v)' = PrizeRows(v)
          /\ PrizeRows(u)' = PrizeRows(u) \cup {t} /\ t \notin rows
      BY <3>1, <3>2, InsertedPrize
    <3>4. ASSUME NEW v \in Users, v # u
          PROVE  IsFiniteSet(PrizeRows(v)') /\ PaidAndOwed(v)' <= won'[v]
      <4>1. Owed(v)' = Owed(v)
        BY <1>0, <3>2, <3>4, OwedMoves
      <4>2. PaidAndOwed(v)' = PaidAndOwed(v)
        BY <3>3, <3>4, <4>1 DEF PaidAndOwed
      <4> QED
        BY <3>2, <3>3, <3>4, <4>2 DEF PrizeInv
    <3>5. IsFiniteSet(PrizeRows(u)') /\ PaidAndOwed(u)' <= won'[u]
      <4>1. IsFiniteSet(PrizeRows(u)) /\ PaidAndOwed(u) <= won[u]
        BY DEF PrizeInv
      <4>2. /\ PrizeRows(u) \in SUBSET WalletTransaction
            /\ Total(RowAmounts, PrizeRows(u)) \in Int /\ Total(Owed(u), Slots) \in Int
        BY <1>0, <4>1, PrizeTypes
      <4>3. t \in WalletTransaction /\ RowAmounts[t] = amount /\ t \notin PrizeRows(u)
        <5>1. id \in Ids
          BY DEF NextIds, Unused
        <5>2. t \in WalletTransaction
          BY <1>0, <5>1 DEF Row, WalletTransaction, TransactionType, TransactionStatus
        <5> QED
          BY <3>3, <5>2 DEF RowAmounts, Row, PrizeRows
      <4> HIDE DEF t
      <4>4. Total(RowAmounts, PrizeRows(u) \cup {t}) = Total(RowAmounts, PrizeRows(u)) + amount
        BY <4>1, <4>2, <4>3, RowAmountsAreIntegers, TotalWithOneMore
      <4>5. IsFiniteSet(PrizeRows(u) \cup {t})
        BY <4>1, FS_AddElement
      <4>6. Total(Owed(u)', Slots) = Total(Owed(u), Slots) - amount
        <5>1. Total(Owed(u)', Slots) = Total(Owed(u), Slots) - Owed(u)[s] + 0
          BY <1>0, <3>2, OwedMoves
        <5> QED
          BY <1>0, <3>2, <4>2, <5>1
      <4>7. PaidAndOwed(u)' = Total(RowAmounts, PrizeRows(u)') + Total(Owed(u)', Slots)
        BY DEF PaidAndOwed
      <4>8. PaidAndOwed(u)' = PaidAndOwed(u)
        BY <1>0, <3>3, <4>2, <4>4, <4>6, <4>7 DEF PaidAndOwed
      <4> QED
        BY <3>2, <3>3, <4>1, <4>5, <4>8
    <3> HIDE DEF t
    <3> QED
      BY <3>3, <3>4, <3>5 DEF PrizeInv
  <2> QED
    BY <1>5, <2>1, <2>2, <2>3, <2>4, <2>5 DEF spinWheel
<1>6. ASSUME NEW a \in Admins, Settle(a) PROVE PrizeInv'
  <2>1. UNCHANGED <<request, won>>
    BY <1>6 DEF Settle, ReadWithdraw, confirmWithdraw, rejectWithdraw, DecisionFails
  <2>2. /\ IdsNameRows' /\ DecisionsNameWithdrawals'
        /\ \A v \in Users : PrizeRows(v)' = PrizeRows(v)
    <3>1. CASE ReadWithdraw(a)
      <4>1. PICK t \in rows, verdict \in {"confirmWithdraw", "rejectWithdraw"} :
                t.type = "withdraw" /\ decision' = [decision EXCEPT ![a] = [at |-> verdict, row |-> t]]
        BY <3>1 DEF ReadWithdraw
      <4>2. UNCHANGED rows
        BY <3>1 DEF ReadWithdraw
      <4>3. \A b \in Admins : decision'[b] = IF b = a THEN [at |-> verdict, row |-> t] ELSE decision[b]
        BY <1>0, <4>1 DEF TypeOK
      <4>4. DecisionsNameWithdrawals'
        BY <4>1, <4>2, <4>3 DEF PrizeInv, DecisionsNameWithdrawals
      <4> QED
        BY <4>2, <4>4 DEF PrizeInv, IdsNameRows, PrizeRows
    <3>2. CASE confirmWithdraw(a) \/ rejectWithdraw(a)
      BY <3>2, DecisionKeepsPrizes DEF confirmWithdraw, rejectWithdraw
    <3>3. CASE DecisionFails(a)
      <4>1. UNCHANGED rows /\ \A b \in Admins : decision'[b].at # "idle" => decision'[b] = decision[b]
        BY <1>0, <3>3 DEF DecisionFails, Decided, Undecided, TypeOK
      <4>2. DecisionsNameWithdrawals'
        BY <4>1 DEF PrizeInv, DecisionsNameWithdrawals
      <4> QED
        BY <4>1, <4>2 DEF PrizeInv, IdsNameRows, PrizeRows
    <3> QED
      BY <1>6, <3>1, <3>2, <3>3 DEF Settle
  <2> QED
    BY <1>a, <2>1, <2>2, NothingNewIsPaid
<1>7. CASE DayPasses
  <2>1. UNCHANGED <<rows, decision, request, won>>
    BY <1>7 DEF DayPasses
  <2> QED
    BY <1>a, <1>b, <2>1, NothingNewIsPaid
<1>8. ASSUME NEW u \in Users, NEW s \in Slots, updateProfile(u, s) PROVE PrizeInv'
  <2>1. UNCHANGED <<rows, decision, won>> /\ Owed(u)[s] >= 0
    BY <1>8, <1>c DEF updateProfile, ReadProfile, LoadProfile, UpdateProfile
  <2>2. PICK step \in {"idle", "load", "update"}, seen \in Int, amount \in Nat :
            Become(u, s, step, seen, amount)
    <3>1. balance[u] \in Int
      BY <1>0 DEF TypeOK
    <3> QED
      BY <1>0, <1>8, <3>1 DEF updateProfile, ReadProfile, LoadProfile, UpdateProfile, Finish, Go
  <2> QED
    BY <1>0, <1>b, <1>c, <2>1, <2>2, OwesNoMore
<1>9. ASSUME NEW u \in Users, NEW s \in Slots, giveReferralReward(u, s) PROVE PrizeInv'
  <2>1. UNCHANGED <<decision, won>> /\ Owed(u)[s] >= 0
    BY <1>9, <1>c DEF giveReferralReward, FindReferrer, Credit, SaveBonus
  <2>2. PICK step \in {"idle", "credit", "saveBonus"}, seen \in Int, amount \in Nat :
            Become(u, s, step, seen, amount)
    <3>1. CASE FindReferrer(u, s)
      <4>1. balance[u] \in Int
        BY <1>0 DEF TypeOK
      <4> QED
        BY <3>1, <4>1, RewardsAssumption DEF FindReferrer
    <3>2. CASE Credit(u, s)
      BY <1>0, <3>2 DEF Credit, Finish, Go
    <3>3. CASE SaveBonus(u, s)
      BY <3>3 DEF SaveBonus, Finish
    <3> QED
      BY <1>9, <3>1, <3>2, <3>3 DEF giveReferralReward
  <2>3. CASE UNCHANGED rows
    BY <1>0, <1>b, <1>c, <2>1, <2>2, <2>3, OwesNoMore
  <2>4. CASE SaveBonus(u, s)
    <3>1. PICK id \in NextIds :
              InsertRow(id, u, request[u][s].amount, "referral_bonus", "confirmed")
      BY <2>4 DEF SaveBonus
    <3>2. /\ IdsNameRows' /\ DecisionsNameWithdrawals'
          /\ \A v \in Users : PrizeRows(v)' = PrizeRows(v)
      BY <2>1, <3>1, InsertedPrize
    <3> QED
      BY <1>0, <1>c, <2>1, <2>2, <3>2, OwesNoMore
  <2> QED
    BY <1>9, <2>3, <2>4 DEF giveReferralReward, FindReferrer, Credit
<1> QED
  BY <1>1, <1>2, <1>3, <1>4, <1>5, <1>6, <1>7, <1>8, <1>9, UsersAssumption
     DEF Next, withdrawWallet

\* The prizes in wallet_transactions are covered by spins, however many
\* requests and decisions run at a time and wherever a spin is cut off.
THEOREM PrizesSpunFor == Spec => []PrizesAreSpunFor
<1>1. Init => PrizeInv
  <2> SUFFICES ASSUME Init PROVE PrizeInv
    OBVIOUS
  <2>1. TypeOK
    BY DEF Init, TypeOK, Request, Undecided, Decision
  <2>2. ASSUME NEW u \in Users PROVE IsFiniteSet(PrizeRows(u)) /\ PaidAndOwed(u) <= won[u]
    <3>1. PrizeRows(u) = {} /\ won[u] = 0
      BY DEF Init, PrizeRows
    <3>2. Total(RowAmounts, PrizeRows(u)) = 0 /\ IsFiniteSet(PrizeRows(u))
      BY <3>1, TotalOfNothing, FS_EmptySet
    <3>3. \A s \in Slots : Owed(u)[s] = 0
      BY DEF Init, Owed
    <3> DEFINE owed == Owed(u)
    <3>4. owed \in [Slots -> Int]
      BY DEF Init, Owed
    <3> HIDE DEF owed
    <3>5. Total(owed, Slots) = 0
      BY <3>3, <3>4, SlotsAssumption, TotalOfZeros DEF owed
    <3> QED
      BY <3>1, <3>2, <3>5 DEF PaidAndOwed, owed
  <2> QED
    BY <2>1, <2>2 DEF Init, PrizeInv, IdsNameRows, DecisionsNameWithdrawals, Undecided
<1>2. PrizeInv /\ [Next]_vars => PrizeInv'
  <2> SUFFICES ASSUME PrizeInv, [Next]_vars PROVE PrizeInv'
    OBVIOUS
  <2>1. TypeOK'
    BY WalletTypeStep DEF PrizeInv
  <2>2. CASE Next
    BY <2>1, <2>2, PrizeStep
  <2>3. CASE UNCHANGED vars
    <3>1. \A u \in Users : PrizeRows(u)' = PrizeRows(u) /\ PaidAndOwed(u)' = PaidAndOwed(u)
      BY <2>3 DEF vars, PrizeRows, PaidAndOwed, Owed
    <3> QED
      BY <2>1, <2>3, <3>1 DEF vars, PrizeInv, IdsNameRows, DecisionsNameWithdrawals
  <2> QED
    BY <2>2, <2>3
<1>3. PrizeInv => PrizesAreSpunFor
  <2> SUFFICES ASSUME PrizeInv, NEW u \in Users
               PROVE  MapThenSumSet(LAMBDA t : t.amount, PrizeRows(u)) <= won[u]
    BY DEF PrizesAreSpunFor, PrizeRows
  <2>1. IsFiniteSet(PrizeRows(u)) /\ PaidAndOwed(u) <= won[u] /\ won[u] \in Nat
    BY DEF PrizeInv, TypeOK
  <2>2. /\ PrizeRows(u) \in SUBSET WalletTransaction
        /\ Total(RowAmounts, PrizeRows(u)) \in Int
        /\ Owed(u) \in [Slots -> Int] /\ Total(Owed(u), Slots) \in Int
        /\ \A s \in Slots : Owed(u)[s] >= 0
    BY <2>1, PrizeTypes DEF PrizeInv
  <2>3. Total(Owed(u), Slots) >= 0
    BY <2>2, SlotsAssumption, TotalIsNotNegative
  <2>4. MapThenSumSet(LAMBDA t : t.amount, PrizeRows(u)) = Total(RowAmounts, PrizeRows(u))
    BY <2>1, <2>2, SumOfAmounts
  <2> QED
    BY <2>1, <2>2, <2>3, <2>4 DEF PaidAndOwed
<1> QED
  BY <1>1, <1>2, <1>3, PTL DEF Spec

-----------------------------------------------------------------------------
(***************************************************************************)
(* SpinsFitRequests.  canSpin and SaveSpin are two calls, so the spins     *)
(* that have passed canSpin and are not saved yet count as well.           *)
(***************************************************************************)
Spinning(u) == {s \in Slots : At(u, s, "saveSpin")}

SpinInv ==
    /\ TypeOK
    /\ \A u \in Users : recent[u] + Cardinality(Spinning(u)) <= Cardinality(Slots)

\* The requests that are about to save a spin can be counted.
LEMMA SpinningIsFinite ==
    ASSUME NEW u \in Users
    PROVE  /\ IsFiniteSet(Spinning(u)) /\ Cardinality(Spinning(u)) \in Nat
           /\ Cardinality(Spinning(u)) <= Cardinality(Slots)
           /\ Cardinality(Slots) \in Nat
  BY SlotsAssumption, FS_Subset, FS_CardinalityType DEF Spinning

LEMMA SpinningIsFiniteThen ==
    ASSUME NEW u \in Users
    PROVE  /\ IsFiniteSet(Spinning(u)') /\ Cardinality(Spinning(u)') \in Nat
           /\ Cardinality(Spinning(u)') <= Cardinality(Slots)
  BY SlotsAssumption, FS_Subset, FS_CardinalityType DEF Spinning

\* A step that saves no spin and lets nobody pass canSpin.
LEMMA NoSpinPasses ==
    ASSUME SpinInv, TypeOK',
           \A u \in Users : recent'[u] <= recent[u] /\ Spinning(u)' \subseteq Spinning(u)
    PROVE  SpinInv'
<1>1. ASSUME NEW u \in Users
      PROVE  recent'[u] + Cardinality(Spinning(u)') <= Cardinality(Slots)
  <2>1. Cardinality(Spinning(u)') <= Cardinality(Spinning(u))
    BY SpinningIsFinite, FS_Subset
  <2>2. recent[u] \in Nat /\ recent'[u] \in Nat
    BY DEF SpinInv, TypeOK
  <2> QED
    BY <2>1, <2>2, SpinningIsFinite, SpinningIsFiniteThen DEF SpinInv
<1> QED
  BY <1>1 DEF SpinInv, Spinning, At

\* A request that moves anywhere but to the saving of a spin.
LEMMA MoveSpinsNobody ==
    ASSUME TypeOK, NEW u \in Users, NEW s \in Slots, NEW step, NEW seen, NEW amount,
           Become(u, s, step, seen, amount), step # "saveSpin", NEW v \in Users
    PROVE  Spinning(v)' \subseteq Spinning(v) /\ (v = u => s \notin Spinning(v)')
  BY DEF TypeOK, Become, Spinning, At

LEMMA MovesOfOthers ==
    ASSUME TypeOK, NEW u \in Users, NEW s \in Slots, NEW step, NEW seen, NEW amount,
           Become(u, s, step, seen, amount), NEW v \in Users, v # u
    PROVE  Spinning(v)' = Spinning(v)
  BY DEF TypeOK, Become, Spinning, At

\* One step of any service.
LEMMA SpinStep ==
    ASSUME SpinInv, TypeOK', Next
    PROVE  SpinInv'
<1>0. TypeOK /\ recent \in [Users -> Nat]
  BY DEF SpinInv, TypeOK
<1>1. CASE UNCHANGED <<request, recent>>
  <2>1. \A u \in Users : recent'[u] <= recent[u] /\ Spinning(u)' \subseteq Spinning(u)
    BY <1>0, <1>1 DEF Spinning, At
  <2> QED
    BY <2>1, NoSpinPasses
<1>2. ASSUME NEW u \in Users, NEW s \in Slots, NEW step, NEW seen, NEW amount,
             Become(u, s, step, seen, amount), step # "saveSpin", UNCHANGED recent
      PROVE  SpinInv'
  <2>1. \A v \in Users : recent'[v] <= recent[v] /\ Spinning(v)' \subseteq Spinning(v)
    BY <1>0, <1>2, MoveSpinsNobody
  <2> QED
    BY <2>1, NoSpinPasses
<1>3. ASSUME NEW u \in Users, NEW s \in Slots, NEW prize,
             recent[u] = 0, Become(u, s, "saveSpin", request[u][s].seen, prize),
             UNCHANGED recent
      PROVE  SpinInv'
  <2>1. ASSUME NEW v \in Users
        PROVE  recent'[v] + Cardinality(Spinning(v)') <= Cardinality(Slots)
    <3>1. CASE v = u
      BY <1>3, <3>1, SpinningIsFiniteThen
    <3>2. CASE v # u
      BY <1>0, <1>3, <3>2, MovesOfOthers DEF SpinInv
    <3> QED
      BY <3>1, <3>2
  <2> QED
    BY <2>1 DEF SpinInv, Spinning, At
<1>4. ASSUME NEW u \in Users, NEW s \in Slots, SaveSpin(u, s) PROVE SpinInv'
  <2>1. PICK step, seen, amount : Become(u, s, step, seen, amount) /\ step # "saveSpin"
    BY <1>4 DEF SaveSpin, Finish, Go
  <2>2. ASSUME NEW v \in Users
        PROVE  recent'[v] + Cardinality(Spinning(v)') <= Cardinality(Slots)
    <3>1. CASE v = u
      <4>1. s \in Spinning(u) /\ recent'[u] = recent[u] + 1
        BY <1>0, <1>4 DEF SaveSpin, Spinning
      <4>2. Spinning(u)' \subseteq Spinning(u) \ {s}
        BY <1>0, <2>1, MoveSpinsNobody
      <4>3. /\ IsFiniteSet(Spinning(u) \ {s})
            /\ Cardinality(Spinning(u) \ {s}) = Cardinality(Spinning(u)) - 1
        BY <4>1, SpinningIsFinite, FS_RemoveElement
      <4>4. Cardinality(Spinning(u)') <= Cardinality(Spinning(u)) - 1
        BY <4>2, <4>3, FS_Subset
      <4> QED
        BY <1>0, <3>1, <4>1, <4>4, SpinningIsFinite, SpinningIsFiniteThen DEF SpinInv
    <3>2. CASE v # u
      <4>1. recent'[v] = recent[v]
        BY <1>0, <1>4, <3>2 DEF SaveSpin
      <4> QED
        BY <1>0, <2>1, <3>2, <4>1, MovesOfOthers DEF SpinInv
    <3> QED
      BY <3>1, <3>2
  <2> QED
    BY <2>2 DEF SpinInv, Spinning, At
<1>5. CASE DayPasses
  <2>1. \A u \in Users : recent'[u] <= recent[u] /\ Spinning(u)' \subseteq Spinning(u)
    BY <1>0, <1>5 DEF DayPasses, Spinning, At
  <2> QED
    BY <2>1, NoSpinPasses
<1>6. ASSUME NEW u \in Users, NEW s \in Slots, withdrawWallet(u, s) \/ RequestFails(u, s)
      PROVE  SpinInv'
  BY <1>2, <1>6
     DEF withdrawWallet, CheckBalance, CommitWithdraw, RequestFails, Finish
<1>7. ASSUME NEW u \in Users, NEW s \in Slots, spinWheel(u, s) PROVE SpinInv'
  <2>1. CASE canSpin(u, s)
    BY <1>2, <1>3, <2>1 DEF canSpin, Finish
  <2>2. CASE ReadUser(u, s) \/ PayPrize(u, s) \/ SavePrizeRow(u, s)
    BY <1>2, <2>2 DEF ReadUser, PayPrize, SavePrizeRow, Go, Finish
  <2> QED
    BY <1>4, <1>7, <2>1, <2>2 DEF spinWheel
<1>8. ASSUME NEW u \in Users, chargeWallet(u) \/ processCardPurchases(u) PROVE SpinInv'
  BY <1>1, <1>8 DEF chargeWallet, processCardPurchases
<1>9. ASSUME NEW a \in Admins, Settle(a) PROVE SpinInv'
  BY <1>1, <1>9 DEF Settle, ReadWithdraw, confirmWithdraw, rejectWithdraw, DecisionFails
<1>10. ASSUME NEW u \in Users, NEW s \in Slots, updateProfile(u, s) PROVE SpinInv'
  BY <1>2, <1>10 DEF updateProfile, ReadProfile, LoadProfile, UpdateProfile, Finish, Go
<1>11. ASSUME NEW u \in Users, NEW s \in Slots, giveReferralReward(u, s) PROVE SpinInv'
  BY <1>2, <1>11 DEF giveReferralReward, FindReferrer, Credit, SaveBonus, Finish, Go
<1> QED
  BY <1>5, <1>6, <1>7, <1>8, <1>9, <1>10, <1>11, UsersAssumption DEF Next

LEMMA SpinInvariant == Spec => []SpinInv
<1>1. Init => SpinInv
  <2> SUFFICES ASSUME Init PROVE SpinInv
    OBVIOUS
  <2>1. TypeOK
    BY DEF Init, TypeOK, Request, Undecided, Decision
  <2>2. \A u \in Users : recent[u] = 0
    BY DEF Init
  <2> QED
    BY <2>1, <2>2, SpinningIsFinite DEF SpinInv
<1>2. SpinInv /\ [Next]_vars => SpinInv'
  <2> SUFFICES ASSUME SpinInv, [Next]_vars PROVE SpinInv'
    OBVIOUS
  <2>1. CASE Next
    BY <2>1, SpinStep, WalletTypeStep DEF SpinInv
  <2>2. CASE UNCHANGED vars
    BY <2>2 DEF vars, SpinInv, TypeOK, Spinning, At
  <2> QED
    BY <2>1, <2>2
<1> QED
  BY <1>1, <1>2, PTL DEF Spec

\* However many requests of a user run at once, the wheel saves no more spins
\* in twenty-four hours than that.
THEOREM SpinsFit == Spec => []SpinsFitRequests
<1>1. SpinInv => SpinsFitRequests
  <2> SUFFICES ASSUME SpinInv, NEW u \in Users PROVE recent[u] <= Cardinality(Slots)
    BY DEF SpinsFitRequests
  <2> QED
    BY SpinningIsFinite DEF SpinInv, TypeOK
<1> QED
  BY <1>1, SpinInvariant, PTL

=============================================================================
