CONSTANTS
    saver = saver
    player = player
    s1 = s1
    a1 = a1
    Users = {saver, player}
    Spinners = {player}
    Editors = {player}
    Referrers = {player}
    Slots = {s1}
    Admins = {a1}
    Amounts = {1}
    Prizes = {0, 1}
    Rewards = {1}
    BigintMax = 9
    Ids = {1, 2, 3}
    MaxDays = 1
SPECIFICATION Spec
INVARIANT TypeOK
INVARIANT WithdrawalsAreCovered
INVARIANT OldBalancesMakeNoMoney
INVARIANT PrizesAreSpunFor
PROPERTY ImplementsLedger
