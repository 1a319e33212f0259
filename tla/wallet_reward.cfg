CONSTANTS
    saver = saver
    player = player
    s1 = s1
    a1 = a1
    Users = {player}
    Spinners = {}
    Editors = {}
    Referrers = {player}
    Slots = {s1}
    Admins = {}
    Amounts = {1}
    Prizes = {0}
    Rewards = {1}
    BigintMax = 1000
    Ids = {1, 2}
    MaxDays = 0
SPECIFICATION Spec
INVARIANT RewardsAddUp
