CONSTANTS
    p1 = p1
    p2 = p2
    v1 = v1
    v2 = v2
    e1 = e1
    Phones = {p1, p2}
    Codes = {1, 2}
    Usernames = {1}
    Verifications = {v1, v2}
    Editors = {e1}
    Rewards = {1}
    MaxAttempts = 1
    MaxOtps = 2
SPECIFICATION Spec
INVARIANT TypeOK
INVARIANT TokensNeedAnOtp
INVARIANT OneBonusForEachReferral
INVARIANT EveryBonusIsCreditedOnce
SYMMETRY AccountsSymmetry
