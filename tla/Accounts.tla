-------------------------------- MODULE Accounts --------------------------------
(***************************************************************************)
(* Users and how they come to be: AuthService (OTP, registration, referral *)
(* codes and rewards), UsersService (profiles) and SettingsService.        *)
(*                                                                         *)
(* No handler here has a transaction, so every database call is a step and *)
(* any handlers interleave between two calls.  Codes and names are drawn   *)
(* from small sets, 0 standing for NULL; the OTP itself is left out: a     *)
(* verification names any row of its phone, or none.                       *)
(*                                                                         *)
(* users.walletBalance is in Wallet, with everything that writes it; here  *)
(* is who is rewarded, for whom and how often, and who is named how.       *)
(*                                                                         *)
(* Bound: MaxOtps (rows of otp_codes).                                     *)
(***************************************************************************)
EXTENDS Integers, Sequences, FiniteSets

CONSTANTS
    Phones,
    Codes,             \* referral codes, 100000..999999 in the code
    Usernames,
    Verifications,     \* the verifyOtp requests under way at a time
    Editors,           \* the profile updates under way at a time
    Rewards,           \* the values of referral_reward_amount
    MaxAttempts,       \* maxAttempts, 10 in the code
    MaxOtps

ASSUME CodesAssumption == Codes \subseteq Nat \ {0}
ASSUME UsernamesAssumption == Usernames \subseteq Nat \ {0}
ASSUME RewardsAssumption == Rewards \subseteq Nat \ {0}
ASSUME AccountsBounds == MaxAttempts \in Nat /\ MaxOtps \in Nat

VARIABLES
    users,      \* the row of a phone; its code is NoCode while there is none
    otps,       \* otp_codes in insertion order
    setting,    \* app_settings, referral_reward_amount; 0 while there is no row
    bonuses,    \* the REFERRAL_BONUS rows of wallet_transactions
    credits,    \* history: how often a new user has had their referrer credited
    tokens,     \* history: the phones that were given an access token
    verify,     \* the verifyOtp requests
    edit        \* the updateProfile and updateUserById requests

vars == <<users, otps, setting, bonuses, credits, tokens, verify, edit>>

-----------------------------------------------------------------------------
NoCode == 0
TooLong == -1       \* the eight digits of the last attempt, for a varchar(6)
NoName == 0
Undefined == -1     \* a property save() skips

User ==
    [code : Codes \cup {NoCode}, referredBy : Codes \cup {NoCode},
     username : Usernames \cup {NoName}]

NoUser == [code |-> NoCode, referredBy |-> NoCode, username |-> NoName]

OtpCode ==
    [phone : Phones, incomingReferral : Codes \cup {NoCode}, isVerified : BOOLEAN]

Bonus == [user : Phones, newUser : Phones, amount : Nat]

Idle == [at |-> "idle"]

VerifySteps == {"findOtp", "markVerified", "findUser", "tryCode", "insertUser"}
RewardSteps == {"findReferrer", "readSetting", "credit", "saveBonus"}

Verification ==
    [at : VerifySteps, phone : Phones, incomingReferral : Codes \cup {NoCode},
     otp : 0..MaxOtps, code : Codes \cup {NoCode, TooLong}, attempts : 0..MaxAttempts]

Reward ==
    [at : RewardSteps, phone : Phones, code : Codes, referrer : Phones,
     amount : Rewards \cup {0}]

Edit ==
    [at : {"checkTaken", "load", "update"}, phone : Phones,
     username : Usernames \cup {NoName, Undefined}]

\* Types of the eight variables; with them, no verification tries more codes
\* than it may.
TypeOK ==
    /\ users \in [Phones -> User]
    /\ otps \in Seq(OtpCode) /\ Len(otps) <= MaxOtps
    /\ setting \in Rewards \cup {0}
    /\ bonuses \in Seq(Bonus)
    /\ credits \in [Phones -> Nat]
    /\ tokens \subseteq Phones
    /\ verify \in [Verifications -> Verification \cup Reward \cup {Idle}]
    /\ edit \in [Editors -> Edit \cup {Idle}]

Init ==
    /\ users = [p \in Phones |-> NoUser]
    /\ otps = <<>>
    /\ setting \in Rewards \cup {0}
    /\ bonuses = <<>>
    /\ credits = [p \in Phones |-> 0]
    /\ tokens = {}
    /\ verify = [v \in Verifications |-> Idle]
    /\ edit = [e \in Editors |-> Idle]

-----------------------------------------------------------------------------
Registered == {p \in Phones : users[p].code # NoCode}
Owners(code) == {p \in Registered : users[p].code = code}

\* The check that requestOtp and verifyOtp both make.
ValidReferral(code) == code = NoCode \/ Owners(code) # {}

requestOtp(p) ==
    /\ Len(otps) < MaxOtps
    /\ \E code \in Codes \cup {NoCode} :
        /\ ValidReferral(code)
        /\ otps' = Append(otps, [phone |-> p, incomingReferral |-> code,
                                 isVerified |-> FALSE])
    /\ UNCHANGED <<users, setting, bonuses, credits, tokens, verify, edit>>

-----------------------------------------------------------------------------
(***************************************************************************)
(* verifyOtp                                                               *)
(***************************************************************************)
At(v, step) == verify[v].at = step
GoTo(v, step) == verify' = [verify EXCEPT ![v].at = step]
End(v) == verify' = [verify EXCEPT ![v] = Idle]

\* jwtService.sign: the request is answered with a token.
GiveToken(v) ==
    /\ tokens' = tokens \cup {verify[v].phone}
    /\ End(v)

\* The first call looks the code up that came with the request; an unknown one
\* is answered with 400.
verifyOtp(v) ==
    /\ At(v, "idle")
    /\ \E p \in Phones, code \in Codes \cup {NoCode} :
        /\ ValidReferral(code)
        /\ verify' = [verify EXCEPT ![v] =
            [at |-> "findOtp", phone |-> p, incomingReferral |-> code, otp |-> 0,
             code |-> NoCode, attempts |-> 0]]
    /\ UNCHANGED <<users, otps, setting, bonuses, credits, tokens, edit>>

\* An unverified row of the phone that carries the code; or there is none, or
\* its thirty minutes have passed, and the answer is 400.
FindOtp(v) ==
    /\ At(v, "findOtp")
    /\ \/ End(v)
       \/ \E i \in DOMAIN otps :
            /\ otps[i].phone = verify[v].phone
            /\ ~otps[i].isVerified
            /\ verify' = [verify EXCEPT ![v].otp = i, ![v].at = "markVerified"]
    /\ UNCHANGED <<users, otps, setting, bonuses, credits, tokens, edit>>

\* Mutant: the row is found and not updated.
MarkVerified_Forgotten(v) ==
    /\ At(v, "markVerified")
    /\ GoTo(v, "findUser")
    /\ UNCHANGED <<users, otps, setting, bonuses, credits, tokens, edit>>

\* UPDATE by id alone, whoever has verified the row meanwhile.
MarkVerified(v) ==
    /\ At(v, "markVerified")
    /\ otps' = [otps EXCEPT ![verify[v].otp].isVerified = TRUE]
    /\ GoTo(v, "findUser")
    /\ UNCHANGED <<users, setting, bonuses, credits, tokens, edit>>

FindUser(v) ==
    /\ At(v, "findUser")
    /\ IF verify[v].phone \in Registered
       THEN GiveToken(v)
       ELSE GoTo(v, "tryCode") /\ UNCHANGED tokens
    /\ UNCHANGED <<users, otps, setting, bonuses, credits, edit>>

\* Mutant: the loop goes on until a code is free.
generateUniqueReferralCode_Endless(v) ==
    /\ At(v, "tryCode")
    /\ \E code \in Codes :
        verify' =
            IF Owners(code) = {}
            THEN [verify EXCEPT ![v].code = code, ![v].at = "insertUser"]
            ELSE [verify EXCEPT ![v].attempts = @ + 1]
    /\ UNCHANGED <<users, otps, setting, bonuses, credits, tokens, edit>>

\* One turn of the loop: a random code that nobody has yet; after the tenth
\* collision one more turn, and if that collides too, eight digits.
generateUniqueReferralCode(v) ==
    /\ At(v, "tryCode")
    /\ \E code \in Codes :
        verify' =
            IF Owners(code) = {}
            THEN [verify EXCEPT ![v].code = code, ![v].at = "insertUser"]
            ELSE IF verify[v].attempts < MaxAttempts
            THEN [verify EXCEPT ![v].attempts = @ + 1]
            ELSE [verify EXCEPT ![v].code = TooLong, ![v].at = "insertUser"]
    /\ UNCHANGED <<users, otps, setting, bonuses, credits, tokens, edit>>

finalReferralCode(v) ==
    IF verify[v].incomingReferral # NoCode THEN verify[v].incomingReferral
    ELSE otps[verify[v].otp].incomingReferral

StartReward(v) ==
    verify' = [verify EXCEPT ![v] =
        [at |-> "findReferrer", phone |-> verify[v].phone, code |-> finalReferralCode(v),
         referrer |-> verify[v].phone, amount |-> 0]]

\* The unique columns and the length of referralCode.
Insertable(v) ==
    /\ verify[v].phone \notin Registered
    /\ verify[v].code # TooLong /\ Owners(verify[v].code) = {}

\* save(user); when the INSERT fails the request does, its OTP spent.
InsertUser(v) ==
    /\ At(v, "insertUser")
    /\ IF ~Insertable(v)
       THEN End(v) /\ UNCHANGED <<users, tokens>>
       ELSE /\ users' = [users EXCEPT ![verify[v].phone] =
                [NoUser EXCEPT !.code = verify[v].code, !.referredBy = finalReferralCode(v)]]
            /\ IF finalReferralCode(v) = NoCode THEN GiveToken(v)
               ELSE StartReward(v) /\ UNCHANGED tokens
    /\ UNCHANGED <<otps, setting, bonuses, credits, edit>>

-----------------------------------------------------------------------------
(***************************************************************************)
(* giveReferralReward.  Whatever fails in it, the new user gets the token. *)
(***************************************************************************)
FindReferrer(v) ==
    /\ At(v, "findReferrer")
    /\ IF Owners(verify[v].code) = {} THEN GiveToken(v)
       ELSE /\ \E p \in Owners(verify[v].code) :
                verify' = [verify EXCEPT ![v].referrer = p, ![v].at = "readSetting"]
            /\ UNCHANGED tokens
    /\ UNCHANGED <<users, otps, setting, bonuses, credits, edit>>

ReadSetting(v) ==
    /\ At(v, "readSetting")
    /\ IF setting = 0 THEN GiveToken(v)
       ELSE /\ verify' = [verify EXCEPT ![v].amount = setting, ![v].at = "credit"]
            /\ UNCHANGED tokens
    /\ UNCHANGED <<users, otps, setting, bonuses, credits, edit>>

Credited(v) == credits' = [credits EXCEPT ![verify[v].phone] = @ + 1]

\* Mutant: the UPDATE is sent again if the answer does not come.
Credit_Retried(v) ==
    /\ At(v, "credit")
    /\ Credited(v)
    /\ GoTo(v, "saveBonus") \/ (credits[verify[v].phone] < MaxOtps /\ UNCHANGED verify)
    /\ UNCHANGED <<users, otps, setting, bonuses, tokens, edit>>

\* UPDATE of the referrer's balance; what it becomes, and that it may be refused
\* as no bigint, is in Wallet (here that is a call that fails).
Credit(v) ==
    /\ At(v, "credit")
    /\ Credited(v)
    /\ GoTo(v, "saveBonus")
    /\ UNCHANGED <<users, otps, setting, bonuses, tokens, edit>>

\* Mutant: the row is saved again if the answer does not come.
SaveBonus_Retried(v) ==
    /\ At(v, "saveBonus")
    /\ bonuses' = Append(bonuses, [user |-> verify[v].referrer, newUser |-> verify[v].phone,
                                   amount |-> verify[v].amount])
    /\ GiveToken(v) \/ (UNCHANGED <<tokens, verify>> /\ Len(bonuses) < MaxOtps)
    /\ UNCHANGED <<users, otps, setting, credits, edit>>

SaveBonus(v) ==
    /\ At(v, "saveBonus")
    /\ bonuses' = Append(bonuses, [user |-> verify[v].referrer, newUser |-> verify[v].phone,
                                   amount |-> verify[v].amount])
    /\ GiveToken(v)
    /\ UNCHANGED <<users, otps, setting, credits, edit>>

\* A database call fails, or the process stops.
RequestFails(v) ==
    /\ ~At(v, "idle") /\ verify[v].at \notin RewardSteps
    /\ End(v)
    /\ UNCHANGED <<users, otps, setting, bonuses, credits, tokens, edit>>

RewardFails(v) ==
    /\ verify[v].at \in RewardSteps
    /\ GiveToken(v) \/ (End(v) /\ UNCHANGED tokens)
    /\ UNCHANGED <<users, otps, setting, bonuses, credits, edit>>

-----------------------------------------------------------------------------
(***************************************************************************)
(* updateProfile (of a user who has a token) and updateUserById, and the   *)
(* name they give.  save() reads the row again, compares it with the user  *)
(* as it was read first, and updates what differs.                         *)
(***************************************************************************)
EditAt(e, step) == edit[e].at = step
EndEdit(e) == edit' = [edit EXCEPT ![e] = Idle]

\* A new name is looked up first.  The empty string becomes undefined, and no
\* name in the request leaves the one that was read.
ReadProfile(e) ==
    /\ EditAt(e, "idle")
    /\ \E p \in Registered, name \in Usernames \cup {NoName, Undefined} :
        edit' = [edit EXCEPT ![e] =
            [at |-> IF name \in Usernames \ {users[p].username} THEN "checkTaken" ELSE "load",
             phone |-> p,
             username |-> CASE name = NoName -> Undefined
                            [] name = Undefined -> users[p].username
                            [] OTHER -> name]]
    /\ UNCHANGED <<users, otps, setting, bonuses, credits, tokens, verify>>

Taken(name) == \E p \in Registered : users[p].username = name

CheckTaken(e) ==
    /\ EditAt(e, "checkTaken")
    /\ IF Taken(edit[e].username) THEN EndEdit(e)
       ELSE edit' = [edit EXCEPT ![e].at = "load"]
    /\ UNCHANGED <<users, otps, setting, bonuses, credits, tokens, verify>>

\* An undefined name is no difference.
LoadProfile(e) ==
    /\ EditAt(e, "load")
    /\ IF edit[e].username \in {Undefined, users[edit[e].phone].username} THEN EndEdit(e)
       ELSE edit' = [edit EXCEPT ![e].at = "update"]
    /\ UNCHANGED <<users, otps, setting, bonuses, credits, tokens, verify>>

\* The unique column answers a name that was taken after the check.
UpdateProfile(e) ==
    LET name == edit[e].username
    IN  /\ EditAt(e, "update")
        /\ users' = IF name # NoName /\ Taken(name) THEN users
                    ELSE [users EXCEPT ![edit[e].phone].username = name]
        /\ EndEdit(e)
        /\ UNCHANGED <<otps, setting, bonuses, credits, tokens, verify>>

EditFails(e) ==
    /\ ~EditAt(e, "idle")
    /\ EndEdit(e)
    /\ UNCHANGED <<users, otps, setting, bonuses, credits, tokens, verify>>

-----------------------------------------------------------------------------
\* The one row of the setting is written as a whole; a missing one is a 404.
updateReferralRewardConfig ==
    /\ setting # 0
    /\ setting' \in Rewards
    /\ UNCHANGED <<users, otps, bonuses, credits, tokens, verify, edit>>

giveReferralReward(v) == FindReferrer(v) \/ ReadSetting(v) \/ Credit(v) \/ SaveBonus(v) \/ RewardFails(v)

VerifyStep(v) ==
    \/ FindOtp(v) \/ MarkVerified(v) \/ FindUser(v)
    \/ generateUniqueReferralCode(v) \/ InsertUser(v)
    \/ giveReferralReward(v)

updateProfile(e) ==
    ReadProfile(e) \/ CheckTaken(e) \/ LoadProfile(e) \/ UpdateProfile(e) \/ EditFails(e)

Next ==
    \/ \E p \in Phones : requestOtp(p)
    \/ \E v \in Verifications : verifyOtp(v) \/ VerifyStep(v) \/ RequestFails(v)
    \/ \E e \in Editors : updateProfile(e)
    \/ updateReferralRewardConfig

Spec == Init /\ [][Next]_vars

-----------------------------------------------------------------------------
(***************************************************************************)
(* Properties                                                              *)
(***************************************************************************)

\* A token goes to a registered user whose phone has answered an OTP.
TokensNeedAnOtp ==
    \A p \in tokens :
        /\ p \in Registered
        /\ \E i \in DOMAIN otps : otps[i].phone = p /\ otps[i].isVerified

\* The rewards are the referrals' rewards: one at most for each new user, and
\* to the owner of the code they came with, however many verifications of the
\* new phone were under way.
OneBonusForEachReferral ==
    /\ \A i \in DOMAIN bonuses :
        bonuses[i].user \in Owners(users[bonuses[i].newUser].referredBy)
    /\ \A i, j \in DOMAIN bonuses : bonuses[i].newUser = bonuses[j].newUser => i = j

\* So are the credits: one UPDATE at most adds a reward for a new user, and no
\* bonus is booked that was not credited before; wherever a call fails.
EveryBonusIsCreditedOnce ==
    /\ \A p \in Phones : credits[p] <= 1
    /\ \A i \in DOMAIN bonuses : credits[bonuses[i].newUser] = 1

=============================================================================
