---------------------------- MODULE Accounts_proofs ----------------------------
(***************************************************************************)
(* What holds of Accounts for any number of phones, verifications and      *)
(* profile updates: the types, that tokens need an OTP, and that a         *)
(* referral is credited and booked once.                                   *)
(*                                                                         *)
(* The invariant says what a request that is under way knows: the OTP row  *)
(* it has found is there and carries its phone, the user it has inserted   *)
(* is there, no other request rewards the same new user, and the referrer  *)
(* has been credited for that user if the request is past its UPDATE.      *)
(***************************************************************************)
EXTENDS Accounts, TLAPS

Answered(p) == \E i \in DOMAIN otps : otps[i].phone = p /\ otps[i].isVerified

\* A verification that has found an OTP row ...
Found(v) ==
    /\ verify[v].otp \in DOMAIN otps
    /\ otps[verify[v].otp].phone = verify[v].phone

\* ... and one that rewards the referrer of the user it has inserted.
Rewarding(v) ==
    /\ verify[v].phone \in Registered
    /\ Answered(verify[v].phone)
    /\ users[verify[v].phone].referredBy = verify[v].code
    /\ \A i \in DOMAIN bonuses : bonuses[i].newUser # verify[v].phone
    /\ verify[v].at # "findReferrer" => verify[v].referrer \in Owners(verify[v].code)

OtpRow(v) ==
    /\ verify[v].at \in {"markVerified", "findUser", "tryCode", "insertUser"} => Found(v)
    /\ verify[v].at \in {"findUser", "tryCode", "insertUser"} => otps[verify[v].otp].isVerified
    /\ verify[v].at = "insertUser" => verify[v].code # NoCode

OtpRows == \A v \in Verifications : OtpRow(v)

RewardsInv ==
    /\ \A v \in Verifications : verify[v].at \in RewardSteps => Rewarding(v)
    /\ \A v, w \in Verifications :
        /\ verify[v].at \in RewardSteps /\ verify[w].at \in RewardSteps
        /\ verify[v].phone = verify[w].phone
        => v = w
    /\ \A i \in DOMAIN bonuses : bonuses[i].newUser \in Registered

\* The credits of a new user whose reward is under way: none before the UPDATE
\* of the balance and one after it.
CreditsUnderWay(v) ==
    /\ verify[v].at \in RewardSteps \ {"saveBonus"} => credits[verify[v].phone] = 0
    /\ verify[v].at = "saveBonus" => credits[verify[v].phone] = 1

CreditsInv ==
    /\ \A v \in Verifications : CreditsUnderWay(v)
    /\ \A p \in Phones \ Registered : credits[p] = 0

EditNames == \A e \in Editors : edit[e].at = "update" => edit[e].username # Undefined

-----------------------------------------------------------------------------
(* A request's record is of the kind its step says.                        *)
LEMMA KindOfRequest ==
    ASSUME TypeOK, NEW v \in Verifications
    PROVE  /\ verify[v].at \in VerifySteps => verify[v] \in Verification
           /\ verify[v].at \in RewardSteps => verify[v] \in Reward
           /\ verify[v].at \in VerifySteps \cup RewardSteps \cup {"idle"}
  BY DEF TypeOK, Verification, Reward, Idle, VerifySteps, RewardSteps

(* A reward is a number.                                                   *)
LEMMA AmountsAreNatural == \A amount \in Rewards \cup {0} : amount \in Nat
  BY RewardsAssumption

(* The same of a profile update.                                           *)
LEMMA KindOfEdit ==
    ASSUME TypeOK, NEW e \in Editors
    PROVE  /\ edit[e].at # "idle" => edit[e] \in Edit
           /\ edit[e].at \in {"idle", "checkTaken", "load", "update"}
  BY DEF TypeOK, Edit, Idle

-----------------------------------------------------------------------------
(***************************************************************************)
(* Types                                                                   *)
(***************************************************************************)
TypeInv == TypeOK /\ OtpRows /\ EditNames

(* A verification of the first kind may take any of these values.          *)
LEMMA VerificationStep ==
    ASSUME TypeOK, NEW v \in Verifications, NEW x \in Verification \cup Reward \cup {Idle}
    PROVE  [verify EXCEPT ![v] = x] \in [Verifications -> Verification \cup Reward \cup {Idle}]
  BY DEF TypeOK

(* The end of a request keeps the types ...                                *)
LEMMA GiveTokenTypes ==
    ASSUME TypeOK, NEW v \in Verifications, verify[v].at \in VerifySteps \cup RewardSteps,
           GiveToken(v)
    PROVE  /\ tokens' \subseteq Phones
           /\ verify' \in [Verifications -> Verification \cup Reward \cup {Idle}]
  <1>1. verify[v].phone \in Phones
    BY KindOfRequest DEF Verification, Reward
  <1> QED
    BY <1>1, VerificationStep DEF GiveToken, End, TypeOK

(* ... and so does a failed one.                                           *)
LEMMA EndTypes ==
    ASSUME TypeOK, NEW v \in Verifications, End(v)
    PROVE  verify' \in [Verifications -> Verification \cup Reward \cup {Idle}]
  BY VerificationStep DEF End

(* A request that has found an OTP row can read it.                        *)
LEMMA OtpTypes ==
    ASSUME TypeOK, OtpRows, NEW v \in Verifications,
           verify[v].at \in {"markVerified", "findUser", "tryCode", "insertUser"}
    PROVE  /\ verify[v].otp \in DOMAIN otps
           /\ otps[verify[v].otp] \in OtpCode
           /\ finalReferralCode(v) \in Codes \cup {NoCode}
  <1>1. verify[v] \in Verification
    BY KindOfRequest DEF VerifySteps
  <1>2. verify[v].otp \in DOMAIN otps
    BY DEF OtpRows, OtpRow, Found
  <1>3. otps[verify[v].otp] \in OtpCode
    BY <1>2 DEF TypeOK
  <1> QED
    BY <1>1, <1>2, <1>3 DEF finalReferralCode, Verification, OtpCode

(* Every step keeps the types.                                             *)
LEMMA TypeStep == TypeInv /\ [Next]_vars => TypeOK'
<1> SUFFICES ASSUME TypeInv, [Next]_vars PROVE TypeOK'
  OBVIOUS
<1> USE DEF TypeInv
<1>1. ASSUME NEW p \in Phones, requestOtp(p) PROVE TypeOK'
  <2>1. PICK code \in Codes \cup {NoCode} :
          otps' = Append(otps, [phone |-> p, incomingReferral |-> code, isVerified |-> FALSE])
    BY <1>1 DEF requestOtp
  <2>2. [phone |-> p, incomingReferral |-> code, isVerified |-> FALSE] \in OtpCode
    BY DEF OtpCode
  <2>3. otps' \in Seq(OtpCode) /\ Len(otps') <= MaxOtps
    BY <1>1, <2>1, <2>2, AccountsBounds DEF requestOtp, TypeOK
  <2> QED
    BY <1>1, <2>3 DEF requestOtp, TypeOK
<1>2. ASSUME NEW v \in Verifications, verifyOtp(v) PROVE TypeOK'
  <2>1. PICK p \in Phones, code \in Codes \cup {NoCode} :
          verify' = [verify EXCEPT ![v] =
            [at |-> "findOtp", phone |-> p, incomingReferral |-> code, otp |-> 0,
             code |-> NoCode, attempts |-> 0]]
    BY <1>2 DEF verifyOtp
  <2>2. [at |-> "findOtp", phone |-> p, incomingReferral |-> code, otp |-> 0,
         code |-> NoCode, attempts |-> 0] \in Verification
    BY AccountsBounds DEF Verification, VerifySteps
  <2> QED
    BY <1>2, <2>1, <2>2, VerificationStep DEF verifyOtp, TypeOK
<1>3. ASSUME NEW v \in Verifications, FindOtp(v) PROVE TypeOK'
  <2>1. verify[v] \in Verification
    BY <1>3, KindOfRequest DEF FindOtp, At, VerifySteps
  <2>2. verify' \in [Verifications -> Verification \cup Reward \cup {Idle}]
    <3>1. CASE End(v)
      BY <3>1, EndTypes
    <3>2. ASSUME NEW i \in DOMAIN otps,
                 verify' = [verify EXCEPT ![v].otp = i, ![v].at = "markVerified"]
          PROVE  verify' \in [Verifications -> Verification \cup Reward \cup {Idle}]
      <4>1. i \in 0..MaxOtps
        BY <3>2, AccountsBounds DEF TypeOK
      <4>2. [verify[v] EXCEPT !.otp = i, !.at = "markVerified"] \in Verification
        BY <2>1, <4>1 DEF Verification, VerifySteps
      <4>3. verify' = [verify EXCEPT ![v] = [verify[v] EXCEPT !.otp = i, !.at = "markVerified"]]
        BY <3>2 DEF TypeOK
      <4> QED
        BY <4>2, <4>3, VerificationStep
    <3> QED
      BY <1>3, <3>1, <3>2 DEF FindOtp
  <2> QED
    BY <1>3, <2>2 DEF FindOtp, TypeOK
<1>4. ASSUME NEW v \in Verifications, MarkVerified(v) PROVE TypeOK'
  <2>1. verify[v] \in Verification /\ verify[v].at = "markVerified"
    BY <1>4, KindOfRequest DEF MarkVerified, At, VerifySteps
  <2>2. verify[v].otp \in DOMAIN otps /\ otps[verify[v].otp] \in OtpCode
    BY <2>1, OtpTypes
  <2>3. [otps[verify[v].otp] EXCEPT !.isVerified = TRUE] \in OtpCode
    BY <2>2 DEF OtpCode
  <2>4. otps' \in Seq(OtpCode) /\ Len(otps') <= MaxOtps
    BY <1>4, <2>2, <2>3 DEF MarkVerified, TypeOK
  <2>5. [verify[v] EXCEPT !.at = "findUser"] \in Verification
    BY <2>1 DEF Verification, VerifySteps
  <2>6. verify' = [verify EXCEPT ![v] = [verify[v] EXCEPT !.at = "findUser"]]
    BY <1>4 DEF MarkVerified, GoTo, TypeOK
  <2> QED
    BY <1>4, <2>4, <2>5, <2>6, VerificationStep DEF MarkVerified, TypeOK
<1>5. ASSUME NEW v \in Verifications, FindUser(v) PROVE TypeOK'
  <2>1. verify[v] \in Verification
    BY <1>5, KindOfRequest DEF FindUser, At, VerifySteps
  <2>2. CASE GiveToken(v)
    BY <1>5, <2>2, GiveTokenTypes DEF FindUser, TypeOK, At, VerifySteps
  <2>3. CASE GoTo(v, "tryCode") /\ UNCHANGED tokens
    <3>1. [verify[v] EXCEPT !.at = "tryCode"] \in Verification
      BY <2>1 DEF Verification, VerifySteps
    <3>2. verify' = [verify EXCEPT ![v] = [verify[v] EXCEPT !.at = "tryCode"]]
      BY <2>3 DEF GoTo, TypeOK
    <3> QED
      BY <1>5, <2>3, <3>1, <3>2, VerificationStep DEF FindUser, TypeOK
  <2> QED
    BY <1>5, <2>2, <2>3 DEF FindUser
<1>6. ASSUME NEW v \in Verifications, generateUniqueReferralCode(v) PROVE TypeOK'
  <2>1. verify[v] \in Verification
    BY <1>6, KindOfRequest DEF generateUniqueReferralCode, At, VerifySteps
  <2>2. PICK code \in Codes :
          verify' =
            IF Owners(code) = {}
            THEN [verify EXCEPT ![v].code = code, ![v].at = "insertUser"]
            ELSE IF verify[v].attempts < MaxAttempts
            THEN [verify EXCEPT ![v].attempts = @ + 1]
            ELSE [verify EXCEPT ![v].code = TooLong, ![v].at = "insertUser"]
    BY <1>6 DEF generateUniqueReferralCode
  <2>3. /\ [verify[v] EXCEPT !.code = code, !.at = "insertUser"] \in Verification
        /\ [verify[v] EXCEPT !.code = TooLong, !.at = "insertUser"] \in Verification
        /\ verify[v].attempts < MaxAttempts =>
              [verify[v] EXCEPT !.attempts = @ + 1] \in Verification
    <3>1. [verify[v] EXCEPT !.code = code, !.at = "insertUser"] \in Verification
      BY <2>1 DEF Verification, VerifySteps
    <3>2. [verify[v] EXCEPT !.code = TooLong, !.at = "insertUser"] \in Verification
      BY <2>1 DEF Verification, VerifySteps
    <3>3. ASSUME verify[v].attempts < MaxAttempts
          PROVE  [verify[v] EXCEPT !.attempts = @ + 1] \in Verification
      <4>1. verify[v].attempts + 1 \in 0..MaxAttempts
        BY <2>1, <3>3, AccountsBounds DEF Verification
      <4> QED
        BY <2>1, <4>1 DEF Verification
    <3> QED
      BY <3>1, <3>2, <3>3
  <2>4. \/ verify' = [verify EXCEPT ![v] = [verify[v] EXCEPT !.code = code, !.at = "insertUser"]]
        \/ /\ verify[v].attempts < MaxAttempts
           /\ verify' = [verify EXCEPT ![v] = [verify[v] EXCEPT !.attempts = @ + 1]]
        \/ verify' = [verify EXCEPT ![v] = [verify[v] EXCEPT !.code = TooLong, !.at = "insertUser"]]
    BY <2>2 DEF TypeOK
  <2>5. verify' \in [Verifications -> Verification \cup Reward \cup {Idle}]
    BY <2>3, <2>4, VerificationStep
  <2> QED
    BY <1>6, <2>5 DEF generateUniqueReferralCode, TypeOK
<1>7. ASSUME NEW v \in Verifications, InsertUser(v) PROVE TypeOK'
  <2>1. verify[v] \in Verification /\ verify[v].at = "insertUser"
    BY <1>7, KindOfRequest DEF InsertUser, At, VerifySteps
  <2>2. finalReferralCode(v) \in Codes \cup {NoCode}
    BY <2>1, OtpTypes
  <2>3. CASE ~Insertable(v)
    BY <1>7, <2>3, EndTypes DEF InsertUser, TypeOK
  <2>4. CASE Insertable(v)
    <3>1. users' \in [Phones -> User]
      <4>1. [NoUser EXCEPT !.code = verify[v].code, !.referredBy = finalReferralCode(v)] \in User
        <5>1. verify[v].code \in Codes \cup {NoCode}
          BY <2>1, <2>4 DEF Verification, Insertable
        <5>2. NoUser \in User
          BY DEF NoUser, User
        <5> QED
          BY <5>1, <5>2, <2>2 DEF User
      <4> QED
        BY <1>7, <2>4, <4>1 DEF InsertUser, TypeOK
    <3>2. CASE GiveToken(v)
      BY <1>7, <3>1, <3>2, <2>1, GiveTokenTypes DEF InsertUser, TypeOK, VerifySteps
    <3>3. CASE finalReferralCode(v) # NoCode /\ StartReward(v) /\ UNCHANGED tokens
      <4>1. [at |-> "findReferrer", phone |-> verify[v].phone, code |-> finalReferralCode(v),
             referrer |-> verify[v].phone, amount |-> 0] \in Reward
        BY <2>1, <2>2, <3>3 DEF Verification, Reward, RewardSteps
      <4>2. verify' \in [Verifications -> Verification \cup Reward \cup {Idle}]
        BY <3>3, <4>1, VerificationStep DEF StartReward
      <4> QED
        BY <1>7, <3>1, <3>3, <4>2 DEF InsertUser, TypeOK
    <3> QED
      BY <1>7, <2>4, <3>2, <3>3 DEF InsertUser
  <2> QED
    BY <2>3, <2>4
<1>8. ASSUME NEW v \in Verifications, FindReferrer(v) PROVE TypeOK'
  <2>1. verify[v] \in Reward /\ verify[v].at \in RewardSteps
    BY <1>8, KindOfRequest DEF FindReferrer, At, RewardSteps
  <2>2. CASE GiveToken(v)
    BY <1>8, <2>1, <2>2, GiveTokenTypes DEF FindReferrer, TypeOK
  <2>3. ASSUME NEW p \in Owners(verify[v].code), UNCHANGED tokens,
               verify' = [verify EXCEPT ![v].referrer = p, ![v].at = "readSetting"]
        PROVE  TypeOK'
    <3>1. p \in Phones
      BY DEF Owners, Registered
    <3>2. [verify[v] EXCEPT !.referrer = p, !.at = "readSetting"] \in Reward
      BY <2>1, <3>1 DEF Reward, RewardSteps
    <3>3. verify' = [verify EXCEPT ![v] =
                        [verify[v] EXCEPT !.referrer = p, !.at = "readSetting"]]
      BY <2>3 DEF TypeOK
    <3>4. verify' \in [Verifications -> Verification \cup Reward \cup {Idle}]
      BY <3>2, <3>3, VerificationStep
    <3> QED
      BY <1>8, <2>3, <3>4 DEF FindReferrer, TypeOK
  <2> QED
    BY <1>8, <2>2, <2>3 DEF FindReferrer
<1>9. ASSUME NEW v \in Verifications, ReadSetting(v) PROVE TypeOK'
  <2>1. verify[v] \in Reward /\ verify[v].at \in RewardSteps
    BY <1>9, KindOfRequest DEF ReadSetting, At, RewardSteps
  <2>2. CASE GiveToken(v)
    BY <1>9, <2>1, <2>2, GiveTokenTypes DEF ReadSetting, TypeOK
  <2>3. CASE /\ verify' = [verify EXCEPT ![v].amount = setting, ![v].at = "credit"]
             /\ UNCHANGED tokens
    <3>1. [verify[v] EXCEPT !.amount = setting, !.at = "credit"] \in Reward
      BY <2>1 DEF Reward, RewardSteps, TypeOK
    <3>2. verify' = [verify EXCEPT ![v] = [verify[v] EXCEPT !.amount = setting, !.at = "credit"]]
      BY <2>3 DEF TypeOK
    <3> QED
      BY <1>9, <2>3, <3>1, <3>2, VerificationStep DEF ReadSetting, TypeOK
  <2> QED
    BY <1>9, <2>2, <2>3 DEF ReadSetting
<1>10. ASSUME NEW v \in Verifications, Credit(v) PROVE TypeOK'
  <2>1. verify[v] \in Reward /\ verify[v].at \in RewardSteps
    BY <1>10, KindOfRequest DEF Credit, At, RewardSteps
  <2>2. verify[v].phone \in Phones
    BY <2>1 DEF Reward
  <2>3. credits' \in [Phones -> Nat]
    BY <1>10, <2>2 DEF Credit, Credited, TypeOK
  <2>4. [verify[v] EXCEPT !.at = "saveBonus"] \in Reward
    BY <2>1 DEF Reward, RewardSteps
  <2>5. verify' = [verify EXCEPT ![v] = [verify[v] EXCEPT !.at = "saveBonus"]]
    BY <1>10 DEF Credit, GoTo, TypeOK
  <2> QED
    BY <1>10, <2>3, <2>4, <2>5, VerificationStep DEF Credit, TypeOK
<1>11. ASSUME NEW v \in Verifications, SaveBonus(v) PROVE TypeOK'
  <2>1. verify[v] \in Reward /\ verify[v].at \in RewardSteps
    BY <1>11, KindOfRequest DEF SaveBonus, At, RewardSteps
  <2>2. [user |-> verify[v].referrer, newUser |-> verify[v].phone, amount |-> verify[v].amount]
            \in Bonus
    <3>1. verify[v].amount \in Rewards \cup {0}
      BY <2>1 DEF Reward
    <3>2. verify[v].amount \in Nat
      BY <3>1, AmountsAreNatural
    <3> QED
      BY <2>1, <3>2 DEF Reward, Bonus
  <2>3. bonuses' \in Seq(Bonus)
    BY <1>11, <2>2 DEF SaveBonus, TypeOK
  <2> QED
    BY <1>11, <2>1, <2>3, GiveTokenTypes DEF SaveBonus, TypeOK
<1>12. ASSUME NEW v \in Verifications, RewardFails(v) PROVE TypeOK'
  BY <1>12, GiveTokenTypes, EndTypes DEF RewardFails, TypeOK
<1>13. ASSUME NEW v \in Verifications, RequestFails(v) PROVE TypeOK'
  BY <1>13, EndTypes DEF RequestFails, TypeOK
<1>14. ASSUME NEW e \in Editors, updateProfile(e) PROVE TypeOK'
  <2>1. CASE ReadProfile(e)
    <3>1. PICK p \in Registered, name \in Usernames \cup {NoName, Undefined} :
            edit' = [edit EXCEPT ![e] =
              [at |-> IF name \in Usernames \ {users[p].username} THEN "checkTaken" ELSE "load",
               phone |-> p,
               username |-> CASE name = NoName -> Undefined
                              [] name = Undefined -> users[p].username
                              [] OTHER -> name]]
      BY <2>1 DEF ReadProfile
    <3>2. p \in Phones /\ users[p] \in User
      BY DEF Registered, TypeOK
    <3>3. (CASE name = NoName -> Undefined
             [] name = Undefined -> users[p].username
             [] OTHER -> name) \in Usernames \cup {NoName, Undefined}
      BY <3>2 DEF User, NoName, Undefined
    <3>4. [at |-> IF name \in Usernames \ {users[p].username} THEN "checkTaken" ELSE "load",
           phone |-> p,
           username |-> CASE name = NoName -> Undefined
                          [] name = Undefined -> users[p].username
                          [] OTHER -> name] \in Edit
      BY <3>2, <3>3 DEF User, Edit
    <3> QED
      BY <2>1, <3>1, <3>4 DEF ReadProfile, TypeOK
  <2>2. CASE CheckTaken(e)
    <3>1. edit[e] \in Edit
      BY <2>2, KindOfEdit DEF CheckTaken, EditAt
    <3>2. [edit[e] EXCEPT !.at = "load"] \in Edit
      BY <3>1 DEF Edit
    <3> QED
      BY <2>2, <3>2 DEF CheckTaken, EndEdit, TypeOK
  <2>3. CASE LoadProfile(e)
    <3>1. edit[e] \in Edit
      BY <2>3, KindOfEdit DEF LoadProfile, EditAt
    <3>2. [edit[e] EXCEPT !.at = "update"] \in Edit
      BY <3>1 DEF Edit
    <3> QED
      BY <2>3, <3>2 DEF LoadProfile, EndEdit, TypeOK
  <2>4. CASE UpdateProfile(e)
    <3> DEFINE name == edit[e].username
    <3>1. edit[e] \in Edit /\ edit[e].at = "update"
      BY <2>4, KindOfEdit DEF UpdateProfile, EditAt
    <3>2. edit[e].phone \in Phones /\ users[edit[e].phone] \in User
      BY <3>1 DEF Edit, TypeOK
    <3>3. name \in Usernames \cup {NoName}
      BY <3>1 DEF EditNames, Edit
    <3>4. [users[edit[e].phone] EXCEPT !.username = name] \in User
      BY <3>2, <3>3 DEF User
    <3>5. users' \in [Phones -> User]
      BY <2>4, <3>2, <3>4 DEF UpdateProfile, TypeOK
    <3> QED
      BY <2>4, <3>5 DEF UpdateProfile, EndEdit, TypeOK
  <2>5. CASE EditFails(e)
    BY <2>5 DEF EditFails, EndEdit, TypeOK
  <2> QED
    BY <1>14, <2>1, <2>2, <2>3, <2>4, <2>5 DEF updateProfile
<1>15. CASE updateReferralRewardConfig
  BY <1>15 DEF updateReferralRewardConfig, TypeOK
<1>16. CASE UNCHANGED vars
  BY <1>16 DEF vars, TypeOK
<1> QED
  BY <1>1, <1>2, <1>3, <1>4, <1>5, <1>6, <1>7, <1>8, <1>9, <1>10, <1>11, <1>12, <1>13, <1>14,
     <1>15, <1>16 DEF Next, VerifyStep, giveReferralReward

-----------------------------------------------------------------------------
(***************************************************************************)
(* What a step of anybody leaves alone                                     *)
(***************************************************************************)

(* Only its own steps change a verification.                               *)
LEMMA OnlyItself ==
    ASSUME TypeOK, [Next]_vars, NEW w \in Verifications, verify'[w] # verify[w]
    PROVE  verifyOtp(w) \/ VerifyStep(w) \/ RequestFails(w)
<1>1. ASSUME NEW v \in Verifications, v # w, verifyOtp(v) \/ RequestFails(v)
      PROVE  verify'[w] = verify[w]
  BY <1>1 DEF verifyOtp, RequestFails, End, TypeOK
<1>2. ASSUME NEW v \in Verifications, v # w,
             FindOtp(v) \/ MarkVerified(v) \/ FindUser(v) \/ generateUniqueReferralCode(v)
      PROVE  verify'[w] = verify[w]
  <2>1. CASE FindOtp(v)
    BY <1>2, <2>1 DEF FindOtp, End, TypeOK
  <2>2. CASE MarkVerified(v) \/ FindUser(v)
    BY <1>2, <2>2 DEF MarkVerified, FindUser, GiveToken, GoTo, End, TypeOK
  <2>3. CASE generateUniqueReferralCode(v)
    BY <1>2, <2>3 DEF generateUniqueReferralCode, TypeOK
  <2> QED
    BY <1>2, <2>1, <2>2, <2>3
<1>3. ASSUME NEW v \in Verifications, v # w, InsertUser(v) PROVE verify'[w] = verify[w]
  BY <1>3 DEF InsertUser, GiveToken, StartReward, End, TypeOK
<1>4. ASSUME NEW v \in Verifications, v # w, giveReferralReward(v)
      PROVE  verify'[w] = verify[w]
  <2>1. CASE FindReferrer(v)
    BY <1>4, <2>1 DEF FindReferrer, GiveToken, End, TypeOK
  <2>2. CASE ReadSetting(v) \/ SaveBonus(v) \/ RewardFails(v)
    BY <1>4, <2>2 DEF ReadSetting, SaveBonus, RewardFails, GiveToken, End, TypeOK
  <2>3. CASE Credit(v)
    BY <1>4, <2>3 DEF Credit, GoTo, TypeOK
  <2> QED
    BY <1>4, <2>1, <2>2, <2>3 DEF giveReferralReward
<1>5. CASE \E v \in Verifications : verifyOtp(v) \/ VerifyStep(v) \/ RequestFails(v)
  BY <1>1, <1>2, <1>3, <1>4, <1>5 DEF VerifyStep
<1>6. CASE \/ \E p \in Phones : requestOtp(p)
           \/ updateReferralRewardConfig \/ UNCHANGED vars
  BY <1>6 DEF requestOtp, updateReferralRewardConfig, vars
<1>7. CASE \E e \in Editors : updateProfile(e)
  BY <1>7 DEF updateProfile, ReadProfile, CheckTaken, LoadProfile, UpdateProfile, EditFails
<1> QED
  BY <1>5, <1>6, <1>7 DEF Next

(* OTP rows stay, and stay verified.                                       *)
LEMMA OtpsGrow ==
    ASSUME TypeInv, [Next]_vars, NEW i \in DOMAIN otps
    PROVE  /\ i \in DOMAIN otps' /\ otps'[i].phone = otps[i].phone
           /\ otps[i].isVerified => otps'[i].isVerified
<1>1. CASE \E p \in Phones : requestOtp(p)
  <2>1. PICK row : otps' = Append(otps, row)
    BY <1>1 DEF requestOtp
  <2> QED
    BY <2>1 DEF TypeInv, TypeOK
<1>2. CASE \E v \in Verifications : MarkVerified(v)
  <2>1. PICK v \in Verifications : MarkVerified(v)
    BY <1>2
  <2>2. otps' = [otps EXCEPT ![verify[v].otp].isVerified = TRUE] /\ otps[i] \in OtpCode
    BY <2>1 DEF MarkVerified, TypeInv, TypeOK
  <2> QED
    BY <2>2 DEF OtpCode
<1>3. CASE otps' = otps
  BY <1>3
<1>4. CASE ~(\E p \in Phones : requestOtp(p)) /\ ~(\E v \in Verifications : MarkVerified(v))
  <2>1. CASE \E v \in Verifications : verifyOtp(v) \/ VerifyStep(v) \/ RequestFails(v)
    <3>1. PICK v \in Verifications :
            \/ verifyOtp(v) \/ FindOtp(v) \/ FindUser(v) \/ generateUniqueReferralCode(v)
            \/ InsertUser(v) \/ RequestFails(v) \/ giveReferralReward(v)
      BY <1>4, <2>1 DEF VerifyStep
    <3>2. CASE verifyOtp(v) \/ FindOtp(v) \/ FindUser(v) \/ RequestFails(v)
      BY <1>3, <3>2 DEF verifyOtp, FindOtp, FindUser, RequestFails
    <3>3. CASE generateUniqueReferralCode(v) \/ InsertUser(v)
      BY <1>3, <3>3 DEF generateUniqueReferralCode, InsertUser
    <3>4. CASE giveReferralReward(v)
      BY <1>3, <3>4
      DEF giveReferralReward, FindReferrer, ReadSetting, Credit, SaveBonus, RewardFails
    <3> QED
      BY <3>1, <3>2, <3>3, <3>4
  <2>2. CASE \E e \in Editors : updateProfile(e)
    BY <1>3, <2>2 DEF updateProfile, ReadProfile, CheckTaken, LoadProfile, UpdateProfile,
                      EditFails
  <2>3. CASE updateReferralRewardConfig \/ UNCHANGED vars
    BY <1>3, <2>3 DEF updateReferralRewardConfig, vars
  <2> QED
    BY <1>4, <2>1, <2>2, <2>3 DEF Next
<1> QED
  BY <1>1, <1>2, <1>4

(* The steps that write to the rows of users.                              *)
Edited(e) ==
    /\ UpdateProfile(e)
    /\ users' = [users EXCEPT ![edit[e].phone].username = edit[e].username]

(* Nothing but these steps writes to the rows.                             *)
LEMMA UsersChange ==
    ASSUME TypeInv, [Next]_vars, users' # users
    PROVE  \/ \E v \in Verifications : InsertUser(v) /\ Insertable(v)
           \/ \E e \in Editors : Edited(e)
<1>1. CASE \E v \in Verifications : verifyOtp(v) \/ VerifyStep(v) \/ RequestFails(v)
  <2>1. PICK v \in Verifications :
          \/ verifyOtp(v) \/ FindOtp(v) \/ MarkVerified(v) \/ FindUser(v) \/ RequestFails(v)
          \/ generateUniqueReferralCode(v) \/ InsertUser(v) \/ giveReferralReward(v)
    BY <1>1 DEF VerifyStep
  <2>2. CASE verifyOtp(v) \/ FindOtp(v) \/ MarkVerified(v) \/ FindUser(v) \/ RequestFails(v)
    BY <2>2 DEF verifyOtp, FindOtp, MarkVerified, FindUser, RequestFails
  <2>3. CASE generateUniqueReferralCode(v) \/ InsertUser(v)
    BY <2>3 DEF generateUniqueReferralCode, InsertUser
  <2>4. CASE giveReferralReward(v)
    BY <2>4 DEF giveReferralReward, FindReferrer, ReadSetting, Credit, SaveBonus, RewardFails
  <2> QED
    BY <2>1, <2>2, <2>3, <2>4
<1>2. CASE \E e \in Editors : updateProfile(e)
  BY <1>2 DEF updateProfile, ReadProfile, CheckTaken, LoadProfile, UpdateProfile, EditFails,
              Edited
<1>3. CASE \/ \E p \in Phones : requestOtp(p)
           \/ updateReferralRewardConfig \/ UNCHANGED vars
  BY <1>3 DEF requestOtp, updateReferralRewardConfig, vars
<1> QED
  BY <1>1, <1>2, <1>3 DEF Next

(* The step that inserts a user.                                           *)
LEMMA Inserted ==
    ASSUME TypeInv, NEW v \in Verifications, InsertUser(v), Insertable(v)
    PROVE  /\ verify[v] \in Verification /\ verify[v].phone \notin Registered
           /\ finalReferralCode(v) \in Codes \cup {NoCode}
           /\ users'[verify[v].phone].code = verify[v].code
           /\ users'[verify[v].phone].referredBy = finalReferralCode(v)
           /\ \A p \in Phones \ {verify[v].phone} : users'[p] = users[p]
           /\ verify[v].code \in Codes /\ verify[v].code # NoCode
           /\ verify[v].phone \in Phones
<1>1. verify[v] \in Verification /\ verify[v].at = "insertUser"
  BY KindOfRequest DEF InsertUser, At, VerifySteps, TypeInv
<1>2. finalReferralCode(v) \in Codes \cup {NoCode}
  BY <1>1, OtpTypes DEF TypeInv
<1>3. verify[v].code \in Codes /\ verify[v].code # NoCode
  BY <1>1 DEF Verification, Insertable, TypeInv, OtpRows, OtpRow
<1>4. verify[v].phone \in Phones /\ verify[v].phone \notin Registered
  BY <1>1 DEF Insertable, Verification
<1>5. users' = [users EXCEPT ![verify[v].phone] =
                    [NoUser EXCEPT !.code = verify[v].code, !.referredBy = finalReferralCode(v)]]
  BY DEF InsertUser
<1>6. /\ users'[verify[v].phone] =
            [NoUser EXCEPT !.code = verify[v].code, !.referredBy = finalReferralCode(v)]
      /\ \A p \in Phones \ {verify[v].phone} : users'[p] = users[p]
  BY <1>4, <1>5, Zenon DEF TypeInv, TypeOK
<1>7. /\ users'[verify[v].phone].code = verify[v].code
      /\ users'[verify[v].phone].referredBy = finalReferralCode(v)
  <2> DEFINE code == verify[v].code
             referredBy == finalReferralCode(v)
             row == users'[verify[v].phone]
  <2>1. row = [NoUser EXCEPT !.code = code, !.referredBy = referredBy]
    BY <1>6
  <2> HIDE DEF code, referredBy, row
  <2>2. row.code = code /\ row.referredBy = referredBy
    BY <2>1 DEF NoUser, NoCode, NoName
  <2> QED
    BY <2>2 DEF code, referredBy, row
<1> QED
  BY <1>1, <1>2, <1>3, <1>4, <1>6, <1>7

(* A registered user stays, with the code and the referrer's code.         *)
LEMMA UsersGrow ==
    ASSUME TypeInv, [Next]_vars, NEW p \in Registered
    PROVE  /\ p \in Registered' /\ users'[p].code = users[p].code
           /\ users'[p].referredBy = users[p].referredBy
<1> SUFFICES /\ users'[p].code = users[p].code
             /\ users'[p].referredBy = users[p].referredBy
  BY DEF Registered
<1>0. p \in Phones /\ users[p] \in User /\ users \in [Phones -> User]
  BY DEF Registered, TypeInv, TypeOK
<1>1. ASSUME NEW v \in Verifications, InsertUser(v), Insertable(v)
      PROVE  users'[p] = users[p]
  BY <1>0, <1>1, Inserted
<1>2. ASSUME NEW e \in Editors, Edited(e)
      PROVE  users'[p].code = users[p].code /\ users'[p].referredBy = users[p].referredBy
  BY <1>0, <1>2 DEF Edited, User
<1> QED
  BY <1>1, <1>2, UsersChange

(* A code keeps its owner, and an answered OTP stays answered.             *)
LEMMA OwnersGrow ==
    ASSUME TypeInv, [Next]_vars, NEW code, NEW p \in Owners(code)
    PROVE  p \in Registered' /\ users'[p].code = code
  BY UsersGrow DEF Owners

LEMMA AnsweredGrows ==
    ASSUME TypeInv, [Next]_vars, NEW p, Answered(p)
    PROVE  Answered(p)'
  BY OtpsGrow DEF Answered

-----------------------------------------------------------------------------
(***************************************************************************)
(* What the requests know stays true                                       *)
(***************************************************************************)
LEMMA OtpRowsStep == TypeInv /\ [Next]_vars => OtpRows'
<1> SUFFICES ASSUME TypeInv, [Next]_vars, NEW v \in Verifications PROVE OtpRow(v)'
  BY DEF OtpRows
<1>0. OtpRow(v)
  BY DEF TypeInv, OtpRows
<1>1. CASE verify'[v] = verify[v]
  BY <1>0, <1>1, OtpsGrow DEF OtpRow, Found
<1>2. CASE verify'[v].at \notin {"markVerified", "findUser", "tryCode", "insertUser"}
  BY <1>2 DEF OtpRow
<1>3. CASE verifyOtp(v) \/ RequestFails(v)
  <2>1. verify'[v].at \in {"findOtp", "idle"}
    BY <1>3 DEF verifyOtp, RequestFails, End, Idle, TypeInv, TypeOK
  <2> QED
    BY <1>2, <2>1
<1>4. CASE FindOtp(v)
  <2>1. verify[v] \in Verification
    BY <1>4, KindOfRequest DEF FindOtp, At, VerifySteps, TypeInv
  <2>2. CASE End(v)
    BY <1>2, <2>2 DEF End, Idle, TypeInv, TypeOK
  <2>3. ASSUME NEW i \in DOMAIN otps, otps[i].phone = verify[v].phone,
               verify' = [verify EXCEPT ![v].otp = i, ![v].at = "markVerified"]
        PROVE  OtpRow(v)'
    <3>1. verify'[v].otp = i /\ verify'[v].phone = verify[v].phone
            /\ verify'[v].at = "markVerified"
      BY <2>1, <2>3 DEF TypeInv, TypeOK, Verification
    <3> QED
      BY <2>3, <3>1, OtpsGrow DEF OtpRow, Found
  <2> QED
    BY <1>4, <2>2, <2>3 DEF FindOtp
<1>5. CASE MarkVerified(v)
  <2>1. verify[v] \in Verification /\ verify[v].at = "markVerified"
    BY <1>5, KindOfRequest DEF MarkVerified, At, VerifySteps, TypeInv
  <2>2. verify'[v].otp = verify[v].otp /\ verify'[v].phone = verify[v].phone
          /\ verify'[v].at = "findUser"
    BY <1>5, <2>1 DEF MarkVerified, GoTo, TypeInv, TypeOK, Verification
  <2>3. Found(v) /\ otps[verify[v].otp] \in OtpCode
    BY <2>1, <1>0, OtpTypes DEF OtpRow, TypeInv
  <2>4. otps'[verify[v].otp].isVerified
    BY <1>5, <2>3 DEF MarkVerified, Found, OtpCode
  <2> QED
    BY <2>2, <2>3, <2>4, OtpsGrow DEF OtpRow, Found
<1>6. CASE FindUser(v)
  <2>1. verify[v] \in Verification /\ verify[v].at = "findUser"
    BY <1>6, KindOfRequest DEF FindUser, At, VerifySteps, TypeInv
  <2>2. CASE GiveToken(v)
    BY <1>2, <2>2 DEF GiveToken, End, Idle, TypeInv, TypeOK
  <2>3. CASE GoTo(v, "tryCode")
    <3>1. verify'[v].otp = verify[v].otp /\ verify'[v].phone = verify[v].phone
            /\ verify'[v].at = "tryCode"
      BY <2>1, <2>3 DEF GoTo, TypeInv, TypeOK, Verification
    <3> QED
      BY <1>0, <2>1, <3>1, OtpsGrow DEF OtpRow, Found
  <2> QED
    BY <1>6, <2>2, <2>3 DEF FindUser
<1>7. CASE generateUniqueReferralCode(v)
  <2>1. verify[v] \in Verification /\ verify[v].at = "tryCode"
    BY <1>7, KindOfRequest DEF generateUniqueReferralCode, At, VerifySteps, TypeInv
  <2>2. PICK code \in Codes :
          \/ verify' = [verify EXCEPT ![v].code = code, ![v].at = "insertUser"]
          \/ verify' = [verify EXCEPT ![v].attempts = @ + 1]
          \/ verify' = [verify EXCEPT ![v].code = TooLong, ![v].at = "insertUser"]
    BY <1>7 DEF generateUniqueReferralCode
  <2>3. code # NoCode /\ TooLong # NoCode
    BY CodesAssumption DEF NoCode, TooLong
  <2>4. /\ verify'[v].otp = verify[v].otp /\ verify'[v].phone = verify[v].phone
        /\ \/ verify'[v].at = "tryCode"
           \/ verify'[v].at = "insertUser" /\ verify'[v].code \in {code, TooLong}
    BY <2>1, <2>2 DEF TypeInv, TypeOK, Verification
  <2> QED
    BY <1>0, <2>1, <2>3, <2>4, OtpsGrow DEF OtpRow, Found
<1>8. CASE InsertUser(v)
  <2>1. CASE End(v)
    BY <1>2, <2>1 DEF End, Idle, TypeInv, TypeOK
  <2>2. CASE StartReward(v)
    BY <1>2, <2>2 DEF StartReward, TypeInv, TypeOK
  <2> QED
    BY <1>8, <2>1, <2>2 DEF InsertUser, GiveToken
<1>9. CASE giveReferralReward(v)
  <2>1. verify[v] \in Reward
    <3>1. verify[v].at \in RewardSteps
      BY <1>9 DEF giveReferralReward, FindReferrer, ReadSetting, Credit, SaveBonus, RewardFails,
                  At, RewardSteps
    <3> QED
      BY <3>1, KindOfRequest DEF TypeInv
  <2>2. \/ End(v) \/ GoTo(v, "saveBonus")
        \/ \E p : verify' = [verify EXCEPT ![v].referrer = p, ![v].at = "readSetting"]
        \/ verify' = [verify EXCEPT ![v].amount = setting, ![v].at = "credit"]
    <3>1. CASE FindReferrer(v)
      BY <3>1 DEF FindReferrer, GiveToken
    <3>2. CASE ReadSetting(v) \/ SaveBonus(v) \/ RewardFails(v)
      BY <3>2 DEF ReadSetting, SaveBonus, RewardFails, GiveToken
    <3>3. CASE Credit(v)
      BY <3>3 DEF Credit, GiveToken
    <3> QED
      BY <1>9, <3>1, <3>2, <3>3 DEF giveReferralReward
  <2>3. verify'[v].at \in {"idle", "saveBonus", "readSetting", "credit"}
    <3>1. CASE End(v)
      BY <3>1 DEF End, Idle, TypeInv, TypeOK
    <3>2. CASE GoTo(v, "saveBonus")
      BY <2>1, <3>2 DEF GoTo, TypeInv, TypeOK, Reward
    <3>3. ASSUME NEW p, verify' = [verify EXCEPT ![v].referrer = p, ![v].at = "readSetting"]
          PROVE  verify'[v].at = "readSetting"
      BY <2>1, <3>3 DEF TypeInv, TypeOK, Reward
    <3>4. CASE verify' = [verify EXCEPT ![v].amount = setting, ![v].at = "credit"]
      BY <2>1, <3>4 DEF TypeInv, TypeOK, Reward
    <3> QED
      BY <2>2, <3>1, <3>2, <3>3, <3>4
  <2> QED
    BY <1>2, <2>3
<1> QED
  BY <1>1, <1>3, <1>4, <1>5, <1>6, <1>7, <1>8, <1>9, OnlyItself DEF VerifyStep, TypeInv

(* Only its own steps change a profile update.                             *)
LEMMA OnlyOwnEdits ==
    ASSUME TypeInv, [Next]_vars, NEW e \in Editors, edit'[e] # edit[e]
    PROVE  updateProfile(e)
<1>1. CASE edit' = edit
  BY <1>1
<1>2. CASE \E d \in Editors : updateProfile(d)
  <2>1. ASSUME NEW d \in Editors, d # e, updateProfile(d) PROVE edit'[e] = edit[e]
    BY <2>1 DEF updateProfile, ReadProfile, CheckTaken, LoadProfile, UpdateProfile, EditFails,
                EndEdit, TypeInv, TypeOK
  <2> QED
    BY <1>2, <2>1
<1>3. CASE \E v \in Verifications : verifyOtp(v) \/ VerifyStep(v) \/ RequestFails(v)
  <2>1. PICK v \in Verifications :
          \/ verifyOtp(v) \/ FindOtp(v) \/ MarkVerified(v) \/ FindUser(v) \/ RequestFails(v)
          \/ generateUniqueReferralCode(v) \/ InsertUser(v) \/ giveReferralReward(v)
    BY <1>3 DEF VerifyStep
  <2>2. CASE verifyOtp(v) \/ FindOtp(v) \/ MarkVerified(v) \/ FindUser(v) \/ RequestFails(v)
    BY <1>1, <2>2 DEF verifyOtp, FindOtp, MarkVerified, FindUser, RequestFails
  <2>3. CASE generateUniqueReferralCode(v) \/ InsertUser(v)
    BY <1>1, <2>3 DEF generateUniqueReferralCode, InsertUser
  <2>4. CASE giveReferralReward(v)
    BY <1>1, <2>4
    DEF giveReferralReward, FindReferrer, ReadSetting, Credit, SaveBonus, RewardFails
  <2> QED
    BY <2>1, <2>2, <2>3, <2>4
<1>4. CASE \/ \E p \in Phones : requestOtp(p)
           \/ updateReferralRewardConfig \/ UNCHANGED vars
  BY <1>1, <1>4 DEF requestOtp, updateReferralRewardConfig, vars
<1> QED
  BY <1>2, <1>3, <1>4 DEF Next

(* A profile update writes no name it was not given.                       *)
LEMMA EditNamesStep == TypeInv /\ [Next]_vars => EditNames'
<1> SUFFICES ASSUME TypeInv, [Next]_vars, NEW e \in Editors,
                    edit'[e].at = "update"
             PROVE  edit'[e].username # Undefined
  BY DEF EditNames
<1>1. CASE edit'[e] = edit[e]
  BY <1>1 DEF TypeInv, EditNames
<1>2. CASE LoadProfile(e)
  <2>1. edit[e] \in Edit
    BY <1>2, KindOfEdit DEF LoadProfile, EditAt, TypeInv
  <2>2. edit[e].username # Undefined /\ edit' = [edit EXCEPT ![e].at = "update"]
    <3>1. ~EndEdit(e)
      BY DEF EndEdit, Idle, TypeInv, TypeOK
    <3> QED
      BY <1>2, <3>1 DEF LoadProfile
  <2> QED
    BY <2>1, <2>2 DEF TypeInv, TypeOK, Edit
<1>3. CASE ReadProfile(e) \/ UpdateProfile(e) \/ EditFails(e)
  BY <1>3 DEF ReadProfile, UpdateProfile, EditFails, EndEdit, Idle, TypeInv, TypeOK
<1>4. CASE CheckTaken(e)
  <2>1. edit[e] \in Edit
    BY <1>4, KindOfEdit DEF CheckTaken, EditAt, TypeInv
  <2> QED
    BY <1>4, <2>1 DEF CheckTaken, EndEdit, Idle, TypeInv, TypeOK, Edit
<1> QED
  BY <1>1, <1>2, <1>3, <1>4, OnlyOwnEdits DEF updateProfile

(* The types are an invariant with what they rest on.                      *)
LEMMA TypeInvariant == TypeInv /\ [Next]_vars => TypeInv'
  BY TypeStep, OtpRowsStep, EditNamesStep DEF TypeInv

(* Bonuses are saved by a request that rewards, for the user it inserted.  *)
LEMMA BonusesGrow ==
    ASSUME TypeInv, [Next]_vars, bonuses' # bonuses
    PROVE  \E v \in Verifications :
              /\ SaveBonus(v)
              /\ verify[v].at \in RewardSteps /\ verify'[v].at = "idle"
              /\ bonuses' = Append(bonuses, [user |-> verify[v].referrer,
                               newUser |-> verify[v].phone, amount |-> verify[v].amount])
<1>1. CASE \E v \in Verifications : verifyOtp(v) \/ VerifyStep(v) \/ RequestFails(v)
  <2>1. PICK v \in Verifications :
          \/ verifyOtp(v) \/ FindOtp(v) \/ MarkVerified(v) \/ FindUser(v) \/ RequestFails(v)
          \/ generateUniqueReferralCode(v) \/ InsertUser(v) \/ giveReferralReward(v)
    BY <1>1 DEF VerifyStep
  <2>2. CASE verifyOtp(v) \/ FindOtp(v) \/ MarkVerified(v) \/ FindUser(v) \/ RequestFails(v)
    BY <2>2 DEF verifyOtp, FindOtp, MarkVerified, FindUser, RequestFails
  <2>3. CASE generateUniqueReferralCode(v) \/ InsertUser(v)
    BY <2>3 DEF generateUniqueReferralCode, InsertUser
  <2>4. CASE SaveBonus(v)
    BY <2>4 DEF SaveBonus, GiveToken, End, Idle, At, RewardSteps, TypeInv, TypeOK
  <2>5. CASE FindReferrer(v) \/ ReadSetting(v) \/ Credit(v) \/ RewardFails(v)
    BY <2>5 DEF FindReferrer, ReadSetting, Credit, RewardFails
  <2> QED
    BY <2>1, <2>2, <2>3, <2>4, <2>5 DEF giveReferralReward
<1>2. CASE \E e \in Editors : updateProfile(e)
  BY <1>2 DEF updateProfile, ReadProfile, CheckTaken, LoadProfile, UpdateProfile, EditFails
<1>3. CASE \/ \E p \in Phones : requestOtp(p)
           \/ updateReferralRewardConfig \/ UNCHANGED vars
  BY <1>3 DEF requestOtp, updateReferralRewardConfig, vars
<1> QED
  BY <1>1, <1>2, <1>3 DEF Next

(* The rewards under way and the bonuses paid are of different new users.  *)
AccountsInv == TypeInv /\ RewardsInv /\ CreditsInv

(* What a reward step does to its own request: it keeps the phone and the  *)
(* code, and from the first step on it keeps the referrer.                 *)
LEMMA RewardStepKeeps ==
    ASSUME TypeInv, NEW v \in Verifications, giveReferralReward(v)
    PROVE  /\ verify[v].at \in RewardSteps /\ verify[v] \in Reward
           /\ \/ verify'[v].at = "idle"
              \/ /\ verify'[v].at \in RewardSteps \ {"findReferrer"}
                 /\ verify'[v].phone = verify[v].phone /\ verify'[v].code = verify[v].code
                 /\ \/ verify'[v].referrer \in Owners(verify[v].code)
                    \/ /\ verify[v].at # "findReferrer"
                       /\ verify'[v].referrer = verify[v].referrer
<1>1. verify[v].at \in RewardSteps
  BY DEF giveReferralReward, FindReferrer, ReadSetting, Credit, SaveBonus, RewardFails,
         At, RewardSteps
<1>2. verify[v] \in Reward
  BY <1>1, KindOfRequest DEF TypeInv
<1>3. CASE End(v)
  BY <1>1, <1>2, <1>3 DEF End, Idle, TypeInv, TypeOK
<1>4. CASE FindReferrer(v) /\ ~End(v)
  <2>1. PICK p \in Owners(verify[v].code) :
          verify' = [verify EXCEPT ![v].referrer = p, ![v].at = "readSetting"]
    BY <1>4 DEF FindReferrer, GiveToken
  <2>2. /\ verify'[v].at = "readSetting" /\ verify'[v].referrer = p
        /\ verify'[v].phone = verify[v].phone /\ verify'[v].code = verify[v].code
    BY <1>2, <2>1 DEF TypeInv, TypeOK, Reward
  <2> QED
    BY <1>1, <1>2, <2>2 DEF RewardSteps
<1>5. CASE ReadSetting(v) /\ ~End(v)
  <2>1. verify' = [verify EXCEPT ![v].amount = setting, ![v].at = "credit"]
    BY <1>5 DEF ReadSetting, GiveToken
  <2>2. /\ verify'[v].at = "credit" /\ verify'[v].referrer = verify[v].referrer
        /\ verify'[v].phone = verify[v].phone /\ verify'[v].code = verify[v].code
    BY <1>2, <2>1 DEF TypeInv, TypeOK, Reward
  <2> QED
    BY <1>1, <1>2, <1>5, <2>2 DEF RewardSteps, ReadSetting, At
<1>6. CASE Credit(v) /\ ~End(v)
  <2>1. GoTo(v, "saveBonus") /\ verify[v].at = "credit"
    BY <1>6 DEF Credit, GiveToken, At
  <2>2. /\ verify'[v].at = "saveBonus" /\ verify'[v].referrer = verify[v].referrer
        /\ verify'[v].phone = verify[v].phone /\ verify'[v].code = verify[v].code
    BY <1>2, <2>1 DEF GoTo, TypeInv, TypeOK, Reward
  <2> QED
    BY <1>1, <1>2, <2>1, <2>2 DEF RewardSteps
<1> QED
  BY <1>3, <1>4, <1>5, <1>6 DEF giveReferralReward, SaveBonus, RewardFails, GiveToken

(* Whoever starts to reward has just inserted its user.                    *)
LEMMA RewardsStart ==
    ASSUME TypeInv, [Next]_vars, NEW v \in Verifications,
           verify[v].at \notin RewardSteps, verify'[v].at \in RewardSteps
    PROVE  /\ InsertUser(v) /\ Insertable(v) /\ finalReferralCode(v) # NoCode
           /\ StartReward(v) /\ verify[v] \in Verification
           /\ verify'[v].at = "findReferrer" /\ verify'[v].phone = verify[v].phone
           /\ verify'[v].code = finalReferralCode(v)
<1>1. verifyOtp(v) \/ VerifyStep(v) \/ RequestFails(v)
  BY OnlyItself DEF TypeInv
<1>2. ~End(v)
  BY DEF End, Idle, RewardSteps, TypeInv, TypeOK
<1>3. ~verifyOtp(v) /\ ~RequestFails(v)
  BY <1>2 DEF verifyOtp, RequestFails, RewardSteps, TypeInv, TypeOK
<1>4. ~giveReferralReward(v)
  BY RewardStepKeeps
<1>5. verify[v] \in Verification
  BY <1>1, <1>3, <1>4, KindOfRequest
  DEF VerifyStep, FindOtp, MarkVerified, FindUser, generateUniqueReferralCode, InsertUser, At,
      VerifySteps, TypeInv
<1>6. ~FindOtp(v)
  BY <1>2, <1>5 DEF FindOtp, RewardSteps, TypeInv, TypeOK, Verification
<1>7. ~MarkVerified(v) /\ ~FindUser(v)
  BY <1>2, <1>5 DEF MarkVerified, FindUser, GiveToken, GoTo, RewardSteps, TypeInv, TypeOK,
                    Verification
<1>8. ~generateUniqueReferralCode(v)
  <2> SUFFICES ASSUME generateUniqueReferralCode(v) PROVE FALSE
    OBVIOUS
  <2>1. PICK code \in Codes :
          \/ verify' = [verify EXCEPT ![v].code = code, ![v].at = "insertUser"]
          \/ verify' = [verify EXCEPT ![v].attempts = @ + 1]
          \/ verify' = [verify EXCEPT ![v].code = TooLong, ![v].at = "insertUser"]
    BY DEF generateUniqueReferralCode
  <2>2. verify'[v].at \in {"insertUser", verify[v].at}
    BY <1>5, <2>1 DEF TypeInv, TypeOK, Verification
  <2> QED
    BY <2>2 DEF RewardSteps
<1>9. InsertUser(v) /\ Insertable(v) /\ finalReferralCode(v) # NoCode /\ StartReward(v)
  BY <1>1, <1>2, <1>3, <1>4, <1>6, <1>7, <1>8 DEF VerifyStep, InsertUser, GiveToken
<1>10. /\ verify'[v].at = "findReferrer" /\ verify'[v].phone = verify[v].phone
       /\ verify'[v].code = finalReferralCode(v)
  BY <1>9 DEF StartReward, TypeInv, TypeOK
<1> QED
  BY <1>5, <1>9, <1>10

(* The requests that reward know their new user, one each.                 *)
LEMMA RewardsStep == AccountsInv /\ [Next]_vars => RewardsInv'
<1> SUFFICES ASSUME AccountsInv, [Next]_vars PROVE RewardsInv'
  OBVIOUS
<1> USE DEF AccountsInv
<1>1. ASSUME NEW v \in Verifications, verify'[v].at \in RewardSteps PROVE Rewarding(v)'
  <2>1. CASE verify[v].at \notin RewardSteps
    <3>1. /\ InsertUser(v) /\ Insertable(v) /\ verify[v] \in Verification
          /\ verify'[v].at = "findReferrer" /\ verify'[v].phone = verify[v].phone
          /\ verify'[v].code = finalReferralCode(v)
      BY <1>1, <2>1, RewardsStart
    <3>2. verify[v].phone \in Registered' /\ verify[v].phone \notin Registered
            /\ users'[verify[v].phone].referredBy = finalReferralCode(v)
      BY <3>1, Inserted DEF Registered
    <3>3. Answered(verify[v].phone)
      BY <3>1 DEF TypeInv, OtpRows, OtpRow, Found, Answered, InsertUser, At
    <3>4. Answered(verify[v].phone)'
      <4>1. PICK i \in DOMAIN otps : otps[i].phone = verify[v].phone /\ otps[i].isVerified
        BY <3>3 DEF Answered
      <4>2. i \in DOMAIN otps' /\ otps'[i].phone = verify'[v].phone /\ otps'[i].isVerified
        BY <3>1, <4>1, OtpsGrow
      <4> QED
        BY <4>2 DEF Answered
    <3>5. bonuses' = bonuses
      BY <3>1 DEF InsertUser
    <3>6. \A i \in DOMAIN bonuses : bonuses[i].newUser # verify[v].phone
      BY <3>2 DEF RewardsInv
    <3> QED
      BY <3>1, <3>2, <3>4, <3>5, <3>6 DEF Rewarding, Registered
  <2>2. CASE verify[v].at \in RewardSteps
    <3>1. Rewarding(v)
      BY <2>2 DEF RewardsInv
    <3>2. /\ verify'[v].phone = verify[v].phone /\ verify'[v].code = verify[v].code
          /\ \/ verify'[v].referrer \in Owners(verify[v].code)
             \/ verify'[v].at = "findReferrer"
      <4>1. CASE verify'[v] = verify[v]
        BY <3>1, <4>1 DEF Rewarding
      <4>2. CASE verify'[v] # verify[v]
        <5>1. giveReferralReward(v)
          BY <2>2, <4>2, <1>1, OnlyItself DEF TypeInv, VerifyStep, verifyOtp, RequestFails, FindOtp,
             MarkVerified, FindUser, generateUniqueReferralCode, InsertUser, At, RewardSteps
        <5> QED
          BY <1>1, <3>1, <5>1, RewardStepKeeps DEF Rewarding, RewardSteps
      <4> QED
        BY <4>1, <4>2
    <3>3. verify[v].phone \in Registered' /\ users'[verify[v].phone].referredBy = verify[v].code
      BY <3>1, UsersGrow DEF Rewarding
    <3>4. Answered(verify[v].phone)'
      <4>1. PICK i \in DOMAIN otps : otps[i].phone = verify[v].phone /\ otps[i].isVerified
        BY <3>1 DEF Rewarding, Answered
      <4>2. i \in DOMAIN otps' /\ otps'[i].phone = verify'[v].phone /\ otps'[i].isVerified
        BY <3>2, <4>1, OtpsGrow
      <4> QED
        BY <4>2 DEF Answered
    <3>5. \A i \in DOMAIN bonuses' : bonuses'[i].newUser # verify[v].phone
      <4>1. CASE bonuses' = bonuses
        BY <3>1, <4>1 DEF Rewarding
      <4>2. CASE bonuses' # bonuses
        <5>1. PICK w \in Verifications :
                /\ verify[w].at \in RewardSteps /\ verify'[w].at = "idle"
                /\ bonuses' = Append(bonuses, [user |-> verify[w].referrer,
                                 newUser |-> verify[w].phone, amount |-> verify[w].amount])
          BY <4>2, BonusesGrow
        <5>2. v # w
          BY <1>1, <5>1 DEF RewardSteps
        <5>3. verify[v].phone # verify[w].phone
          BY <2>2, <5>1, <5>2 DEF RewardsInv
        <5> QED
          BY <3>1, <5>1, <5>3 DEF Rewarding, TypeInv, TypeOK
      <4> QED
        BY <4>1, <4>2
    <3>6. verify'[v].referrer \in Owners(verify[v].code)' \/ verify'[v].at = "findReferrer"
      BY <3>2, OwnersGrow DEF Owners
    <3> QED
      BY <3>2, <3>3, <3>4, <3>5, <3>6 DEF Rewarding, Owners, Registered
  <2> QED
    BY <2>1, <2>2
<1>2. ASSUME NEW v \in Verifications, NEW w \in Verifications,
             verify'[v].at \in RewardSteps, verify'[w].at \in RewardSteps,
             verify'[v].phone = verify'[w].phone
      PROVE  v = w
  <2>1. ASSUME NEW x \in Verifications, NEW y \in Verifications, x # y,
               verify[x].at \notin RewardSteps, verify'[x].at \in RewardSteps,
               verify'[y].at \in RewardSteps, verify'[x].phone = verify'[y].phone
        PROVE  FALSE
    <3>1. /\ InsertUser(x) /\ Insertable(x) /\ StartReward(x)
          /\ verify'[x].phone = verify[x].phone
      BY <2>1, RewardsStart
    <3>2. verify'[y] = verify[y]
      BY <2>1, <3>1 DEF StartReward, TypeInv, TypeOK
    <3>3. verify[y].phone \in Registered
      BY <2>1, <3>2 DEF RewardsInv, Rewarding
    <3> QED
      BY <2>1, <3>1, <3>2, <3>3, Inserted
  <2>2. CASE verify[v].at \in RewardSteps /\ verify[w].at \in RewardSteps
    <3>1. ASSUME NEW x \in Verifications, verify[x].at \in RewardSteps,
                 verify'[x].at \in RewardSteps
          PROVE  verify'[x].phone = verify[x].phone
      <4>1. CASE verify'[x] # verify[x]
        <5>1. giveReferralReward(x)
          BY <3>1, <4>1, OnlyItself DEF TypeInv, VerifyStep, verifyOtp, RequestFails, FindOtp,
             MarkVerified, FindUser, generateUniqueReferralCode, InsertUser, At, RewardSteps
        <5> QED
          BY <3>1, <5>1, RewardStepKeeps DEF RewardSteps
      <4> QED
        BY <4>1
    <3> QED
      BY <1>2, <2>2, <3>1 DEF RewardsInv
  <2> QED
    BY <1>2, <2>1, <2>2
<1>3. ASSUME NEW i \in DOMAIN bonuses' PROVE bonuses'[i].newUser \in Registered'
  <2>1. CASE bonuses' = bonuses
    BY <1>3, <2>1, UsersGrow DEF RewardsInv
  <2>2. CASE bonuses' # bonuses
    <3>1. PICK v \in Verifications :
            /\ verify[v].at \in RewardSteps
            /\ bonuses' = Append(bonuses, [user |-> verify[v].referrer,
                             newUser |-> verify[v].phone, amount |-> verify[v].amount])
      BY <2>2, BonusesGrow
    <3>2. verify[v].phone \in Registered'
      BY <3>1, UsersGrow DEF RewardsInv, Rewarding
    <3>3. \A j \in DOMAIN bonuses : bonuses[j].newUser \in Registered'
      BY UsersGrow DEF RewardsInv
    <3> QED
      BY <1>3, <3>1, <3>2, <3>3 DEF TypeInv, TypeOK
  <2> QED
    BY <2>1, <2>2
<1> QED
  BY <1>1, <1>2, <1>3 DEF RewardsInv

-----------------------------------------------------------------------------
(***************************************************************************)
(* Credits                                                                 *)
(***************************************************************************)

(* Only the UPDATE of a reward under way credits, and its own new user.    *)
LEMMA CreditsChange ==
    ASSUME TypeInv, [Next]_vars, credits' # credits
    PROVE  \E v \in Verifications : Credit(v)
<1>1. CASE \E v \in Verifications : verifyOtp(v) \/ VerifyStep(v) \/ RequestFails(v)
  <2>1. PICK v \in Verifications :
          \/ verifyOtp(v) \/ FindOtp(v) \/ MarkVerified(v) \/ FindUser(v) \/ RequestFails(v)
          \/ generateUniqueReferralCode(v) \/ InsertUser(v) \/ giveReferralReward(v)
    BY <1>1 DEF VerifyStep
  <2>2. CASE verifyOtp(v) \/ FindOtp(v) \/ MarkVerified(v) \/ FindUser(v) \/ RequestFails(v)
    BY <2>2 DEF verifyOtp, FindOtp, MarkVerified, FindUser, RequestFails
  <2>3. CASE generateUniqueReferralCode(v) \/ InsertUser(v)
    BY <2>3 DEF generateUniqueReferralCode, InsertUser
  <2>4. CASE FindReferrer(v) \/ ReadSetting(v) \/ SaveBonus(v) \/ RewardFails(v)
    BY <2>4 DEF FindReferrer, ReadSetting, SaveBonus, RewardFails
  <2> QED
    BY <2>1, <2>2, <2>3, <2>4 DEF giveReferralReward
<1>2. CASE \E e \in Editors : updateProfile(e)
  BY <1>2 DEF updateProfile, ReadProfile, CheckTaken, LoadProfile, UpdateProfile, EditFails
<1>3. CASE \/ \E p \in Phones : requestOtp(p)
           \/ updateReferralRewardConfig \/ UNCHANGED vars
  BY <1>3 DEF requestOtp, updateReferralRewardConfig, vars
<1> QED
  BY <1>1, <1>2, <1>3 DEF Next

(* What that step does.                                                    *)
LEMMA CreditOfOne ==
    ASSUME TypeInv, NEW v \in Verifications, Credit(v)
    PROVE  /\ verify[v].at = "credit" /\ verify[v] \in Reward
           /\ verify'[v].at = "saveBonus" /\ verify'[v].phone = verify[v].phone
           /\ \A w \in Verifications \ {v} : verify'[w] = verify[w]
           /\ credits'[verify[v].phone] = credits[verify[v].phone] + 1
           /\ \A p \in Phones \ {verify[v].phone} : credits'[p] = credits[p]
           /\ bonuses' = bonuses
<1>1. verify[v].at = "credit" /\ verify[v] \in Reward
  BY KindOfRequest DEF Credit, At, RewardSteps, TypeInv
<1>2. /\ verify'[v].at = "saveBonus" /\ verify'[v].phone = verify[v].phone
      /\ \A w \in Verifications \ {v} : verify'[w] = verify[w]
  BY <1>1 DEF Credit, GoTo, Reward, TypeInv, TypeOK
<1>3. verify[v].phone \in Phones
  BY <1>1 DEF Reward
<1>4. /\ credits'[verify[v].phone] = credits[verify[v].phone] + 1
      /\ \A p \in Phones \ {verify[v].phone} : credits'[p] = credits[p]
      /\ bonuses' = bonuses
  BY <1>3 DEF Credit, Credited, TypeInv, TypeOK
<1> QED
  BY <1>1, <1>2, <1>4

(* A reward that goes on without a credit is still before its UPDATE, or   *)
(* was past it already.                                                    *)
LEMMA RewardGoesOn ==
    ASSUME TypeInv, [Next]_vars, credits' = credits, NEW v \in Verifications,
           verify[v].at \in RewardSteps, verify'[v].at \in RewardSteps
    PROVE  /\ verify'[v].phone = verify[v].phone
           /\ verify'[v].at = "saveBonus" <=> verify[v].at = "saveBonus"
<1>1. CASE verify'[v] = verify[v]
  BY <1>1
<1>2. CASE verify'[v] # verify[v]
  <2>1. giveReferralReward(v)
    BY <1>2, OnlyItself DEF TypeInv, VerifyStep, verifyOtp, RequestFails, FindOtp,
       MarkVerified, FindUser, generateUniqueReferralCode, InsertUser, At, RewardSteps
  <2>2. verify'[v].phone = verify[v].phone /\ verify[v] \in Reward
    BY <2>1, RewardStepKeeps DEF RewardSteps
  <2>3. ~End(v)
    BY DEF End, Idle, RewardSteps, TypeInv, TypeOK
  <2>4. CASE FindReferrer(v)
    <3>1. PICK p : verify' = [verify EXCEPT ![v].referrer = p, ![v].at = "readSetting"]
      BY <2>3, <2>4 DEF FindReferrer, GiveToken
    <3>2. verify'[v].at = "readSetting"
      BY <2>2, <3>1 DEF TypeInv, TypeOK, Reward
    <3> QED
      BY <2>2, <2>4, <3>2 DEF FindReferrer, At
  <2>5. CASE ReadSetting(v)
    <3>1. verify' = [verify EXCEPT ![v].amount = setting, ![v].at = "credit"]
      BY <2>3, <2>5 DEF ReadSetting, GiveToken
    <3>2. verify'[v].at = "credit"
      BY <2>2, <3>1 DEF TypeInv, TypeOK, Reward
    <3> QED
      BY <2>2, <2>5, <3>2 DEF ReadSetting, At
  <2>6. ~Credit(v)
    <3> SUFFICES ASSUME Credit(v) PROVE FALSE
      OBVIOUS
    <3>1. credits[verify[v].phone] \in Nat
      BY <2>2 DEF Reward, TypeInv, TypeOK
    <3> QED
      BY <3>1, CreditOfOne
  <2>7. ~SaveBonus(v) /\ ~RewardFails(v)
    BY <2>3 DEF SaveBonus, RewardFails, GiveToken
  <2> QED
    BY <2>1, <2>4, <2>5, <2>6, <2>7 DEF giveReferralReward
<1> QED
  BY <1>1, <1>2

(* A request knows whether its new user's referrer has been credited.      *)
LEMMA CreditsStep == AccountsInv /\ [Next]_vars => CreditsInv'
<1> SUFFICES ASSUME AccountsInv, [Next]_vars PROVE CreditsInv'
  OBVIOUS
<1> USE DEF AccountsInv
<1>1. CASE credits' = credits
  <2>1. ASSUME NEW v \in Verifications PROVE CreditsUnderWay(v)'
    <3>1. CASE verify'[v].at \notin RewardSteps
      BY <3>1 DEF CreditsUnderWay, RewardSteps
    <3>2. CASE verify[v].at \in RewardSteps /\ verify'[v].at \in RewardSteps
      BY <1>1, <3>2, RewardGoesOn DEF CreditsInv, CreditsUnderWay
    <3>3. CASE verify[v].at \notin RewardSteps /\ verify'[v].at \in RewardSteps
      <4>1. /\ verify'[v].at = "findReferrer" /\ verify'[v].phone = verify[v].phone
            /\ verify[v].phone \in Phones \ Registered
        BY <3>3, RewardsStart, Inserted
      <4> QED
        BY <1>1, <4>1 DEF CreditsInv, CreditsUnderWay
    <3> QED
      BY <3>1, <3>2, <3>3
  <2>2. \A p \in Phones \ Registered' : credits'[p] = 0
    BY <1>1, UsersGrow DEF CreditsInv
  <2> QED
    BY <2>1, <2>2 DEF CreditsInv
<1>2. ASSUME NEW w \in Verifications, Credit(w) PROVE CreditsInv'
  <2>1. /\ verify[w].at = "credit" /\ verify[w].phone \in Registered
        /\ verify'[w].at = "saveBonus" /\ verify'[w].phone = verify[w].phone
        /\ \A v \in Verifications \ {w} : verify'[v] = verify[v]
        /\ credits'[verify[w].phone] = 1
        /\ \A p \in Phones \ {verify[w].phone} : credits'[p] = credits[p]
    BY <1>2, CreditOfOne DEF CreditsInv, CreditsUnderWay, RewardsInv, Rewarding, RewardSteps
  <2>2. ASSUME NEW v \in Verifications PROVE CreditsUnderWay(v)'
    <3>1. CASE v = w
      BY <2>1, <3>1 DEF CreditsUnderWay
    <3>2. CASE v # w /\ verify[v].at \in RewardSteps
      <4>1. verify[v].phone # verify[w].phone /\ verify[v].phone \in Phones
        BY <2>1, <3>2 DEF RewardsInv, Rewarding, Registered, RewardSteps
      <4> QED
        BY <2>1, <3>2, <4>1 DEF CreditsInv, CreditsUnderWay
    <3>3. CASE v # w /\ verify[v].at \notin RewardSteps
      BY <2>1, <3>3 DEF CreditsUnderWay, RewardSteps
    <3> QED
      BY <3>1, <3>2, <3>3
  <2>3. \A p \in Phones \ Registered' : credits'[p] = 0
    BY <2>1, UsersGrow DEF CreditsInv
  <2> QED
    BY <2>2, <2>3 DEF CreditsInv
<1> QED
  BY <1>1, <1>2, CreditsChange

-----------------------------------------------------------------------------
(***************************************************************************)
(* Tokens and bonuses                                                      *)
(***************************************************************************)

(* A token is given to a registered user who has answered an OTP.          *)
LEMMA TokensAreEarned ==
    ASSUME AccountsInv, [Next]_vars, tokens' # tokens
    PROVE  \E v \in Verifications :
              /\ tokens' = tokens \cup {verify[v].phone}
              /\ verify[v].phone \in Registered' /\ Answered(verify[v].phone)
<1> USE DEF AccountsInv
<1>1. CASE \E v \in Verifications : verifyOtp(v) \/ VerifyStep(v) \/ RequestFails(v)
  <2>1. PICK v \in Verifications :
          \/ verifyOtp(v) \/ FindOtp(v) \/ MarkVerified(v) \/ FindUser(v) \/ RequestFails(v)
          \/ generateUniqueReferralCode(v) \/ InsertUser(v) \/ giveReferralReward(v)
    BY <1>1 DEF VerifyStep
  <2>2. CASE FindUser(v)
    <3>1. GiveToken(v) /\ verify[v].phone \in Registered
      BY <2>2 DEF FindUser
    <3>2. verify[v].phone \in Registered'
      BY <3>1, UsersGrow
    <3>3. Answered(verify[v].phone)
      BY <2>2 DEF FindUser, At, TypeInv, OtpRows, OtpRow, Found, Answered
    <3> QED
      BY <3>1, <3>2, <3>3 DEF GiveToken
  <2>3. CASE InsertUser(v)
    <3>1. GiveToken(v) /\ Insertable(v)
      BY <2>3 DEF InsertUser
    <3>2. verify[v].phone \in Registered'
      BY <2>3, <3>1, Inserted DEF Registered
    <3>3. Answered(verify[v].phone)
      BY <2>3 DEF InsertUser, At, TypeInv, OtpRows, OtpRow, Found, Answered
    <3> QED
      BY <3>1, <3>2, <3>3 DEF GiveToken
  <2>4. CASE giveReferralReward(v)
    <3>1. GiveToken(v)
      <4>1. CASE FindReferrer(v) \/ ReadSetting(v) \/ Credit(v)
        BY <4>1 DEF FindReferrer, ReadSetting, Credit
      <4>2. CASE SaveBonus(v) \/ RewardFails(v)
        BY <4>2 DEF SaveBonus, RewardFails
      <4> QED
        BY <2>4, <4>1, <4>2 DEF giveReferralReward
    <3>2. verify[v].phone \in Registered /\ Answered(verify[v].phone)
      BY <2>4, RewardStepKeeps DEF RewardsInv, Rewarding
    <3>3. verify[v].phone \in Registered'
      BY <3>2, UsersGrow
    <3> QED
      BY <3>1, <3>2, <3>3 DEF GiveToken
  <2>5. CASE verifyOtp(v) \/ FindOtp(v) \/ MarkVerified(v) \/ RequestFails(v)
                \/ generateUniqueReferralCode(v)
    BY <2>5 DEF verifyOtp, FindOtp, MarkVerified, RequestFails, generateUniqueReferralCode
  <2> QED
    BY <2>1, <2>2, <2>3, <2>4, <2>5
<1>2. CASE \E e \in Editors : updateProfile(e)
  BY <1>2 DEF updateProfile, ReadProfile, CheckTaken, LoadProfile, UpdateProfile, EditFails
<1>3. CASE \/ \E p \in Phones : requestOtp(p)
           \/ updateReferralRewardConfig \/ UNCHANGED vars
  BY <1>3 DEF requestOtp, updateReferralRewardConfig, vars
<1> QED
  BY <1>1, <1>2, <1>3 DEF Next

(* The token of a step is for its own phone.                               *)
LEMMA TokensStep ==
    ASSUME AccountsInv, TokensNeedAnOtp, [Next]_vars
    PROVE  TokensNeedAnOtp'
<1> SUFFICES ASSUME NEW p \in tokens' PROVE p \in Registered' /\ Answered(p)'
  BY DEF TokensNeedAnOtp, Answered
<1>1. CASE p \in tokens
  BY <1>1, UsersGrow, AnsweredGrows DEF AccountsInv, TokensNeedAnOtp, Answered
<1>2. CASE p \notin tokens
  <2>1. PICK v \in Verifications :
          /\ tokens' = tokens \cup {verify[v].phone}
          /\ verify[v].phone \in Registered' /\ Answered(verify[v].phone)
    BY <1>2, TokensAreEarned
  <2>2. p = verify[v].phone
    BY <1>2, <2>1
  <2>3. Answered(p)
    BY <2>1, <2>2
  <2> QED
    BY <2>1, <2>2, <2>3, AnsweredGrows DEF AccountsInv
<1> QED
  BY <1>1, <1>2

(* The bonus of a step is the first of its new user.                       *)
LEMMA BonusesStep ==
    ASSUME AccountsInv, OneBonusForEachReferral, [Next]_vars
    PROVE  OneBonusForEachReferral'
<1> USE DEF AccountsInv
<1>1. ASSUME NEW i \in DOMAIN bonuses
      PROVE  /\ bonuses[i].user \in Registered'
             /\ users'[bonuses[i].user].code = users'[bonuses[i].newUser].referredBy
  <2>1. users'[bonuses[i].newUser].referredBy = users[bonuses[i].newUser].referredBy
    BY UsersGrow DEF RewardsInv
  <2>2. bonuses[i].user \in Owners(users[bonuses[i].newUser].referredBy)
    BY DEF OneBonusForEachReferral
  <2> QED
    BY <2>1, <2>2, OwnersGrow
<1>2. CASE bonuses' = bonuses
  BY <1>1, <1>2 DEF OneBonusForEachReferral, Owners
<1>3. CASE bonuses' # bonuses
  <2>1. PICK v \in Verifications :
          /\ SaveBonus(v) /\ verify[v].at \in RewardSteps
          /\ bonuses' = Append(bonuses, [user |-> verify[v].referrer,
                           newUser |-> verify[v].phone, amount |-> verify[v].amount])
    BY <1>3, BonusesGrow
  <2>2. /\ verify[v].phone \in Registered
        /\ users[verify[v].phone].referredBy = verify[v].code
        /\ \A i \in DOMAIN bonuses : bonuses[i].newUser # verify[v].phone
        /\ verify[v].referrer \in Owners(verify[v].code)
    BY <2>1 DEF RewardsInv, Rewarding, SaveBonus, At
  <2>3. users'[verify[v].phone].referredBy = verify[v].code
            /\ verify[v].referrer \in Registered'
            /\ users'[verify[v].referrer].code = verify[v].code
    BY <2>2, UsersGrow, OwnersGrow
  <2>4. /\ DOMAIN bonuses' = 1..(Len(bonuses) + 1) /\ DOMAIN bonuses = 1..Len(bonuses)
        /\ Len(bonuses) \in Nat
        /\ \A i \in DOMAIN bonuses : bonuses'[i] = bonuses[i]
        /\ bonuses'[Len(bonuses) + 1].user = verify[v].referrer
        /\ bonuses'[Len(bonuses) + 1].newUser = verify[v].phone
    BY <2>1 DEF TypeInv, TypeOK
  <2>5. ASSUME NEW i \in DOMAIN bonuses'
        PROVE  /\ bonuses'[i].user \in Registered'
               /\ users'[bonuses'[i].user].code = users'[bonuses'[i].newUser].referredBy
    <3>1. CASE i \in DOMAIN bonuses
      BY <1>1, <2>4, <3>1
    <3>2. CASE i = Len(bonuses) + 1
      BY <2>3, <2>4, <3>2
    <3> QED
      BY <2>4, <2>5, <3>1, <3>2
  <2>6. ASSUME NEW i \in DOMAIN bonuses', NEW j \in DOMAIN bonuses',
               bonuses'[i].newUser = bonuses'[j].newUser
        PROVE  i = j
    <3>1. CASE i \in DOMAIN bonuses /\ j \in DOMAIN bonuses
      BY <2>4, <2>6, <3>1 DEF OneBonusForEachReferral
    <3>2. CASE i \in DOMAIN bonuses /\ j = Len(bonuses) + 1
      BY <2>2, <2>4, <2>6, <3>2
    <3>3. CASE i = Len(bonuses) + 1 /\ j \in DOMAIN bonuses
      BY <2>2, <2>4, <2>6, <3>3
    <3> QED
      BY <2>4, <2>6, <3>1, <3>2, <3>3
  <2> QED
    BY <2>5, <2>6 DEF OneBonusForEachReferral, Owners
<1> QED
  BY <1>2, <1>3

(* The second credit of a new user would need a second reward under way,   *)
(* and a bonus is booked by a request that is past its UPDATE.             *)
LEMMA CreditedOnceStep ==
    ASSUME AccountsInv, EveryBonusIsCreditedOnce, [Next]_vars
    PROVE  EveryBonusIsCreditedOnce'
<1> USE DEF AccountsInv
<1>1. CASE credits' = credits /\ bonuses' = bonuses
  BY <1>1 DEF EveryBonusIsCreditedOnce
<1>2. ASSUME NEW v \in Verifications, Credit(v) PROVE EveryBonusIsCreditedOnce'
  <2>1. credits[verify[v].phone] = 0
    BY <1>2 DEF CreditsInv, CreditsUnderWay, Credit, At, RewardSteps
  <2>2. /\ credits'[verify[v].phone] = 1 /\ bonuses' = bonuses
        /\ \A p \in Phones \ {verify[v].phone} : credits'[p] = credits[p]
    BY <1>2, <2>1, CreditOfOne
  <2>3. \A i \in DOMAIN bonuses : bonuses[i].newUser \in Phones
    BY DEF RewardsInv, Registered
  <2> QED
    BY <2>1, <2>2, <2>3 DEF EveryBonusIsCreditedOnce
<1>3. CASE bonuses' # bonuses
  <2>1. PICK v \in Verifications :
          /\ SaveBonus(v)
          /\ bonuses' = Append(bonuses, [user |-> verify[v].referrer,
                           newUser |-> verify[v].phone, amount |-> verify[v].amount])
    BY <1>3, BonusesGrow
  <2>2. credits' = credits /\ credits[verify[v].phone] = 1
    BY <2>1 DEF SaveBonus, At, CreditsInv, CreditsUnderWay
  <2> QED
    BY <2>1, <2>2 DEF EveryBonusIsCreditedOnce, TypeInv, TypeOK
<1> QED
  BY <1>1, <1>2, <1>3, CreditsChange

-----------------------------------------------------------------------------
(***************************************************************************)
(* The theorems                                                            *)
(***************************************************************************)
IInv ==
    AccountsInv /\ TokensNeedAnOtp /\ OneBonusForEachReferral /\ EveryBonusIsCreditedOnce

(* The whole invariant: at the start, over a step, and always.             *)
LEMMA InitInv == Init => IInv
<1> SUFFICES ASSUME Init PROVE IInv
  OBVIOUS
<1>1. TypeOK
  <2>1. NoUser \in User
    BY DEF NoUser, User, NoCode, NoName
  <2> QED
    BY <2>1, AccountsBounds DEF Init, TypeOK
<1>2. OtpRows /\ EditNames
  BY DEF Init, OtpRows, OtpRow, EditNames, Idle
<1>3. CreditsInv
  BY DEF Init, CreditsInv, CreditsUnderWay, RewardSteps, Idle
<1>4. RewardsInv
  BY DEF Init, RewardsInv, RewardSteps, Idle
<1>5. TokensNeedAnOtp /\ OneBonusForEachReferral
  BY DEF Init, TokensNeedAnOtp, OneBonusForEachReferral
<1>6. EveryBonusIsCreditedOnce
  BY DEF Init, EveryBonusIsCreditedOnce
<1> QED
  BY <1>1, <1>2, <1>3, <1>4, <1>5, <1>6 DEF IInv, AccountsInv, TypeInv

LEMMA InvStep == IInv /\ [Next]_vars => IInv'
  BY TypeInvariant, RewardsStep, CreditsStep, TokensStep, BonusesStep, CreditedOnceStep
  DEF IInv, AccountsInv

LEMMA Invariance == Spec => []IInv
  BY InitInv, InvStep, PTL DEF Spec

(* The types, and with them the bound on the codes a verification tries:   *)
(* after the tenth collision the loop of generateUniqueReferralCode ends.  *)
THEOREM TypeCorrect == Spec => []TypeOK
<1>1. IInv => TypeOK
  BY DEF IInv, AccountsInv, TypeInv
<1> QED
  BY <1>1, Invariance, PTL

(* verifyOtp gives no token to a phone without a user, nor to one that has *)
(* never sent the code of an OTP back, however its requests interleave.    *)
THEOREM TokensAreForOtps == Spec => []TokensNeedAnOtp
<1>1. IInv => TokensNeedAnOtp
  BY DEF IInv
<1> QED
  BY <1>1, Invariance, PTL

(* giveReferralReward saves one bonus at most for a new user, and for the  *)
(* user whose code came with it, though no transaction and no unique key   *)
(* guards it: the unique phone of users lets one INSERT through.           *)
THEOREM BonusesAreForReferrals == Spec => []OneBonusForEachReferral
<1>1. IInv => OneBonusForEachReferral
  BY DEF IInv
<1> QED
  BY <1>1, Invariance, PTL

(* The UPDATE of the referrer's balance in giveReferralReward is made once *)
(* at most for a new user, and before the bonus is booked, wherever a call *)
(* fails and however many verifications of the phone are under way.        *)
THEOREM CreditsAreForReferrals == Spec => []EveryBonusIsCreditedOnce
<1>1. IInv => EveryBonusIsCreditedOnce
  BY DEF IInv
<1> QED
  BY <1>1, Invariance, PTL

=============================================================================
