------------------------------- MODULE Ledger -------------------------------
(***************************************************************************)
(* What a wallet promises: money moves only together with a row of         *)
(* wallet_transactions, and a pending withdrawal is settled once, for      *)
(* good: confirmed with no further effect, or failed and paid back.        *)
(***************************************************************************)
EXTENDS Integers, FiniteSets, FiniteSetsExt

CONSTANTS Users, Amounts, Ids

VARIABLES balance,   \* what users.walletBalance shows
          rows       \* wallet_transactions

TransactionType == {"charge", "withdraw", "card_purchase", "wheel_spin", "referral_bonus"}
TransactionStatus == {"pending", "confirmed", "failed"}

\* A withdrawal carries a negative amount, everything else a positive one.
WalletTransaction ==
    {t \in [id : Ids, user : Users, amount : Amounts \cup {-a : a \in Amounts},
            type : TransactionType, status : TransactionStatus] :
        t.type = "withdraw" <=> t.amount < 0}

\* What a row has moved so far.
Effect(t) ==
    CASE t.type = "withdraw" -> IF t.status = "failed" THEN 0 ELSE t.amount
      [] t.type = "card_purchase" -> -t.amount
      [] OTHER -> t.amount

Init == balance = [u \in Users |-> 0] /\ rows = {}

Post ==
    \E t \in WalletTransaction :
        /\ \A other \in rows : other.id # t.id
        /\ t.status = (IF t.type = "withdraw" THEN "pending" ELSE "confirmed")
        /\ rows' = rows \cup {t}
        /\ balance' = [balance EXCEPT ![t.user] = @ + Effect(t)]

Settle ==
    \E t \in rows, status \in {"confirmed", "failed"} :
        LET settled == [t EXCEPT !.status = status]
        IN  /\ t.type = "withdraw" /\ t.status = "pending"
            /\ rows' = (rows \ {t}) \cup {settled}
            /\ balance' = [balance EXCEPT ![t.user] = @ + Effect(settled) - Effect(t)]

Next == Post \/ Settle
vars == <<balance, rows>>
Spec == Init /\ [][Next]_vars

=============================================================================
