----------------------------- MODULE BingoCards -----------------------------
(***************************************************************************)
(* The pure part of the game: when a card wins (RoomsService), how the     *)
(* shuffled deck is dealt over the reservations and what each player is    *)
(* charged (AutoTimerService).                                             *)
(*                                                                         *)
(* A reservation is [user, cardCount]; the deck is a shuffle of all cards; *)
(* a held card is a pair <<user, card>>, a row of user_reserved_cards.     *)
(***************************************************************************)
EXTENDS Integers, Sequences, FiniteSets

Seqs == INSTANCE SequencesExt

CONSTANTS
    Cards,     \* the rows of table cards; the seeds fill it, and it may be empty
    Matrix,    \* the numbers on a card, row by row; 0 is an empty cell
    EntryFee   \* game_rooms.entryFee, copied into every reservation

ASSUME CardsAssumption == IsFiniteSet(Cards)
ASSUME MatrixAssumption == Matrix \in [Cards -> Seq(Seq(Nat))]
ASSUME EntryFeeAssumption == EntryFee \in Nat

(***************************************************************************)
(* Winning.  Empty cells never stand in the way of a line or a full card.  *)
(***************************************************************************)
\* Mutant: a cell that is not filled can never be covered.
Covered_Strict(row, drawn) == \A j \in DOMAIN row : row[j] \in drawn

Covered(row, drawn) == \A j \in DOMAIN row : row[j] <= 0 \/ row[j] \in drawn

isLineComplete(matrix, drawn) == \E i \in DOMAIN matrix : Covered(matrix[i], drawn)

isCardComplete(matrix, drawn) == \A i \in DOMAIN matrix : Covered(matrix[i], drawn)

LineCards(held, drawn) == {h \in held : isLineComplete(Matrix[h[2]], drawn)}

FullCards(held, drawn) == {h \in held : isCardComplete(Matrix[h[2]], drawn)}

\* A user wins with one card, the first of theirs in the order the query
\* happens to return: the possible sets of winner rows for the winning cards.
OnePerUser(hits) ==
    {w \in SUBSET hits :
        /\ \A h \in hits : \E k \in w : k[1] = h[1]
        /\ \A h, k \in w : h[1] = k[1] => h = k}

(***************************************************************************)
(* Dealing.  cardIndex advances by what each reservation really received,  *)
(* so a short deck leaves the last reservations with fewer cards or none.  *)
(***************************************************************************)
Smaller(a, b) == IF a < b THEN a ELSE b

CardIndex(rs, deckSize) ==
    LET index[i \in 0..Len(rs)] ==
            IF i = 0 THEN 0
            ELSE index[i-1] + Smaller(rs[i].cardCount, deckSize - index[i-1])
    IN  index

Reorderings(S) == {p \in [S -> S] : \A j \in S : \E i \in S : p[i] = j}

\* The SELECT of the reservations has no ORDER BY: the rows in any order.
Orders(rs) == {[i \in DOMAIN rs |-> rs[p[i]]] : p \in Reorderings(DOMAIN rs)}

Shuffles == {d \in [1..Cardinality(Cards) -> Cards] :
                \A c \in Cards : \E k \in DOMAIN d : d[k] = c}

\* Mutant: every reservation is served from the top of the deck.
Dealt_FromTheTop(rs, deck) ==
    UNION {{<<rs[i].user, deck[k]>> : k \in 1..Smaller(rs[i].cardCount, Len(deck))} :
            i \in DOMAIN rs}

\* Mutant: the loop over the reservations ends with the first.
Dealt_ToTheFirst(rs, deck) ==
    {<<rs[i].user, deck[k]>> : i \in DOMAIN rs \cap {1}, k \in 1..Smaller(rs[1].cardCount, Len(deck))}

\* Without any card the deck is empty and nothing is dealt.
Dealt(rs, deck) ==
    LET index == CardIndex(rs, Len(deck))
        slice(i) == {k \in DOMAIN deck : index[i-1] < k /\ k <= index[i]}
    IN  UNION {{<<rs[i].user, deck[k]>> : k \in slice(i)} : i \in DOMAIN rs}

(***************************************************************************)
(* Charging.  One CARD_PURCHASE per user: the entry fee once for each of   *)
(* the user's reservations in the room.                                    *)
(***************************************************************************)
Buyers(rs) == {rs[i].user : i \in DOMAIN rs}

PurchaseAmount(rs, u) ==
    EntryFee * Cardinality({i \in DOMAIN rs : rs[i].user = u})

(***************************************************************************)
(* What winning and dealing are meant to be.                               *)
(***************************************************************************)
RowNumbers(row) == {row[j] : j \in DOMAIN row} \ {0}

\* A line is complete when all numbers of some row are drawn, and the card when
\* all its numbers are; empty cells count for neither (rooms.service.ts:40,46).
CompletedByNumbers(matrix, drawn) ==
    /\ isLineComplete(matrix, drawn) <=>
        \E i \in DOMAIN matrix : RowNumbers(matrix[i]) \subseteq drawn
    /\ isCardComplete(matrix, drawn) <=>
        UNION {RowNumbers(matrix[i]) : i \in DOMAIN matrix} \subseteq drawn

\* A user has a card, or there is none left to have.
Served(u, cards) ==
    (\E h \in cards : h[1] = u) \/ Cards = {h[2] : h \in cards}

\* Who has asked for the first card, the second, ...
Wanted(rs) == Seqs!FlattenSeq([i \in DOMAIN rs |-> [k \in 1..rs[i].cardCount |-> rs[i].user]])

\* The k-th card of the deck goes to the k-th card asked for; what exceeds the
\* deck is not served (distributeCardsToUsers).
DealtInOrder(rs, deck) ==
    Dealt(rs, deck) =
        {<<Wanted(rs)[k], deck[k]>> : k \in DOMAIN Wanted(rs) \cap DOMAIN deck}

=============================================================================
