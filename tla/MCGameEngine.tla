---------------------------- MODULE MCGameEngine ----------------------------
(* Small instances of GameEngine for TLC, and the operators of BingoCards  *)
(* against reference definitions.                                          *)
EXTENDS GameEngine, TLC

CONSTANTS u1, u2, c1, c2

\* One card with two lines, each with an empty cell.
LineCard == c1 :> <<<<1, 0>>, <<0, 2>>>>

\* Two equal cards of one line, completed by one number.
TwinCards == [c \in {c1, c2} |-> <<<<2, 0>>>>]

UserSymmetry == Permutations({u1, u2})
TwinSymmetry == UserSymmetry \cup Permutations({c1, c2})

-----------------------------------------------------------------------------
Matrices == [1..2 -> [1..2 -> Numbers \cup {0}]]

\* For every set of numbers a room has drawn and every card of two by two.
CompletionIsByNumbers ==
    \A r \in Rooms, m \in Matrices : CompletedByNumbers(m, Drawn(r))

Deck == <<"A", "B", "C">>
Later == UNION {[1..n -> [user : {"v", "w"}, cardCount : 1..4]] : n \in 0..2}

\* Whatever a room's reservations are and will be, the cards are dealt in the
\* order of the reservations, to the last card of the deck.
DealtInOrderOfReservation ==
    \A r \in Rooms, later \in Later : DealtInOrder(reservations[r] \o later, Deck)
=============================================================================
