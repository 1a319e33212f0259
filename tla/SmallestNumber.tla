----------------------------- MODULE SmallestNumber -----------------------------
(***************************************************************************)
(* A set of natural numbers that is not empty has a smallest one: the      *)
(* first room a sync has to wait for, the next room id, the smallest set   *)
(* of rows a law of sums would fail for.  A module of its own, because the *)
(* library's theorem on < is stated with an operator as an argument.       *)
(***************************************************************************)
EXTENDS Integers, WellFoundedInduction, TLAPS

Less == {p \in Nat \X Nat : p[1] < p[2]}

LEMMA LessIsWellFounded == IsWellFoundedOn(Less, Nat)
  BY NatLessThanWellFounded DEF OpToRel, Less

LEMMA SmallestExists ==
  ASSUME NEW S \in SUBSET Nat, S # {}
  PROVE  \E m \in S : \A n \in S : m <= n
<1>1. \E m \in S : \A n \in S : <<n, m>> \notin Less
  BY LessIsWellFounded, WFMin
<1>2. PICK m \in S : \A n \in S : <<n, m>> \notin Less
  BY <1>1
<1>3. ASSUME NEW n \in S PROVE m <= n
  <2>1. m \in Nat /\ n \in Nat
    OBVIOUS
  <2>2. ~ (n < m)
    BY <1>2, <2>1 DEF Less
  <2> QED
    BY <2>1, <2>2
<1> QED
  BY <1>3

=============================================================================
