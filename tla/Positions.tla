------------------------------ MODULE Positions ------------------------------
(***************************************************************************)
(* Choosing members of a sequence: filter() of JavaScript, told by         *)
(* positions so that it can be reasoned about.                             *)
(***************************************************************************)
EXTENDS Naturals, FiniteSets, Sequences

\* The positions in a finite set, in their order.
InOrder(positions) ==
    [n \in 1..Cardinality(positions) |->
        CHOOSE i \in positions : Cardinality({j \in positions : j <= i}) = n]

\* The members of s at the given positions, in their order.
AtPositions(s, positions) ==
    [n \in DOMAIN InOrder(positions) |-> s[InOrder(positions)[n]]]
=============================================================================
