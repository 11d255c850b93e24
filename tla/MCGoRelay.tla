----------------------------- MODULE MCGoRelay -----------------------------
(* Small instances of GoRelay for TLC.                                      *)
EXTENDS GoRelay, TLC

CONSTANTS e1, e2, e3, d1, d2, r1, r2

\* e1 and e2 were inserted at the same instant, e3 later.
MCCreatedAt == [e \in Event |-> IF e = e3 THEN 2 ELSE 1]

\* Both destinations, and the single one.
TwoDestinations == <<d1, d2>>
OneDestination == <<d1>>

\* Replicas are interchangeable.
ReplicaSymmetry == Permutations(Relay)
=============================================================================
