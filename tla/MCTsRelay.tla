----------------------------- MODULE MCTsRelay -----------------------------
(* Small instances of TsRelay for TLC.                                      *)
EXTENDS TsRelay, TLC

CONSTANTS e1, e2, e3, d1, d2, r1, r2

\* e1 and e2 were inserted in the same millisecond, e3 later.
MCCreatedAt == [e \in Event |-> IF e = e3 THEN 2 ELSE 1]

\* Replicas are interchangeable.
ReplicaSymmetry == Permutations(Relay)
=============================================================================
