----------------------------- MODULE SearchTree -----------------------------
(***************************************************************************)
(* The search tree both query dialects produce and the service turns into  *)
(* SQL: filter conditions, the {$and/$or/field} nodes around them, and     *)
(* which rows the WHERE clause built from a node keeps.                    *)
(*                                                                         *)
(* A value is a member of Val or Null.  SQL comparisons with NULL are      *)
(* unknown; there is no NOT above a condition, so a row is kept exactly    *)
(* when the tree is true with every unknown condition read as false, and   *)
(* two truth values are enough.                                            *)
(***************************************************************************)
EXTENDS Integers, SequencesExt

CONSTANTS
    Val,        \* the non-null values of columns and conditions: integers
    Null,       \* SQL NULL, and null or undefined in a condition
    NullText,   \* the member of Val that is the four-letter text "null"
    Lower,      \* Lower[v]: v in lower case
    Match       \* Match[shape][v]: values LIKE v, v%, %v or %v%

Shape == {"exact", "starts", "ends", "cont"}

ASSUME SearchTreeAssumption ==
    /\ Val \subseteq Int
    /\ Null \notin Val
    /\ NullText \in Val
    /\ Lower \in [Val -> Val]
    /\ Match \in [Shape -> [Val -> SUBSET Val]]

-----------------------------------------------------------------------------
(* Conditions: a field, an operator and its arguments.  A scalar argument  *)
(* is a sequence of length one; an array argument that the code would not  *)
(* accept as an array (null) is the empty sequence.  A field is a pair: the*)
(* path of a relation, <<>> for the root entity, and a column.  shape is   *)
(* the place of the wildcards in a raw LIKE pattern.                       *)

Condition(f, o, xs) == [field |-> f, op |-> o, args |-> xs, shape |-> "exact"]

ArrayOps == {"$in", "$notin", "$inL", "$notinL"}

\* requireArray and the arity check of $between: otherwise a 400.
Buildable(c) ==
    /\ c.op \in ArrayOps => c.args # <<>>
    /\ c.op = "$between" => Len(c.args) = 2

\* What `${value}` and String(value) print for null.
Text(x) == IF x = Null THEN NullText ELSE x

LikeShape(c) ==
    CASE c.op \in {"$starts", "$startsL"} -> "starts"
      [] c.op \in {"$ends", "$endsL"} -> "ends"
      [] c.op \in {"$cont", "$contL", "$excl", "$exclL"} -> "cont"
      [] OTHER -> c.shape

\* Operators with a clause other than equality.
ClauseOps == {"$isnull", "$notnull", "$ne", "$gt", "$gte", "$lt", "$lte", "$starts",
              "$ends", "$cont", "$like", "$excl", "$in", "$notin", "$between", "$eqL",
              "$neL", "$startsL", "$endsL", "$contL", "$ilike", "$exclL", "$inL",
              "$notinL"}

\* The SQL clause of one condition is true of the column value v.
CondHolds(v, c) ==
    LET x == c.args[1]
        xs == {c.args[i] : i \in DOMAIN c.args}
    IN \/ c.op = "$isnull" /\ v = Null
       \/ c.op = "$notnull" /\ v # Null
       \/ /\ v # Null
          /\ \/ c.op = "$ne" /\ x # Null /\ v # x
             \/ c.op = "$gt" /\ x # Null /\ v > x
             \/ c.op = "$gte" /\ x # Null /\ v >= x
             \/ c.op = "$lt" /\ x # Null /\ v < x
             \/ c.op = "$lte" /\ x # Null /\ v <= x
             \/ /\ c.op \in {"$starts", "$ends", "$cont", "$like"}
                /\ v \in Match[LikeShape(c)][Text(x)]
             \/ c.op = "$excl" /\ v \notin Match["cont"][Text(x)]
             \/ c.op = "$in" /\ v \in xs
             \/ c.op = "$notin" /\ Null \notin xs /\ v \notin xs
             \/ c.op = "$between" /\ Null \notin xs /\ c.args[1] <= v /\ v <= c.args[2]
             \/ c.op = "$eqL" /\ Lower[v] = Lower[Text(x)]
             \/ c.op = "$neL" /\ Lower[v] # Lower[Text(x)]
             \/ /\ c.op \in {"$startsL", "$endsL", "$contL", "$ilike"}
                /\ Lower[v] \in Match[LikeShape(c)][Lower[Text(x)]]
             \/ c.op = "$exclL" /\ Lower[v] \notin Match["cont"][Lower[Text(x)]]
             \/ c.op = "$inL" /\ Lower[v] \in xs
             \/ c.op = "$notinL" /\ Null \notin xs /\ Lower[v] \notin xs
             \/ c.op \notin ClauseOps /\ v = x        \* $eq, and unknown operators

-----------------------------------------------------------------------------
(* Nodes: a JSON object is the sequence of its keys.  {} is <<>>, and stands *)
(* for no tree at all: no node inside a tree is empty.                     *)

NoCondition == Condition(<<<<>>, "">>, "", <<>>)

FieldNode(c) == <<[key |-> "field", cond |-> c, kids |-> <<>>]>>

GroupNode(k, nodes) == <<[key |-> k, cond |-> NoCondition, kids |-> nodes]>>

\* The clauses attached to one bracket with andWhere or orWhere.
Attached(mode, truths) ==
    IF mode = "$or" THEN TRUE \in truths ELSE FALSE \notin truths

(* buildSearch by depth: NodeN reads nodes with at most N groups inside    *)
(* each other; the mode is the one its parent group attaches with.  r maps *)
(* every field to its value in the row.                                    *)

Node0(r, n, mode) ==
    Attached(mode, {CondHolds(r[n[i].cond.field], n[i].cond) : i \in DOMAIN n})

Entry1(r, e) ==
    IF e.key = "field" THEN CondHolds(r[e.cond.field], e.cond)
    ELSE Attached(e.key, {Node0(r, e.kids[i], e.key) : i \in DOMAIN e.kids})

Node1(r, n, mode) == Attached(mode, {Entry1(r, n[i]) : i \in DOMAIN n})

Entry2(r, e) ==
    IF e.key = "field" THEN CondHolds(r[e.cond.field], e.cond)
    ELSE Attached(e.key, {Node1(r, e.kids[i], e.key) : i \in DOMAIN e.kids})

Node2(r, n, mode) == Attached(mode, {Entry2(r, n[i]) : i \in DOMAIN n})

Entry3(r, e) ==
    IF e.key = "field" THEN CondHolds(r[e.cond.field], e.cond)
    ELSE Attached(e.key, {Node2(r, e.kids[i], e.key) : i \in DOMAIN e.kids})

Node3(r, n, mode) == Attached(mode, {Entry3(r, n[i]) : i \in DOMAIN n})

Entry4(r, e) ==
    IF e.key = "field" THEN CondHolds(r[e.cond.field], e.cond)
    ELSE Attached(e.key, {Node3(r, e.kids[i], e.key) : i \in DOMAIN e.kids})

Node4(r, n, mode) == Attached(mode, {Entry4(r, n[i]) : i \in DOMAIN n})

\* The WHERE clause built from a whole search tree keeps row r.
SearchHolds(r, search) == Node4(r, search, "$and")

\* The conditions anywhere in a tree: buildCondition runs on every one of them.
NodeConditions0(n) == {n[i].cond : i \in DOMAIN n}

NodeConditions1(n) ==
    UNION {{n[i].cond} \cup UNION {NodeConditions0(kid) : kid \in ToSet(n[i].kids)}
           : i \in DOMAIN n}

NodeConditions2(n) ==
    UNION {{n[i].cond} \cup UNION {NodeConditions1(kid) : kid \in ToSet(n[i].kids)}
           : i \in DOMAIN n}

NodeConditions3(n) ==
    UNION {{n[i].cond} \cup UNION {NodeConditions2(kid) : kid \in ToSet(n[i].kids)}
           : i \in DOMAIN n}

Conditions(search) ==
    (UNION {{search[i].cond} \cup UNION {NodeConditions3(kid) : kid \in ToSet(search[i].kids)}
            : i \in DOMAIN search}) \ {NoCondition}
=============================================================================
