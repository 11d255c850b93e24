----------------------------- MODULE EventTable -----------------------------
(***************************************************************************)
(* The durable `events` table: the outbox that capture writes and that the *)
(* relays of the three language libraries drain.  The relay modules        *)
(* (TsRelay, PyRelay, GoRelay) extend this one; each keeps the table in a  *)
(* variable of its own, a function from events to rows.                    *)
(*                                                                         *)
(* Data kept: the delivery status, the attempt counter, whether            *)
(* published_at is set, and the created_at order.  The id is the element   *)
(* of Event itself; type and payload are irrelevant to delivery and left   *)
(* out.                                                                    *)
(***************************************************************************)
EXTENDS Naturals, Sequences, Functions

CONSTANTS
    Event,        \* the events that state changes may ever produce
    Destination,  \* the active destinations (EVENTS_DESTINATION)
    CreatedAt,    \* Event -> Nat, the created_at timestamps; ties are allowed
    Limit,        \* how many rows one drain loads (50 in the code)
    MaxAttempts   \* failed attempts before an event is given up (5 in the code)

ASSUME EventTableAssumption ==
    /\ CreatedAt \in [Event -> Nat]
    /\ Limit \in Nat \ {0}
    /\ MaxAttempts \in Nat \ {0}

Status == {"absent", "pending", "published", "failed"}

Row == [status : Status, attempts : Nat, publishedAt : BOOLEAN]

\* "absent" stands for a row that no committed transaction has inserted.
AbsentRow == [status |-> "absent", attempts |-> 0, publishedAt |-> FALSE]

\* What capture inserts.
NewRow == [status |-> "pending", attempts |-> 0, publishedAt |-> FALSE]

AbsentRows == [e \in Event |-> AbsentRow]

Settled == {"published", "failed"}

\* Mutant: the query forgets that given-up rows are settled.
UnpublishedEvents(table) ==
    {e \in Event : table[e].status \notin {"absent", "published"}}

\* Mutant: the query picks only rows that were never tried.
UntriedEvents(table) ==
    {e \in Event : table[e].status = "pending" /\ table[e].attempts = 0}

PendingEvents(table) == {e \in Event : table[e].status = "pending"}

-----------------------------------------------------------------------------
(* WHERE status = 'pending' ORDER BY created_at ASC LIMIT Limit.           *)

IsOldestFirst(b) ==
    \A i, j \in DOMAIN b : i < j => CreatedAt[b[i]] <= CreatedAt[b[j]]

\* An event is left out only for the limit, and only behind what is loaded.
LeavesOutNewest(b, table) ==
    \A e \in PendingEvents(table) \ Range(b) :
        /\ Len(b) = Limit
        /\ \A i \in DOMAIN b : CreatedAt[b[i]] <= CreatedAt[e]

\* The answers the query may give; more than one when created_at has ties.
Batches(table) ==
    {b \in UNION {[1..n -> PendingEvents(table)] : n \in 0..Limit} :
        /\ IsInjective(b)
        /\ IsOldestFirst(b)
        /\ LeavesOutNewest(b, table)}

\* The entity objects a query result holds: copies of the rows as they stand.
Snapshot(b, table) ==
    [e \in Event |-> IF e \in Range(b) THEN table[e] ELSE AbsentRow]

-----------------------------------------------------------------------------
(* The in-memory effect of one delivery attempt on an entity.              *)

\* Mutant: a status outside the enumeration.
SucceededUnknown(row) == [row EXCEPT !.status = "delivered", !.publishedAt = TRUE]

Succeeded(row) == [row EXCEPT !.status = "published", !.publishedAt = TRUE]

\* Mutant: the limit is compared before the increment.
CountFailureLate(row) ==
    [row EXCEPT !.attempts = @ + 1,
                !.status = IF row.attempts >= MaxAttempts THEN "failed" ELSE @]

CountFailure(row) ==
    [row EXCEPT !.attempts = @ + 1,
                !.status = IF row.attempts + 1 >= MaxAttempts
                           THEN "failed" ELSE @]

\* An UPDATE of the columns an attempt changed on a copy, whatever the other
\* columns of the row say by now.
ColumnUpdate(row, copy) ==
    IF copy.status = "published"
    THEN [row EXCEPT !.status = "published", !.publishedAt = TRUE]
    ELSE [row EXCEPT !.attempts = copy.attempts,
                     !.status = IF copy.status = "failed" THEN "failed" ELSE @]
=============================================================================
