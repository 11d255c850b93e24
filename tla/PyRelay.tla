------------------------------ MODULE PyRelay ------------------------------
(***************************************************************************)
(* The Python domain-event relay (relay.py): one drain is one database     *)
(* session.  The drain loads a batch, delivers each event to the           *)
(* destinations one after the other, keeps every outcome in the session,   *)
(* and commits them all at the end; a failed commit rolls all of them back.*)
(*                                                                         *)
(*   idle -Load-> delivering -DeliverOk/DeliverRaises...-> -Commit-> idle  *)
(*                                                         -CommitFails->  *)
(*                                                                         *)
(* A drain that cannot query, or cannot build its destinations, ends with  *)
(* the table as it was: a stuttering step, not written.  Crashes lose the  *)
(* session.                                                                *)
(***************************************************************************)
EXTENDS EventTable

CONSTANTS
    Relay,            \* the pollers (one per process) that share the table
    Order,            \* the destinations in the order they are called
    Unchecked,        \* destinations whose adapter does not see a refusal
    LostReplies,      \* may a commit be applied although it reports an error?
    MaxDisruptions    \* bound on failed commits, shutdowns and crashes

ASSUME PyRelayAssumption ==
    /\ Order \in Seq(Destination)
    /\ Order # <<>>
    /\ Range(Order) = Destination
    /\ Unchecked \subseteq Destination
    /\ LostReplies \in BOOLEAN
    /\ MaxDisruptions \in Nat

Trusted == Destination \ Unchecked

VARIABLES
    rows,         \* the `events` table, as committed
    received,     \* received[e]: destinations that accepted a copy (history)
    sent,         \* sent[e][d]: calls of d.deliver(e) so far (history)
    life,         \* life[r]: "down", "up", "stopping" (_stop is set)
    pc,           \* pc[r]: "idle" or "delivering"
    batch,        \* batch[r]: loaded events still to do, the current one first
    step,         \* step[r]: position in Order of the next deliver() call
    entity,       \* entity[r]: the session's objects, absent if not loaded
    disruptions   \* disruptions so far

vars == <<rows, received, sent, life, pc, batch, step, entity, disruptions>>

session == <<pc, batch, step, entity>>

Init ==
    /\ rows = AbsentRows
    /\ received = [e \in Event |-> {}]
    /\ sent = [e \in Event |-> [d \in Destination |-> 0]]
    /\ life = [r \in Relay |-> "down"]
    /\ pc = [r \in Relay |-> "idle"]
    /\ batch = [r \in Relay |-> <<>>]
    /\ step = [r \in Relay |-> 1]
    /\ entity = [r \in Relay |-> AbsentRows]
    /\ disruptions = 0

Current(r) == Head(batch[r])

Callee(r) == Order[step[r]]

Disrupted ==
    /\ disruptions < MaxDisruptions
    /\ disruptions' = disruptions + 1

-----------------------------------------------------------------------------
\* A committed flush leaves a pending row.
Capture(e) ==
    /\ rows[e].status = "absent"
    /\ rows' = [rows EXCEPT ![e] = NewRow]
    /\ UNCHANGED <<received, sent, life, session, disruptions>>

Start(r) ==
    /\ life[r] = "down"
    /\ life' = [life EXCEPT ![r] = "up"]
    /\ UNCHANGED <<rows, received, sent, session, disruptions>>

\* stop() sets the flag and then waits for the loop to finish its drain.
Stop(r) ==
    /\ life[r] = "up"
    /\ Disrupted
    /\ life' = [life EXCEPT ![r] = "stopping"]
    /\ UNCHANGED <<rows, received, sent, session>>

Stopped(r) ==
    /\ life[r] = "stopping"
    /\ pc[r] = "idle"
    /\ life' = [life EXCEPT ![r] = "down"]
    /\ UNCHANGED <<rows, received, sent, session, disruptions>>

\* The session is closed; what it holds is gone unless it was committed.
CloseSession(r) ==
    /\ pc' = [pc EXCEPT ![r] = "idle"]
    /\ batch' = [batch EXCEPT ![r] = <<>>]
    /\ step' = [step EXCEPT ![r] = 1]
    /\ entity' = [entity EXCEPT ![r] = AbsentRows]

Crash(r) ==
    /\ life[r] # "down"
    /\ Disrupted
    /\ life' = [life EXCEPT ![r] = "down"]
    /\ CloseSession(r)
    /\ UNCHANGED <<rows, received, sent>>

-----------------------------------------------------------------------------
\* The loop polls: load the batch, which may be empty.
Load(r) ==
    /\ life[r] = "up"
    /\ pc[r] = "idle"
    /\ \E b \in Batches(rows) :
        /\ batch' = [batch EXCEPT ![r] = b]
        /\ entity' = [entity EXCEPT ![r] = Snapshot(b, rows)]
    /\ pc' = [pc EXCEPT ![r] = "delivering"]
    /\ UNCHANGED <<rows, received, sent, life, step, disruptions>>

CallDestination(r) ==
    /\ pc[r] = "delivering"
    /\ batch[r] # <<>>
    /\ sent' = [sent EXCEPT ![Current(r)][Callee(r)] = @ + 1]
    /\ UNCHANGED <<rows, life, pc, disruptions>>

CalleeReceives(r) ==
    received' = [received EXCEPT ![Current(r)] = @ \cup {Callee(r)}]

\* The outcome stays in the session; on to the next event.
Outcome(r, row) ==
    /\ entity' = [entity EXCEPT ![r][Current(r)] = row]
    /\ batch' = [batch EXCEPT ![r] = Tail(@)]
    /\ step' = [step EXCEPT ![r] = 1]

\* Mutant: the first destination that returns is enough.
DeliverOkFirst(r) ==
    /\ CallDestination(r)
    /\ CalleeReceives(r)
    /\ Outcome(r, Succeeded(entity[r][Current(r)]))

\* deliver() returns; after the last destination the event is published.
DeliverOk(r) ==
    /\ CallDestination(r)
    /\ \/ CalleeReceives(r)
       \/ Callee(r) \in Unchecked /\ UNCHANGED received
    /\ \/ /\ step[r] < Len(Order)
          /\ step' = [step EXCEPT ![r] = @ + 1]
          /\ UNCHANGED <<batch, entity>>
       \/ /\ step[r] = Len(Order)
          /\ Outcome(r, Succeeded(entity[r][Current(r)]))

\* Mutant: an exception is logged and the next destination called.
DeliverRaisesSwallowed(r) ==
    /\ CallDestination(r)
    /\ UNCHANGED received
    /\ \/ /\ step[r] < Len(Order)
          /\ step' = [step EXCEPT ![r] = @ + 1]
          /\ UNCHANGED <<batch, entity>>
       \/ /\ step[r] = Len(Order)
          /\ Outcome(r, Succeeded(entity[r][Current(r)]))

\* deliver() raises, though the sink may have the event: the destinations
\* after it are not called in this attempt.
DeliverRaises(r) ==
    /\ CallDestination(r)
    /\ CalleeReceives(r) \/ UNCHANGED received
    /\ Outcome(r, CountFailure(entity[r][Current(r)]))

\* Mutant: only successes are written.
WriteSuccesses(r) ==
    rows' = [e \in Event |->
                IF entity[r][e].status = "published"
                THEN ColumnUpdate(rows[e], entity[r][e])
                ELSE rows[e]]

\* session.commit() writes the changed columns of every loaded event.
WriteOutcomes(r) ==
    rows' = [e \in Event |->
                IF entity[r][e].status = "absent"
                THEN rows[e]
                ELSE ColumnUpdate(rows[e], entity[r][e])]

Commit(r) ==
    /\ pc[r] = "delivering"
    /\ batch[r] = <<>>
    /\ WriteOutcomes(r)
    /\ CloseSession(r)
    /\ UNCHANGED <<received, sent, life, disruptions>>

\* The commit raises: rollback, and every outcome of the batch is forgotten
\* although the events were delivered.
CommitFails(r) ==
    /\ pc[r] = "delivering"
    /\ batch[r] = <<>>
    /\ Disrupted
    /\ UNCHANGED rows \/ (LostReplies /\ WriteOutcomes(r))
    /\ CloseSession(r)
    /\ UNCHANGED <<received, sent, life>>

-----------------------------------------------------------------------------
DrainStep(r) ==
    \/ Load(r) \/ DeliverOk(r) \/ DeliverRaises(r)
    \/ Commit(r) \/ CommitFails(r)

Next ==
    \/ \E e \in Event : Capture(e)
    \/ \E r \in Relay :
        Start(r) \/ Stop(r) \/ Stopped(r) \/ Crash(r) \/ DrainStep(r)

Spec == Init /\ [][Next]_vars

\* Services are restarted, the loop keeps polling, and every call returns or
\* raises (the adapters and drivers have timeouts).
Fairness ==
    \A r \in Relay : WF_vars(Start(r)) /\ WF_vars(Stopped(r)) /\ WF_vars(DrainStep(r))

FairSpec == Spec /\ Fairness

-----------------------------------------------------------------------------
(* Properties.                                                             *)

\* Every variable has its type.
TypeOK ==
    /\ rows \in [Event -> Row]
    /\ received \in [Event -> SUBSET Destination]
    /\ sent \in [Event -> [Destination -> Nat]]
    /\ life \in [Relay -> {"down", "up", "stopping"}]
    /\ pc \in [Relay -> {"idle", "delivering"}]
    /\ batch \in [Relay -> Seq(Event)]
    /\ step \in [Relay -> 1..Len(Order)]
    /\ entity \in [Relay -> [Event -> Row]]
    /\ disruptions \in 0..MaxDisruptions

\* A row says published only if every destination whose adapter sees refusals
\* accepted the event, across rollbacks, crashes and competing pollers.
PublishedMeansDelivered ==
    \A e \in Event : rows[e].status = "published" => Trusted \subseteq received[e]

\* A single poller calls a destination once per counted attempt, once for the
\* success or the attempt under way, and once more per disruption: a rollback
\* re-delivers a whole batch, but only once.
SendsWithinBudget ==
    \A e \in Event, d \in Destination :
        sent[e][d] <= rows[e].attempts + 1 + disruptions

\* The relay's abstract specification, over the columns of the table.
Contract == INSTANCE OutboxContract WITH
    status <- [e \in Event |-> rows[e].status],
    attempts <- [e \in Event |-> rows[e].attempts]

\* A single poller implements the outbox contract, whole batches at a time,
\* even when the reply of a commit is lost.
ImplementsContract == Contract!Spec

\* Every captured event is eventually published or given up.
EventuallySettled ==
    \A e \in Event : rows[e].status = "pending" ~> rows[e].status \in Settled

\* An event given up was sent to every destination on each of its attempts.
FailedMeansRetriedEverywhere ==
    \A e \in Event :
        rows[e].status = "failed" =>
            \A d \in Destination : sent[e][d] >= MaxAttempts
=============================================================================
