------------------------------ MODULE GoRelay ------------------------------
(***************************************************************************)
(* The Go domain-event relay (relay.go): a ticker goroutine loads a batch, *)
(* delivers each event to the destinations one after the other, and writes *)
(* each outcome at once with an UPDATE whose error nobody looks at.        *)
(* Stopping cancels the context under the drain: the drain goes on to its  *)
(* end, but no statement of it reaches the database any more.              *)
(*                                                                         *)
(*   idle -Load-> sending -SendOk/SendFails-> marking -Mark/MarkLost->     *)
(*   sending ... -DrainDone-> idle                                         *)
(***************************************************************************)
EXTENDS EventTable

CONSTANTS
    Relay,            \* the pollers (one per process) that share the table
    Order,            \* the destinations in the order they are called
    LostReplies,      \* may an update be applied although it reports an error?
    MaxDisruptions    \* bound on failed updates, shutdowns and crashes

ASSUME GoRelayAssumption ==
    /\ Order \in Seq(Destination)
    /\ Range(Order) = Destination
    /\ LostReplies \in BOOLEAN
    /\ MaxDisruptions \in Nat

VARIABLES
    rows,         \* the `events` table
    received,     \* received[e]: destinations that accepted a copy (history)
    sent,         \* sent[e][d]: calls of d.Send(e) so far (history)
    life,         \* life[r]: "down", "up", "stopping" (context cancelled)
    pc,           \* pc[r]: "idle", "sending" or "marking"
    batch,        \* batch[r]: loaded events still to do, the current one first
    step,         \* step[r]: position in Order of the next Send call
    entity,       \* entity[r]: the loaded structs
    disruptions   \* disruptions so far

vars == <<rows, received, sent, life, pc, batch, step, entity, disruptions>>

drain == <<pc, batch, step, entity>>

Init ==
    /\ rows = AbsentRows
    /\ received = [e \in Event |-> {}]
    /\ sent = [e \in Event |-> [d \in Destination |-> 0]]
    /\ life = [r \in Relay |-> "down"]
    /\ pc = [r \in Relay |-> "idle"]
    /\ batch = [r \in Relay |-> <<>>]
    /\ step = [r \in Relay |-> 1]
    /\ entity = [r \in Relay |-> AbsentRows]
    /\ disruptions = 0

Current(r) == Head(batch[r])

Callee(r) == Order[step[r]]

Disrupted ==
    /\ disruptions < MaxDisruptions
    /\ disruptions' = disruptions + 1

-----------------------------------------------------------------------------
\* A committed transaction leaves a pending row.
Capture(e) ==
    /\ rows[e].status = "absent"
    /\ rows' = [rows EXCEPT ![e] = NewRow]
    /\ UNCHANGED <<received, sent, life, drain, disruptions>>

Start(r) ==
    /\ life[r] = "down"
    /\ life' = [life EXCEPT ![r] = "up"]
    /\ UNCHANGED <<rows, received, sent, drain, disruptions>>

\* stop() cancels the context, then waits for the goroutine.
Stop(r) ==
    /\ life[r] = "up"
    /\ Disrupted
    /\ life' = [life EXCEPT ![r] = "stopping"]
    /\ UNCHANGED <<rows, received, sent, drain>>

Stopped(r) ==
    /\ life[r] = "stopping"
    /\ pc[r] = "idle"
    /\ life' = [life EXCEPT ![r] = "down"]
    /\ UNCHANGED <<rows, received, sent, drain, disruptions>>

LeaveDrain(r) ==
    /\ pc' = [pc EXCEPT ![r] = "idle"]
    /\ batch' = [batch EXCEPT ![r] = <<>>]
    /\ step' = [step EXCEPT ![r] = 1]
    /\ entity' = [entity EXCEPT ![r] = AbsentRows]

Crash(r) ==
    /\ life[r] # "down"
    /\ Disrupted
    /\ life' = [life EXCEPT ![r] = "down"]
    /\ LeaveDrain(r)
    /\ UNCHANGED <<rows, received, sent>>

-----------------------------------------------------------------------------
\* ProcessPending loads a batch, which may be empty; without destinations it
\* returns before it loads anything, and a failed query ends it too.
Load(r) ==
    /\ life[r] = "up"
    /\ pc[r] = "idle"
    /\ Order # <<>>
    /\ \E b \in Batches(rows) :
        /\ batch' = [batch EXCEPT ![r] = b]
        /\ entity' = [entity EXCEPT ![r] = Snapshot(b, rows)]
    /\ pc' = [pc EXCEPT ![r] = "sending"]
    /\ UNCHANGED <<rows, received, sent, life, step, disruptions>>

DrainDone(r) ==
    /\ pc[r] = "sending"
    /\ batch[r] = <<>>
    /\ LeaveDrain(r)
    /\ UNCHANGED <<rows, received, sent, life, disruptions>>

CallDestination(r) ==
    /\ pc[r] = "sending"
    /\ batch[r] # <<>>
    /\ sent' = [sent EXCEPT ![Current(r)][Callee(r)] = @ + 1]
    /\ UNCHANGED <<rows, life, batch, disruptions>>

CalleeReceives(r) ==
    received' = [received EXCEPT ![Current(r)] = @ \cup {Callee(r)}]

\* The struct takes the outcome; its UPDATE is next.
Outcome(r, row) ==
    /\ entity' = [entity EXCEPT ![r][Current(r)] = row]
    /\ pc' = [pc EXCEPT ![r] = "marking"]
    /\ step' = [step EXCEPT ![r] = 1]

\* Mutant: the first destination that answers is enough.
SendOkFirst(r) ==
    /\ CallDestination(r)
    /\ CalleeReceives(r)
    /\ Outcome(r, Succeeded(entity[r][Current(r)]))

SendOk(r) ==
    /\ CallDestination(r)
    /\ CalleeReceives(r)
    /\ \/ /\ step[r] < Len(Order)
          /\ step' = [step EXCEPT ![r] = @ + 1]
          /\ UNCHANGED <<pc, entity>>
       \/ /\ step[r] = Len(Order)
          /\ Outcome(r, Succeeded(entity[r][Current(r)]))

\* Mutant: an error is logged and the next destination called.
SendFailsSwallowed(r) ==
    /\ CallDestination(r)
    /\ UNCHANGED received
    /\ \/ /\ step[r] < Len(Order)
          /\ step' = [step EXCEPT ![r] = @ + 1]
          /\ UNCHANGED <<pc, entity>>
       \/ /\ step[r] = Len(Order)
          /\ Outcome(r, Succeeded(entity[r][Current(r)]))

\* The first error ends the attempt: later destinations are not called.
SendFails(r) ==
    /\ CallDestination(r)
    /\ CalleeReceives(r) \/ UNCHANGED received
    /\ Outcome(r, CountFailure(entity[r][Current(r)]))

NextEvent(r) ==
    /\ pc' = [pc EXCEPT ![r] = "sending"]
    /\ batch' = [batch EXCEPT ![r] = Tail(@)]
    /\ UNCHANGED <<received, sent, life, step, entity>>

\* Mutant: a failed attempt is counted in memory only.
WriteSuccess(r) ==
    rows' = [rows EXCEPT ![Current(r)] =
                IF entity[r][Current(r)].status = "published"
                THEN ColumnUpdate(@, entity[r][Current(r)])
                ELSE @]

\* markPublished or markFailure: UPDATE ... WHERE id = ?
WriteOutcome(r) ==
    rows' = [rows EXCEPT ![Current(r)] = ColumnUpdate(@, entity[r][Current(r)])]

Mark(r) ==
    /\ pc[r] = "marking"
    /\ life[r] = "up"
    /\ WriteOutcome(r)
    /\ NextEvent(r)
    /\ UNCHANGED disruptions

\* The UPDATE fails and nobody notices: the event stays as it was.
MarkLost(r) ==
    /\ pc[r] = "marking"
    /\ life[r] = "up"
    /\ Disrupted
    /\ UNCHANGED rows \/ (LostReplies /\ WriteOutcome(r))
    /\ NextEvent(r)

\* Under a cancelled context every UPDATE fails.
MarkCancelled(r) ==
    /\ pc[r] = "marking"
    /\ life[r] = "stopping"
    /\ NextEvent(r)
    /\ UNCHANGED <<rows, disruptions>>

-----------------------------------------------------------------------------
DrainStep(r) ==
    \/ Load(r) \/ DrainDone(r)
    \/ SendOk(r) \/ SendFails(r)
    \/ Mark(r) \/ MarkLost(r) \/ MarkCancelled(r)

Next ==
    \/ \E e \in Event : Capture(e)
    \/ \E r \in Relay :
        Start(r) \/ Stop(r) \/ Stopped(r) \/ Crash(r) \/ DrainStep(r)

Spec == Init /\ [][Next]_vars

\* Services are restarted, the ticker keeps firing, and every call returns.
Fairness ==
    \A r \in Relay : WF_vars(Start(r)) /\ WF_vars(Stopped(r)) /\ WF_vars(DrainStep(r))

FairSpec == Spec /\ Fairness

-----------------------------------------------------------------------------
(* Properties.                                                             *)

\* Every variable has its type.
TypeOK ==
    /\ rows \in [Event -> Row]
    /\ received \in [Event -> SUBSET Destination]
    /\ sent \in [Event -> [Destination -> Nat]]
    /\ life \in [Relay -> {"down", "up", "stopping"}]
    /\ pc \in [Relay -> {"idle", "sending", "marking"}]
    /\ batch \in [Relay -> Seq(Event)]
    /\ step \in [Relay -> Nat \ {0}]
    /\ entity \in [Relay -> [Event -> Row]]
    /\ disruptions \in 0..MaxDisruptions

\* A row says published only if every destination accepted the event, although
\* no UPDATE is checked and a shutdown cuts the drain off the database.
PublishedMeansDelivered ==
    \A e \in Event :
        rows[e].status = "published" =>
            Destination # {} /\ Destination \subseteq received[e]

\* A single poller calls a destination once per counted attempt, once for the
\* success or the attempt under way, and once more per disruption: an ignored
\* UPDATE error costs one extra delivery, never an endless series.
SendsWithinBudget ==
    \A e \in Event, d \in Destination :
        sent[e][d] <= rows[e].attempts + 1 + disruptions

\* The relay's abstract specification, over the columns of the table.
Contract == INSTANCE OutboxContract WITH
    Trusted <- Destination,
    status <- [e \in Event |-> rows[e].status],
    attempts <- [e \in Event |-> rows[e].attempts]

\* A single poller implements the outbox contract, even when updates are lost
\* or applied without a reply.
ImplementsContract == Contract!Spec

\* Every captured event is eventually published or given up.
EventuallySettled ==
    \A e \in Event : rows[e].status = "pending" ~> rows[e].status \in Settled
=============================================================================
