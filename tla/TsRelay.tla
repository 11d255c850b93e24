------------------------------ MODULE TsRelay ------------------------------
(***************************************************************************)
(* The TypeScript domain-event relay (DomainEventRelay): its self-contained*)
(* poller, one drain of the `events` table, the parallel fan-out, the      *)
(* TypeORM saves, and the life of the process around it.                   *)
(*                                                                         *)
(* A relay is one drain loop over the shared table: one per service        *)
(* replica.  Every `await` of the code is a point where another action may *)
(* come between, so each stretch between two awaits is one action:         *)
(*                                                                         *)
(*   idle      -Tick->          finding                                    *)
(*   finding   -Find->          next                                       *)
(*   next      -NextEvent->     publishing  (all sends started together)   *)
(*   publishing -SendResolves (last)-> saving, -SendRejects-> recovering   *)
(*   saving    -SaveReads, Save->  next,  -SaveFails-> recovering (catch)  *)
(*   recovering -SaveReads, Save-> next,  -RecoveryFails-> idle            *)
(*   next      -DrainDone->     idle                                       *)
(***************************************************************************)
EXTENDS EventTable

CONSTANTS
    Relay,           \* the relays (one per replica) that share the table
    Unchecked,       \* destinations whose adapter resolves on a refused event
    LostReplies,     \* may a save be applied although it reports an error?
    MaxDisruptions   \* bound on failed queries and saves, crashes, shutdowns

ASSUME TsRelayAssumption ==
    /\ Unchecked \subseteq Destination
    /\ LostReplies \in BOOLEAN
    /\ MaxDisruptions \in Nat

\* The destinations whose adapter rejects whenever the sink refuses.
Trusted == Destination \ Unchecked

VARIABLES
    rows,         \* the `events` table
    received,     \* received[e]: destinations that accepted a copy (history)
    sent,         \* sent[e][d]: calls of d.send(e) so far (history)
    late,         \* <<e, d>>: sends nobody awaits any more, not yet landed
    life,         \* life[r]: "down", "up" (timer set), "closing" (cleared)
    pc,           \* pc[r]: where the drain stands; "idle" is draining = false
    batch,        \* batch[r]: events of `pending` still to do, current first
    entity,       \* entity[r]: the entity objects the drain loaded
    open,         \* open[r]: destinations whose send publish() still awaits
    seen,         \* seen[r]: the row as save() read it; absent before it did
    disruptions   \* disruptions so far

vars == <<rows, received, sent, late, life, pc, batch, entity, open, seen,
          disruptions>>

local == <<pc, batch, entity, open, seen>>

Stage == {"idle", "finding", "next", "publishing", "saving", "recovering"}

Init ==
    /\ rows = AbsentRows
    /\ received = [e \in Event |-> {}]
    /\ sent = [e \in Event |-> [d \in Destination |-> 0]]
    /\ late = {}
    /\ life = [r \in Relay |-> "down"]
    /\ pc = [r \in Relay |-> "idle"]
    /\ batch = [r \in Relay |-> <<>>]
    /\ entity = [r \in Relay |-> AbsentRows]
    /\ open = [r \in Relay |-> {}]
    /\ seen = [r \in Relay |-> AbsentRow]
    /\ disruptions = 0

Current(r) == Head(batch[r])

Disrupted ==
    /\ disruptions < MaxDisruptions
    /\ disruptions' = disruptions + 1

-----------------------------------------------------------------------------
(* Capture: a committed transaction leaves a pending row.                  *)

Capture(e) ==
    /\ rows[e].status = "absent"
    /\ rows' = [rows EXCEPT ![e] = NewRow]
    /\ UNCHANGED <<received, sent, late, life, local, disruptions>>

-----------------------------------------------------------------------------
(* The process and its timer.                                              *)

\* onApplicationBootstrap: the timer is set.
Bootstrap(r) ==
    /\ life[r] = "down"
    /\ life' = [life EXCEPT ![r] = "up"]
    /\ UNCHANGED <<rows, received, sent, late, local, disruptions>>

\* onModuleDestroy clears the timer; a drain under way is not awaited.
Destroy(r) ==
    /\ life[r] = "up"
    /\ Disrupted
    /\ life' = [life EXCEPT ![r] = "closing"]
    /\ UNCHANGED <<rows, received, sent, late, local>>

\* The process is gone with all its memory; requests it had on the wire may
\* still arrive.
ProcessGone(r) ==
    /\ life' = [life EXCEPT ![r] = "down"]
    /\ late' = late \cup {<<Current(r), d>> : d \in open[r]}
    /\ pc' = [pc EXCEPT ![r] = "idle"]
    /\ batch' = [batch EXCEPT ![r] = <<>>]
    /\ entity' = [entity EXCEPT ![r] = AbsentRows]
    /\ open' = [open EXCEPT ![r] = {}]
    /\ seen' = [seen EXCEPT ![r] = AbsentRow]
    /\ UNCHANGED <<rows, received, sent>>

Exit(r) ==
    /\ life[r] = "closing"
    /\ ProcessGone(r)
    /\ UNCHANGED disruptions

Crash(r) ==
    /\ life[r] = "up"
    /\ Disrupted
    /\ ProcessGone(r)

-----------------------------------------------------------------------------
(* One drain.                                                              *)

\* The interval fires; while a drain is under way the tick returns at once.
Tick(r) ==
    /\ life[r] = "up"
    /\ pc[r] = "idle"
    /\ pc' = [pc EXCEPT ![r] = "finding"]
    /\ UNCHANGED <<rows, received, sent, late, life, batch, entity, open,
                   seen, disruptions>>

Find(r) ==
    /\ pc[r] = "finding"
    /\ \E b \in Batches(rows) :
        /\ batch' = [batch EXCEPT ![r] = b]
        /\ entity' = [entity EXCEPT ![r] = Snapshot(b, rows)]
    /\ pc' = [pc EXCEPT ![r] = "next"]
    /\ UNCHANGED <<rows, received, sent, late, life, open, seen, disruptions>>

\* processPending returns or throws: tick swallows the error and resets
\* `draining`; what the drain had loaded is forgotten.
LeaveDrain(r) ==
    /\ pc' = [pc EXCEPT ![r] = "idle"]
    /\ batch' = [batch EXCEPT ![r] = <<>>]
    /\ entity' = [entity EXCEPT ![r] = AbsentRows]
    /\ seen' = [seen EXCEPT ![r] = AbsentRow]
    /\ UNCHANGED open

FindFails(r) ==
    /\ pc[r] = "finding"
    /\ Disrupted
    /\ LeaveDrain(r)
    /\ UNCHANGED <<rows, received, sent, late, life>>

\* Mutant: `draining` is not reset when the drain returns.
DrainDoneStillDraining(r) ==
    /\ pc[r] = "next"
    /\ batch[r] = <<>>
    /\ UNCHANGED vars

DrainDone(r) ==
    /\ pc[r] = "next"
    /\ batch[r] = <<>>
    /\ LeaveDrain(r)
    /\ UNCHANGED <<rows, received, sent, late, life, disruptions>>

\* The catch block up to its save: attempts + 1, failed at MaxAttempts.
Catch(r) ==
    /\ entity' = [entity EXCEPT ![r][Current(r)] = CountFailure(@)]
    /\ pc' = [pc EXCEPT ![r] = "recovering"]
    /\ open' = [open EXCEPT ![r] = {}]
    /\ seen' = [seen EXCEPT ![r] = AbsentRow]

\* Mutant: the first destination is called, the others wait for its answer.
StartFirstSend(r) ==
    LET first == CHOOSE d \in Destination : TRUE IN
    /\ pc[r] = "next"
    /\ batch[r] # <<>>
    /\ sent' = [sent EXCEPT ![Current(r)][first] = @ + 1]
    /\ open' = [open EXCEPT ![r] = {first}]
    /\ pc' = [pc EXCEPT ![r] = "publishing"]
    /\ UNCHANGED <<rows, received, late, life, batch, entity, seen, disruptions>>

\* publish(event): every send is started before any is awaited.
StartSends(r) ==
    /\ pc[r] = "next"
    /\ batch[r] # <<>>
    /\ sent' = [sent EXCEPT ![Current(r)] = [d \in Destination |-> @[d] + 1]]
    /\ open' = [open EXCEPT ![r] = Destination]
    /\ pc' = [pc EXCEPT ![r] = "publishing"]
    /\ UNCHANGED <<rows, received, late, life, batch, entity, seen, disruptions>>

\* publish(event) without destinations throws.
NoDestination(r) ==
    /\ pc[r] = "next"
    /\ batch[r] # <<>>
    /\ Catch(r)
    /\ UNCHANGED <<rows, received, sent, late, life, batch, disruptions>>

NextEvent(r) == IF Destination # {} THEN StartSends(r) ELSE NoDestination(r)

\* Mutant: the first send to resolve resolves publish(), as Promise.race.
SendResolvesFirst(r, d) ==
    /\ pc[r] = "publishing"
    /\ d \in open[r]
    /\ received' = [received EXCEPT ![Current(r)] = @ \cup {d}]
    /\ late' = late \cup {<<Current(r), x>> : x \in open[r] \ {d}}
    /\ open' = [open EXCEPT ![r] = {}]
    /\ pc' = [pc EXCEPT ![r] = "saving"]
    /\ entity' = [entity EXCEPT ![r][Current(r)] = Succeeded(@)]
    /\ UNCHANGED <<rows, sent, life, batch, seen, disruptions>>

\* A send resolves: the sink accepted the event, or the adapter does not look
\* at the refusal.  After the last one the entity becomes published.
SendResolves(r, d) ==
    /\ pc[r] = "publishing"
    /\ d \in open[r]
    /\ \/ received' = [received EXCEPT ![Current(r)] = @ \cup {d}]
       \/ d \in Unchecked /\ UNCHANGED received
    /\ open' = [open EXCEPT ![r] = @ \ {d}]
    /\ \/ /\ open[r] # {d}
          /\ UNCHANGED <<pc, entity>>
       \/ /\ open[r] = {d}
          /\ pc' = [pc EXCEPT ![r] = "saving"]
          /\ entity' = [entity EXCEPT ![r][Current(r)] = Succeeded(@)]
    /\ UNCHANGED <<rows, sent, late, life, batch, seen, disruptions>>

\* Mutant: a rejection only settles its send, as Promise.allSettled.
SendRejectsSettled(r, d) ==
    /\ pc[r] = "publishing"
    /\ d \in open[r]
    /\ open' = [open EXCEPT ![r] = @ \ {d}]
    /\ \/ /\ open[r] # {d}
          /\ UNCHANGED <<pc, entity>>
       \/ /\ open[r] = {d}
          /\ pc' = [pc EXCEPT ![r] = "saving"]
          /\ entity' = [entity EXCEPT ![r][Current(r)] = Succeeded(@)]
    /\ UNCHANGED <<rows, received, sent, late, life, batch, seen, disruptions>>

\* The first rejection rejects Promise.all: the other sends stay in flight
\* and nobody waits for them.  The sink may have the event all the same.
SendRejects(r, d) ==
    /\ pc[r] = "publishing"
    /\ d \in open[r]
    /\ \/ UNCHANGED received
       \/ received' = [received EXCEPT ![Current(r)] = @ \cup {d}]
    /\ late' = late \cup {<<Current(r), x>> : x \in open[r] \ {d}}
    /\ Catch(r)
    /\ UNCHANGED <<rows, sent, life, batch, disruptions>>

\* A send nobody awaits lands after all.
LateSendLands(e, d) ==
    /\ <<e, d>> \in late
    /\ late' = late \ {<<e, d>>}
    /\ received' = [received EXCEPT ![e] = @ \cup {d}]
    /\ UNCHANGED <<rows, sent, life, local, disruptions>>

\* events.save(event) first reads the row again.
SaveReads(r) ==
    /\ pc[r] \in {"saving", "recovering"}
    /\ seen[r] = AbsentRow
    /\ seen' = [seen EXCEPT ![r] = rows[Current(r)]]
    /\ UNCHANGED <<rows, received, sent, late, life, pc, batch, entity, open,
                   disruptions>>

\* The UPDATE sets the columns in which the entity differs from the row as
\* save() read it, whatever the row says by now.  Of two dates that are both
\* set the model does not know whether they differ.
Merged(row, before, copy) ==
    {[status |-> IF copy.status # before.status THEN copy.status ELSE row.status,
      attempts |-> IF copy.attempts # before.attempts
                   THEN copy.attempts ELSE row.attempts,
      publishedAt |-> date] :
        date \in CASE copy.publishedAt # before.publishedAt -> {copy.publishedAt}
                   [] copy.publishedAt /\ before.publishedAt -> {row.publishedAt, TRUE}
                   [] OTHER -> {row.publishedAt}}

WriteRow(r) ==
    \E row \in Merged(rows[Current(r)], seen[r], entity[r][Current(r)]) :
        rows' = [rows EXCEPT ![Current(r)] = row]

\* A rejected save failed to read, or wrote nothing, or its reply was lost.
WriteRowFails(r) ==
    \/ UNCHANGED rows
    \/ LostReplies /\ seen[r] # AbsentRow /\ WriteRow(r)

\* Mutant: the catch block counts the failure but does not save it.
SaveSuccessOnly(r) ==
    /\ pc[r] \in {"saving", "recovering"}
    /\ seen[r] # AbsentRow
    /\ IF pc[r] = "saving" THEN WriteRow(r) ELSE UNCHANGED rows
    /\ pc' = [pc EXCEPT ![r] = "next"]
    /\ batch' = [batch EXCEPT ![r] = Tail(@)]
    /\ seen' = [seen EXCEPT ![r] = AbsentRow]
    /\ UNCHANGED <<received, sent, late, life, entity, open, disruptions>>

Save(r) ==
    /\ pc[r] \in {"saving", "recovering"}
    /\ seen[r] # AbsentRow
    /\ WriteRow(r)
    /\ pc' = [pc EXCEPT ![r] = "next"]
    /\ batch' = [batch EXCEPT ![r] = Tail(@)]
    /\ seen' = [seen EXCEPT ![r] = AbsentRow]
    /\ UNCHANGED <<received, sent, late, life, entity, open, disruptions>>

\* The save after a success is inside the try: its failure runs the catch.
SaveFails(r) ==
    /\ pc[r] = "saving"
    /\ Disrupted
    /\ WriteRowFails(r)
    /\ Catch(r)
    /\ UNCHANGED <<received, sent, late, life, batch>>

\* The save in the catch is not: its failure ends the drain.
RecoveryFails(r) ==
    /\ pc[r] = "recovering"
    /\ Disrupted
    /\ WriteRowFails(r)
    /\ LeaveDrain(r)
    /\ UNCHANGED <<received, sent, late, life>>

-----------------------------------------------------------------------------
\* What the event loop of a live process keeps doing by itself.
DrainStep(r) ==
    \/ Find(r) \/ FindFails(r)
    \/ NextEvent(r) \/ DrainDone(r)
    \/ \E d \in Destination : SendResolves(r, d) \/ SendRejects(r, d)
    \/ SaveReads(r) \/ Save(r) \/ SaveFails(r) \/ RecoveryFails(r)

LifeStep(r) == Bootstrap(r) \/ Destroy(r) \/ Exit(r) \/ Crash(r)

Next ==
    \/ \E e \in Event : Capture(e)
    \/ \E r \in Relay : LifeStep(r) \/ Tick(r) \/ DrainStep(r)
    \/ \E e \in Event, d \in Destination : LateSendLands(e, d)

Spec == Init /\ [][Next]_vars

\* Services are restarted, timers fire, and every query, send and save
\* settles one way or the other.  A rejecting sink is not ruled out; a send
\* that never settles is (the adapters set no timeout of their own).
Fairness ==
    \A r \in Relay :
        /\ WF_vars(Bootstrap(r))
        /\ WF_vars(Exit(r))
        /\ WF_vars(Tick(r))
        /\ WF_vars(DrainStep(r))

FairSpec == Spec /\ Fairness

-----------------------------------------------------------------------------
(* Properties.                                                             *)

\* Every variable has its type.
TypeOK ==
    /\ rows \in [Event -> Row]
    /\ received \in [Event -> SUBSET Destination]
    /\ sent \in [Event -> [Destination -> Nat]]
    /\ late \subseteq Event \X Destination
    /\ life \in [Relay -> {"down", "up", "closing"}]
    /\ pc \in [Relay -> Stage]
    /\ batch \in [Relay -> Seq(Event)]
    /\ entity \in [Relay -> [Event -> Row]]
    /\ open \in [Relay -> SUBSET Destination]
    /\ seen \in [Relay -> Row]
    /\ disruptions \in 0..MaxDisruptions

\* A row says published only if some destination is active and every one whose
\* adapter reports refusals accepted the event, across partial failures,
\* retries, late sends, failed saves, restarts and competing replicas.
PublishedMeansDelivered ==
    \A e \in Event :
        rows[e].status = "published" =>
            Destination # {} /\ Trusted \subseteq received[e]

\* A single relay gives an event up only after MaxAttempts counted attempts,
\* in each of which every active destination was called: no destination is
\* starved by one that keeps failing.
FailedMeansRetriedEverywhere ==
    \A e \in Event :
        rows[e].status = "failed" =>
            /\ rows[e].attempts = MaxAttempts
            /\ \A d \in Destination : sent[e][d] >= MaxAttempts

\* The columns of two replicas' saves mix, so the counter of a failed row may
\* say anything; still no event is given up before every active destination
\* was called MaxAttempts times.
GivenUpMeansTried ==
    \A e \in Event, d \in Destination :
        rows[e].status = "failed" => sent[e][d] >= MaxAttempts

\* Without destinations nothing is delivered and events stay pending, says
\* the comment of buildDestinations.
PendingWithoutDestination ==
    Destination = {} =>
        \A e \in Event : rows[e].status \in {"absent", "pending"}

\* A single relay calls a destination once per counted attempt, once for the
\* success or the attempt under way, and once more per disruption: duplicates
\* beyond the retry budget need a fault.
SendsWithinBudget ==
    \A e \in Event, d \in Destination :
        sent[e][d] <= rows[e].attempts + 1 + disruptions

\* The relay's abstract specification, over the columns of the table.
Contract == INSTANCE OutboxContract WITH
    status <- [e \in Event |-> rows[e].status],
    attempts <- [e \in Event |-> rows[e].attempts]

\* A single relay over a database whose errors mean "not applied" implements
\* the outbox contract: settled rows never change, attempts grow one by one,
\* publication follows delivery.
ImplementsContract == Contract!Spec

\* Every captured event is eventually published or given up, also those behind
\* a full batch of failing ones.
EventuallySettled ==
    \A e \in Event : rows[e].status = "pending" ~> rows[e].status \in Settled

\* An event published or failed stays so (the entity's life cycle).
SettledIsFinal ==
    [][\A e \in Event : rows[e].status \in Settled =>
                            rows'[e].status = rows[e].status]_vars

-----------------------------------------------------------------------------
(* The inductive invariant behind PublishedMeansDelivered and              *)
(* GivenUpMeansTried, for any number of replicas.  It is stated column by  *)
(* column, because a row may hold columns of several saves.                *)

\* A row, or a copy of it, that claims success is backed by the deliveries.
Backed(row, e) ==
    row.status = "published" => Destination # {} /\ Trusted \subseteq received[e]

\* One that says the event is given up is backed by the calls.
Tried(row, e) ==
    row.status = "failed" => \A d \in Destination : sent[e][d] >= MaxAttempts

\* Every counted attempt called every destination.
Accounted(row, e) == \A d \in Destination : row.attempts <= sent[e][d]

Honest(row, e) == Backed(row, e) /\ Tried(row, e) /\ Accounted(row, e)

\* The events a drain has not come to yet are distinct and still pending.
BatchInv(r) ==
    /\ pc[r] \in {"publishing", "saving", "recovering"} => batch[r] # <<>>
    /\ IsInjective(batch[r])
    /\ \A i \in DOMAIN batch[r] :
         i > 1 \/ pc[r] \in {"next", "publishing"} =>
             entity[r][batch[r][i]].status = "pending"

\* While an event is published, the destinations no longer awaited have it,
\* and the calls of this attempt are on top of the counted ones.
PublishInv(r) ==
    /\ pc[r] = "publishing" =>
         /\ Destination # {}
         /\ Trusted \ open[r] \subseteq received[Current(r)]
    /\ pc[r] = "saving" => entity[r][Current(r)].status = "published"
    /\ pc[r] \in {"publishing", "saving"} =>
         \A d \in Destination :
             entity[r][Current(r)].attempts + 1 <= sent[Current(r)][d]

\* Rows and copies are honest, and each drain is where its stage says.
IInv ==
    /\ TypeOK
    /\ \A e \in Event : Honest(rows[e], e)
    /\ \A r \in Relay, e \in Event : Honest(entity[r][e], e)
    /\ \A r \in Relay : BatchInv(r) /\ PublishInv(r)
=============================================================================
