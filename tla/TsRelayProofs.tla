--------------------------- MODULE TsRelayProofs ---------------------------
(***************************************************************************)
(* Proofs about TsRelay, for any sets of events, destinations and replicas,*)
(* any attempt cap, any batch limit and any number of disruptions.         *)
(***************************************************************************)
EXTENDS TsRelay, EventTableProofs

-----------------------------------------------------------------------------
(* Type correctness.  A drain is in a stage past "next" only with a current*)
(* event, so the type invariant is proved together with that fact.         *)

HasCurrent ==
    \A r \in Relay :
        /\ pc[r] \in {"publishing", "saving", "recovering"} => batch[r] # <<>>
        /\ open[r] # {} => pc[r] = "publishing"

LEMMA TypeInit == Init => TypeOK /\ HasCurrent
BY RowConstants, TsRelayAssumption
   DEF Init, TypeOK, HasCurrent, Stage

\* The current event of a non-empty batch is an event, and the rest a batch.
LEMMA CurrentType ==
    ASSUME TypeOK, NEW r \in Relay, batch[r] # <<>>
    PROVE  Current(r) \in Event /\ Tail(batch[r]) \in Seq(Event)
BY DEF TypeOK, Current

LEMMA CaptureType ==
    ASSUME TypeOK, HasCurrent, NEW e \in Event, Capture(e)
    PROVE  TypeOK' /\ HasCurrent'
BY RowConstants DEF TypeOK, HasCurrent, Capture, local

LEMMA ProcessGoneType ==
    ASSUME TypeOK, HasCurrent, NEW r \in Relay, ProcessGone(r),
           disruptions' \in 0..MaxDisruptions
    PROVE  TypeOK' /\ HasCurrent'
<1>1. late' \subseteq Event \X Destination
  <2>1. open[r] # {} => Current(r) \in Event
    BY CurrentType DEF HasCurrent
  <2>. QED  BY <2>1 DEF TypeOK, ProcessGone
<1>. QED  BY <1>1, RowConstants DEF TypeOK, HasCurrent, ProcessGone, Stage

LEMMA LifeType ==
    ASSUME TypeOK, HasCurrent, NEW r \in Relay, LifeStep(r)
    PROVE  TypeOK' /\ HasCurrent'
<1>1. CASE Bootstrap(r)
  BY <1>1 DEF TypeOK, HasCurrent, Bootstrap, local
<1>2. CASE Destroy(r)
  BY <1>2, TsRelayAssumption DEF TypeOK, HasCurrent, Destroy, Disrupted, local
<1>3. CASE Exit(r)
  BY <1>3, ProcessGoneType DEF Exit, TypeOK
<1>4. CASE Crash(r)
  <2>1. disruptions' \in 0..MaxDisruptions
    BY <1>4, TsRelayAssumption DEF Crash, Disrupted, TypeOK
  <2>. QED  BY <1>4, <2>1, ProcessGoneType DEF Crash
<1>. QED  BY <1>1, <1>2, <1>3, <1>4 DEF LifeStep

LEMMA DisruptedType ==
    ASSUME TypeOK, Disrupted
    PROVE  disruptions' \in 0..MaxDisruptions
BY TsRelayAssumption DEF TypeOK, Disrupted

LEMMA LeaveDrainType ==
    ASSUME TypeOK, HasCurrent, NEW r \in Relay, LeaveDrain(r),
           pc[r] # "publishing"
    PROVE  /\ pc' \in [Relay -> Stage]
           /\ batch' \in [Relay -> Seq(Event)]
           /\ entity' \in [Relay -> [Event -> Row]]
           /\ open' \in [Relay -> SUBSET Destination]
           /\ seen' \in [Relay -> Row]
           /\ HasCurrent'
BY RowConstants DEF TypeOK, HasCurrent, LeaveDrain, Stage

LEMMA CatchType ==
    ASSUME TypeOK, HasCurrent, NEW r \in Relay, Catch(r), batch[r] # <<>>,
           UNCHANGED batch
    PROVE  /\ pc' \in [Relay -> Stage]
           /\ entity' \in [Relay -> [Event -> Row]]
           /\ open' \in [Relay -> SUBSET Destination]
           /\ seen' \in [Relay -> Row]
           /\ HasCurrent'
<1>1. entity[r][Current(r)] \in Row
  BY CurrentType DEF TypeOK
<1>2. CountFailure(entity[r][Current(r)]) \in Row
  BY <1>1, RowUpdates
<1>. QED  BY <1>2, RowConstants, CurrentType DEF TypeOK, HasCurrent, Catch, Stage

\* An UPDATE takes every column from the row or from the copy.
LEMMA MergedFacts ==
    ASSUME NEW row \in Row, NEW before \in Row, NEW copy \in Row,
           NEW x \in Merged(row, before, copy)
    PROVE  /\ x \in Row
           /\ x.status \in {row.status, copy.status}
           /\ x.attempts \in {row.attempts, copy.attempts}
<1>. DEFINE s == IF copy.status # before.status THEN copy.status ELSE row.status
            n == IF copy.attempts # before.attempts THEN copy.attempts ELSE row.attempts
<1>1. PICK date \in BOOLEAN : x = [status |-> s, attempts |-> n, publishedAt |-> date]
  BY DEF Merged, Row
<1>2. s \in {row.status, copy.status} /\ n \in {row.attempts, copy.attempts}
  OBVIOUS
<1>3. s \in Status /\ n \in Nat
  BY DEF Row
<1>. HIDE DEF s, n
<1>. QED  BY <1>1, <1>2, <1>3 DEF Row

\* What a save may leave in the table.
LEMMA WriteRowFacts ==
    ASSUME TypeOK, NEW r \in Relay, batch[r] # <<>>,
           WriteRow(r) \/ WriteRowFails(r)
    PROVE  /\ rows' \in [Event -> Row]
           /\ \A e \in Event :
                \/ rows'[e] = rows[e]
                \/ /\ rows'[e].status \in {rows[e].status, entity[r][e].status}
                   /\ rows'[e].attempts \in {rows[e].attempts, entity[r][e].attempts}
<1>1. CASE UNCHANGED rows
  BY <1>1 DEF TypeOK
<1>2. CASE WriteRow(r)
  <2>1. PICK c \in Event : c = Current(r)
    BY CurrentType
  <2>2. PICK x \in Merged(rows[c], seen[r], entity[r][c]) :
            rows' = [rows EXCEPT ![c] = x]
    BY <1>2, <2>1 DEF WriteRow
  <2>3. rows \in [Event -> Row] /\ seen[r] \in Row /\ entity[r][c] \in Row
    BY <2>1 DEF TypeOK
  <2>4. /\ x \in Row
        /\ x.status \in {rows[c].status, entity[r][c].status}
        /\ x.attempts \in {rows[c].attempts, entity[r][c].attempts}
    BY <2>2, <2>3, MergedFacts
  <2>. QED  BY <2>2, <2>3, <2>4
<1>. QED  BY <1>1, <1>2 DEF WriteRowFails

\* One more destination holding an event keeps the type of `received`.
LEMMA ReceiveType ==
    ASSUME TypeOK, NEW e \in Event, NEW d \in Destination,
           \/ received' = [received EXCEPT ![e] = received[e] \cup {d}]
           \/ UNCHANGED received
    PROVE  received' \in [Event -> SUBSET Destination]
<1>1. received[e] \cup {d} \in SUBSET Destination
  BY DEF TypeOK
<1>2. CASE received' = [received EXCEPT ![e] = received[e] \cup {d}]
  BY <1>1, <1>2 DEF TypeOK
<1>3. CASE UNCHANGED received
  BY <1>3 DEF TypeOK
<1>. QED  BY <1>2, <1>3

LEMMA DrainType ==
    ASSUME TypeOK, HasCurrent, NEW r \in Relay, DrainStep(r) \/ Tick(r)
    PROVE  TypeOK' /\ HasCurrent'
<1>0. CASE Tick(r)
  BY <1>0 DEF Tick, TypeOK, HasCurrent, Stage
<1>1. CASE Find(r)
  <2>1. PICK b \in Batches(rows) :
           /\ batch' = [batch EXCEPT ![r] = b]
           /\ entity' = [entity EXCEPT ![r] = Snapshot(b, rows)]
    BY <1>1 DEF Find
  <2>2. b \in Seq(Event) /\ Snapshot(b, rows) \in [Event -> Row]
    BY BatchFacts, SnapshotFacts DEF TypeOK
  <2>. QED  BY <1>1, <2>1, <2>2 DEF Find, TypeOK, HasCurrent, Stage
<1>2. CASE FindFails(r) \/ DrainDone(r)
  BY <1>2, LeaveDrainType, DisruptedType DEF FindFails, DrainDone, TypeOK
<1>3. CASE StartSends(r)
  <2>1. Current(r) \in Event
    BY <1>3, CurrentType DEF StartSends
  <2>. QED  BY <1>3, <2>1 DEF StartSends, TypeOK, HasCurrent, Stage
<1>4. CASE NoDestination(r)
  BY <1>4, CatchType DEF NoDestination, TypeOK
<1>5. ASSUME NEW d \in Destination, SendResolves(r, d)
      PROVE  TypeOK' /\ HasCurrent'
  <2>1. batch[r] # <<>> /\ Current(r) \in Event
    BY <1>5, CurrentType DEF SendResolves, HasCurrent
  <2>2. received' \in [Event -> SUBSET Destination]
    <3>1. \/ received' = [received EXCEPT ![Current(r)] =
                                           received[Current(r)] \cup {d}]
          \/ UNCHANGED received
      BY <1>5 DEF SendResolves
    <3>. QED  BY <2>1, <3>1, ReceiveType
  <2>3. open' \in [Relay -> SUBSET Destination]
    BY <1>5 DEF SendResolves, TypeOK
  <2>4. Succeeded(entity[r][Current(r)]) \in Row
    BY <2>1, RowUpdates DEF TypeOK
  <2>5. pc' \in [Relay -> Stage] /\ entity' \in [Relay -> [Event -> Row]]
    <3>1. CASE UNCHANGED <<pc, entity>>
      BY <3>1 DEF TypeOK
    <3>2. CASE /\ pc' = [pc EXCEPT ![r] = "saving"]
               /\ entity' = [entity EXCEPT ![r][Current(r)] =
                                               Succeeded(entity[r][Current(r)])]
      BY <3>2, <2>1, <2>4 DEF TypeOK, Stage
    <3>. QED  BY <1>5, <3>1, <3>2 DEF SendResolves
  <2>6. HasCurrent'
    BY <1>5, <2>1 DEF SendResolves, HasCurrent, TypeOK
  <2>. QED  BY <1>5, <2>2, <2>3, <2>5, <2>6 DEF SendResolves, TypeOK
<1>6. ASSUME NEW d \in Destination, SendRejects(r, d)
      PROVE  TypeOK' /\ HasCurrent'
  <2>1. batch[r] # <<>> /\ Current(r) \in Event
    BY <1>6, CurrentType DEF SendRejects, HasCurrent
  <2>2. received' \in [Event -> SUBSET Destination]
    <3>1. \/ received' = [received EXCEPT ![Current(r)] =
                                           received[Current(r)] \cup {d}]
          \/ UNCHANGED received
      BY <1>6 DEF SendRejects
    <3>. QED  BY <2>1, <3>1, ReceiveType
  <2>3. late' \subseteq Event \X Destination
    BY <1>6, <2>1 DEF SendRejects, TypeOK
  <2>. QED  BY <1>6, <2>1, <2>2, <2>3, CatchType DEF SendRejects, TypeOK
<1>7. CASE Save(r)
  <2>1. batch[r] # <<>>
    BY <1>7 DEF Save, HasCurrent
  <2>2. rows' \in [Event -> Row]
    BY <1>7, <2>1, WriteRowFacts DEF Save
  <2>. QED  BY <1>7, <2>1, <2>2, CurrentType, RowConstants
            DEF Save, TypeOK, HasCurrent, Stage
<1>8. CASE SaveFails(r)
  <2>1. batch[r] # <<>>
    BY <1>8 DEF SaveFails, HasCurrent
  <2>2. rows' \in [Event -> Row]
    BY <1>8, <2>1, WriteRowFacts DEF SaveFails
  <2>. QED  BY <1>8, <2>1, <2>2, CatchType, DisruptedType DEF SaveFails, TypeOK
<1>9. CASE RecoveryFails(r)
  <2>1. batch[r] # <<>>
    BY <1>9 DEF RecoveryFails, HasCurrent
  <2>2. rows' \in [Event -> Row]
    BY <1>9, <2>1, WriteRowFacts DEF RecoveryFails
  <2>. QED  BY <1>9, <2>2, LeaveDrainType, DisruptedType DEF RecoveryFails, TypeOK
<1>10. CASE SaveReads(r)
  <2>1. rows[Current(r)] \in Row
    BY <1>10, CurrentType DEF SaveReads, HasCurrent, TypeOK
  <2>. QED  BY <1>10, <2>1 DEF SaveReads, TypeOK, HasCurrent
<1>. QED
  BY <1>0, <1>1, <1>2, <1>3, <1>4, <1>5, <1>6, <1>7, <1>8, <1>9, <1>10
     DEF DrainStep, NextEvent

LEMMA TypeStep == TypeOK /\ HasCurrent /\ [Next]_vars => TypeOK' /\ HasCurrent'
<1>. SUFFICES ASSUME TypeOK, HasCurrent, [Next]_vars
              PROVE  TypeOK' /\ HasCurrent'
  OBVIOUS
<1>1. ASSUME NEW e \in Event, NEW d \in Destination, LateSendLands(e, d)
      PROVE  TypeOK' /\ HasCurrent'
  BY <1>1 DEF LateSendLands, TypeOK, HasCurrent, local
<1>2. CASE UNCHANGED vars
  BY <1>2 DEF vars, TypeOK, HasCurrent
<1>. QED  BY <1>1, <1>2, CaptureType, LifeType, DrainType DEF Next

\* Every reachable state is well typed.
THEOREM TypeCorrect == Spec => []TypeOK
<1>. QED  BY TypeInit, TypeStep, PTL DEF Spec

-----------------------------------------------------------------------------
(* The safety invariant.  Deliveries and calls are only ever added, so what*)
(* backs a row or a copy is never lost; each action then has to justify    *)
(* only the row, the copy and the stage it changes.                        *)

Monotone ==
    /\ \A e \in Event : received[e] \subseteq received'[e]
    /\ \A e \in Event, d \in Destination : sent[e][d] <= sent'[e][d]

LEMMA MonotoneStep ==
    ASSUME TypeOK, HasCurrent, [Next]_vars
    PROVE  Monotone
<1>1. CASE UNCHANGED <<received, sent>>
  BY <1>1 DEF Monotone, TypeOK
<1>2. ASSUME NEW e \in Event, NEW d \in Destination, UNCHANGED sent,
             received' = [received EXCEPT ![e] = received[e] \cup {d}]
      PROVE  Monotone
  BY <1>2 DEF Monotone, TypeOK
<1>3. ASSUME NEW r \in Relay, StartSends(r)
      PROVE  Monotone
  <2>1. Current(r) \in Event
    BY <1>3, CurrentType DEF StartSends
  <2>. QED  BY <1>3, <2>1 DEF StartSends, Monotone, TypeOK
<1>4. ASSUME NEW r \in Relay, NEW d \in Destination,
             SendResolves(r, d) \/ SendRejects(r, d)
      PROVE  Monotone
  <2>1. Current(r) \in Event
    BY <1>4, CurrentType DEF SendResolves, SendRejects, HasCurrent
  <2>2. /\ UNCHANGED sent
        /\ \/ UNCHANGED received
           \/ received' = [received EXCEPT ![Current(r)] =
                                     received[Current(r)] \cup {d}]
    BY <1>4 DEF SendResolves, SendRejects
  <2>. QED  BY <2>1, <2>2, <1>1, <1>2
<1>5. ASSUME NEW e \in Event, NEW d \in Destination, LateSendLands(e, d)
      PROVE  Monotone
  <2>1. /\ UNCHANGED sent
        /\ received' = [received EXCEPT ![e] = received[e] \cup {d}]
    BY <1>5 DEF LateSendLands
  <2>. QED  BY <2>1, <1>2
<1>6. ASSUME NEW r \in Relay, DrainStep(r)
      PROVE  Monotone
  BY <1>1, <1>3, <1>4, <1>6
     DEF DrainStep, Find, FindFails, NextEvent, NoDestination, DrainDone,
         SaveReads, Save, SaveFails, RecoveryFails
<1>7. ASSUME NEW r \in Relay, LifeStep(r) \/ Tick(r)
      PROVE  Monotone
  BY <1>1, <1>7
     DEF LifeStep, Bootstrap, Destroy, Exit, Crash, ProcessGone, Tick
<1>8. ASSUME NEW e \in Event, Capture(e)
      PROVE  Monotone
  BY <1>1, <1>8 DEF Capture
<1>. QED  BY <1>1, <1>5, <1>6, <1>7, <1>8 DEF Next, vars

\* A row that was honest stays so when deliveries and calls are added.
LEMMA HonestStays ==
    ASSUME TypeOK, TypeOK', Monotone, NEW row \in Row, NEW e \in Event,
           Honest(row, e)
    PROVE  Honest(row, e)'
<1>1. Backed(row, e)'
  BY DEF Honest, Backed, Monotone
<1>2. Tried(row, e)'
  <2>. SUFFICES ASSUME row.status = "failed", NEW d \in Destination
                PROVE  sent'[e][d] >= MaxAttempts
    BY DEF Tried
  <2>1. sent[e][d] >= MaxAttempts /\ sent[e][d] <= sent'[e][d]
    BY DEF Honest, Tried, Monotone
  <2>2. sent[e][d] \in Nat /\ sent'[e][d] \in Nat /\ MaxAttempts \in Nat
    BY EventTableAssumption DEF TypeOK
  <2>. QED  BY <2>1, <2>2
<1>3. Accounted(row, e)'
  <2>. SUFFICES ASSUME NEW d \in Destination
                PROVE  row.attempts <= sent'[e][d]
    BY DEF Accounted
  <2>1. row.attempts <= sent[e][d] /\ sent[e][d] <= sent'[e][d]
    BY DEF Honest, Accounted, Monotone
  <2>2. row.attempts \in Nat /\ sent[e][d] \in Nat /\ sent'[e][d] \in Nat
    BY DEF Row, TypeOK
  <2>. QED  BY <2>1, <2>2
<1>. QED  BY <1>1, <1>2, <1>3 DEF Honest

\* A drain that does not move keeps its invariants.
LEMMA DrainFrame ==
    ASSUME TypeOK, TypeOK', HasCurrent, Monotone, NEW r \in Relay,
           BatchInv(r), PublishInv(r),
           pc'[r] = pc[r], batch'[r] = batch[r], entity'[r] = entity[r],
           open'[r] = open[r]
    PROVE  BatchInv(r)' /\ PublishInv(r)'
<1>1. BatchInv(r)'
  BY DEF BatchInv
<1>2. ASSUME pc[r] \in {"publishing", "saving"}
      PROVE  /\ Current(r) \in Event
             /\ Current(r)' = Current(r)
             /\ \A d \in Destination :
                  entity[r][Current(r)].attempts + 1 <= sent'[Current(r)][d]
  <2>1. Current(r) \in Event /\ Current(r)' = Current(r)
    BY <1>2, CurrentType DEF HasCurrent, Current
  <2>. SUFFICES ASSUME NEW d \in Destination
                PROVE  entity[r][Current(r)].attempts + 1 <= sent'[Current(r)][d]
    BY <2>1
  <2>2. /\ entity[r][Current(r)].attempts + 1 <= sent[Current(r)][d]
        /\ sent[Current(r)][d] <= sent'[Current(r)][d]
    BY <1>2, <2>1 DEF PublishInv, Monotone
  <2>3. /\ entity[r][Current(r)].attempts \in Nat
        /\ sent[Current(r)][d] \in Nat /\ sent'[Current(r)][d] \in Nat
    BY <2>1 DEF TypeOK, Row
  <2>. QED  BY <2>2, <2>3
<1>3. PublishInv(r)'
  <2>1. pc[r] = "publishing" => Trusted \ open[r] \subseteq received'[Current(r)]
    BY <1>2 DEF PublishInv, Monotone
  <2>2. pc[r] = "publishing" => Destination # {}
    BY DEF PublishInv
  <2>3. pc[r] = "saving" => entity[r][Current(r)].status = "published"
    BY DEF PublishInv
  <2>. QED  BY <1>2, <2>1, <2>2, <2>3 DEF PublishInv
<1>. QED  BY <1>1, <1>3

RowsHonest == \A e \in Event : Honest(rows[e], e)

CopiesHonest(r) == \A e \in Event : Honest(entity[r][e], e)

\* Only relay r moves.
OnlyMoves(r) ==
    \A q \in Relay \ {r} :
        /\ pc'[q] = pc[q] /\ batch'[q] = batch[q]
        /\ entity'[q] = entity[q] /\ open'[q] = open[q]

\* What is left to show of a step of relay r.
LEMMA MoveOf ==
    ASSUME IInv, HasCurrent, TypeOK', Monotone, NEW r \in Relay, OnlyMoves(r),
           RowsHonest', CopiesHonest(r)', BatchInv(r)', PublishInv(r)'
    PROVE  IInv'
<1>1. ASSUME NEW q \in Relay
      PROVE  CopiesHonest(q)' /\ BatchInv(q)' /\ PublishInv(q)'
  <2>1. CASE q = r
    BY <2>1
  <2>2. CASE q # r
    <3>1. /\ pc'[q] = pc[q] /\ batch'[q] = batch[q]
          /\ entity'[q] = entity[q] /\ open'[q] = open[q]
      BY <2>2 DEF OnlyMoves
    <3>2. BatchInv(q)' /\ PublishInv(q)'
      BY <3>1, DrainFrame DEF IInv
    <3>3. ASSUME NEW e \in Event
          PROVE  Honest(entity[q][e], e)'
      <4>1. entity[q][e] \in Row /\ Honest(entity[q][e], e)
        BY DEF IInv, TypeOK
      <4>2. PICK row \in Row : row = entity[q][e]
        BY <4>1
      <4>3. Honest(row, e)'
        BY <4>1, <4>2, HonestStays DEF IInv
      <4>. QED  BY <3>1, <4>2, <4>3 DEF Honest, Backed, Tried, Accounted
    <3>. QED  BY <3>2, <3>3 DEF CopiesHonest
  <2>. QED  BY <2>1, <2>2
<1>. QED  BY <1>1 DEF IInv, RowsHonest, CopiesHonest

\* A row that keeps its columns, or takes some of an honest copy's.
LEMMA RowsStayHonest ==
    ASSUME IInv, TypeOK', Monotone,
           \A e \in Event :
               \/ rows'[e] = rows[e]
               \/ \E r \in Relay :
                    /\ rows'[e].status \in {rows[e].status, entity[r][e].status}
                    /\ rows'[e].attempts \in {rows[e].attempts, entity[r][e].attempts}
    PROVE  RowsHonest'
<1>. SUFFICES ASSUME NEW e \in Event
              PROVE  Honest(rows[e], e)'
  BY DEF RowsHonest
<1>1. PICK old \in Row : old = rows[e] /\ Honest(old, e)'
  <2>1. PICK old \in Row : old = rows[e] /\ Honest(old, e)
    BY DEF IInv, TypeOK
  <2>2. Honest(old, e)'
    BY <2>1, HonestStays DEF IInv
  <2>. QED  BY <2>1, <2>2
<1>2. CASE rows'[e] = rows[e]
  BY <1>1, <1>2 DEF Honest, Backed, Tried, Accounted
<1>3. ASSUME NEW r \in Relay,
             rows'[e].status \in {rows[e].status, entity[r][e].status},
             rows'[e].attempts \in {rows[e].attempts, entity[r][e].attempts}
      PROVE  Honest(rows[e], e)'
  <2>1. PICK copy \in Row : copy = entity[r][e] /\ Honest(copy, e)
    BY DEF IInv, TypeOK
  <2>2. Honest(copy, e)'
    BY <2>1, HonestStays DEF IInv
  <2>3. rows'[e].status \in {old.status, copy.status}
    BY <1>1, <1>3, <2>1
  <2>4. rows'[e].attempts \in {old.attempts, copy.attempts}
    BY <1>1, <1>3, <2>1
  <2>. QED  BY <1>1, <2>2, <2>3, <2>4 DEF Honest, Backed, Tried, Accounted
<1>. QED  BY <1>2, <1>3

\* Copies that a step keeps, takes from the table, or forgets.
LEMMA CopiesStayHonest ==
    ASSUME IInv, TypeOK', Monotone, NEW r \in Relay,
           \A e \in Event : entity'[r][e] \in {entity[r][e], rows[e], AbsentRow}
    PROVE  CopiesHonest(r)'
<1>. SUFFICES ASSUME NEW e \in Event
              PROVE  Honest(entity[r][e], e)'
  BY DEF CopiesHonest
<1>1. Honest(AbsentRow, e) /\ AbsentRow \in Row
  BY RowConstants, EventTableAssumption
     DEF AbsentRow, Honest, Backed, Tried, Accounted, IInv, TypeOK
<1>2. PICK row \in Row : entity'[r][e] = row /\ Honest(row, e)
  BY <1>1 DEF IInv, TypeOK
<1>3. Honest(row, e)'
  BY <1>2, HonestStays DEF IInv
<1>. QED  BY <1>2, <1>3 DEF Honest, Backed, Tried, Accounted

\* The current event at the loop head or while published is still pending.
LEMMA CurrentPending ==
    ASSUME IInv, NEW r \in Relay, batch[r] # <<>>,
           pc[r] \in {"next", "publishing"}
    PROVE  entity[r][Current(r)].status = "pending"
<1>1. 1 \in DOMAIN batch[r] /\ Current(r) = batch[r][1]
  BY DEF IInv, TypeOK, Current
<1>. QED  BY <1>1 DEF IInv, BatchInv

\* The catch block counts an attempt that called every destination.
LEMMA CatchInv ==
    ASSUME IInv, HasCurrent, TypeOK', Monotone, NEW r \in Relay,
           batch[r] # <<>>, UNCHANGED batch, Catch(r), RowsHonest',
           pc[r] \in {"next", "publishing", "saving"},
           \A d \in Destination :
               entity[r][Current(r)].attempts + 1 <= sent'[Current(r)][d]
    PROVE  IInv'
<1>a. PICK c \in Event : c = Current(r)
  BY CurrentType DEF IInv
<1>b. PICK old \in Row : old = entity[r][c]
  BY DEF IInv, TypeOK
<1>0. Honest(old, c)
  BY <1>b DEF IInv
<1>1. PICK new \in Row :
        /\ new = CountFailure(old)
        /\ new.attempts = old.attempts + 1
        /\ new.status = IF old.attempts + 1 >= MaxAttempts
                        THEN "failed" ELSE old.status
  BY RowUpdates
<1>3. /\ entity' = [entity EXCEPT ![r][c] = new]
      /\ pc' = [pc EXCEPT ![r] = "recovering"]
      /\ open' = [open EXCEPT ![r] = {}]
  BY <1>a, <1>b, <1>1 DEF Catch
<1>4. OnlyMoves(r)
  BY <1>3 DEF OnlyMoves, IInv, TypeOK
<1>5. Honest(new, c)'
  <2>1. Backed(new, c)'
    BY <1>0, <1>1 DEF Honest, Backed, IInv, Monotone
  <2>2. \A d \in Destination : new.attempts <= sent'[c][d]
    BY <1>a, <1>b, <1>1
  <2>3. Tried(new, c)'
    <3>. SUFFICES ASSUME new.status = "failed", NEW d \in Destination
                  PROVE  sent'[c][d] >= MaxAttempts
      BY DEF Tried
    <3>1. CASE new.attempts >= MaxAttempts
      <4>1. new.attempts \in Nat /\ sent'[c][d] \in Nat /\ MaxAttempts \in Nat
        BY EventTableAssumption DEF Row, TypeOK
      <4>. QED  BY <2>2, <3>1, <4>1
    <3>2. CASE ~(new.attempts >= MaxAttempts)
      <4>1. Honest(old, c)' /\ old.status = "failed"
        BY <1>0, <1>1, <3>2, HonestStays DEF IInv
      <4>. QED  BY <4>1 DEF Honest, Tried
    <3>. QED  BY <3>1, <3>2
  <2>4. Accounted(new, c)'
    BY <2>2 DEF Accounted
  <2>. QED  BY <2>1, <2>3, <2>4 DEF Honest
<1>6. CopiesHonest(r)'
  <2>. SUFFICES ASSUME NEW e \in Event
                PROVE  Honest(entity[r][e], e)'
    BY DEF CopiesHonest
  <2>1. CASE e = c
    <3>1. entity'[r][e] = new
      BY <1>0, <1>3, <2>1 DEF IInv, TypeOK
    <3>. QED  BY <1>5, <2>1, <3>1 DEF Honest, Backed, Tried, Accounted
  <2>2. CASE e # c
    <3>1. entity'[r][e] = entity[r][e]
      BY <1>0, <1>3, <2>2 DEF IInv, TypeOK
    <3>2. PICK row \in Row : row = entity[r][e] /\ Honest(row, e)
      BY DEF IInv, TypeOK
    <3>3. Honest(row, e)'
      BY <3>2, HonestStays DEF IInv
    <3>. QED  BY <3>1, <3>2, <3>3 DEF Honest, Backed, Tried, Accounted
  <2>. QED  BY <2>1, <2>2
<1>7. BatchInv(r)'
  <2>1. IsInjective(batch[r]) /\ batch'[r] = batch[r] /\ pc'[r] = "recovering"
    BY <1>3 DEF IInv, BatchInv, TypeOK
  <2>2. ASSUME NEW i \in DOMAIN batch[r], i > 1
        PROVE  entity'[r][batch[r][i]].status = "pending"
    <3>1. 1 \in DOMAIN batch[r] /\ c = batch[r][1] /\ i # 1
      BY <1>a, <2>2 DEF Current, IInv, TypeOK
    <3>2. batch[r][i] # c /\ batch[r][i] \in Event
      BY <2>1, <3>1 DEF IsInjective, IInv, TypeOK
    <3>3. entity'[r][batch[r][i]] = entity[r][batch[r][i]]
      BY <1>0, <1>3, <3>2 DEF IInv, TypeOK
    <3>. QED  BY <2>2, <3>3 DEF IInv, BatchInv
  <2>. QED  BY <2>1, <2>2 DEF BatchInv
<1>8. PublishInv(r)'
  BY <1>3 DEF PublishInv, IInv, TypeOK
<1>. QED  BY <1>4, <1>6, <1>7, <1>8, MoveOf

LEMMA FindInv ==
    ASSUME IInv, HasCurrent, TypeOK', Monotone, NEW r \in Relay, Find(r)
    PROVE  IInv'
<1>1. PICK b \in Batches(rows) :
         /\ batch' = [batch EXCEPT ![r] = b]
         /\ entity' = [entity EXCEPT ![r] = Snapshot(b, rows)]
  BY DEF Find
<1>2. rows \in [Event -> Row]
  BY DEF IInv, TypeOK
<1>3. /\ b \in Seq(Event) /\ IsInjective(b)
      /\ \A i \in DOMAIN b : rows[b[i]].status = "pending"
  BY <1>2, BatchFacts
<1>4. /\ \A e \in Event : Snapshot(b, rows)[e] \in {rows[e], AbsentRow}
      /\ \A i \in DOMAIN b : Snapshot(b, rows)[b[i]] = rows[b[i]]
  BY <1>2, <1>3, SnapshotFacts
<1>5. /\ batch'[r] = b /\ entity'[r] = Snapshot(b, rows) /\ pc'[r] = "next"
      /\ OnlyMoves(r)
  BY <1>1 DEF Find, IInv, TypeOK, OnlyMoves
<1>6. RowsHonest'
  BY RowsStayHonest DEF Find
<1>7. CopiesHonest(r)'
  <2>1. \A e \in Event : entity'[r][e] \in {entity[r][e], rows[e], AbsentRow}
    BY <1>4, <1>5
  <2>. QED  BY <2>1, CopiesStayHonest
<1>8. BatchInv(r)'
  BY <1>3, <1>4, <1>5 DEF BatchInv
<1>9. PublishInv(r)'
  BY <1>5 DEF PublishInv
<1>. QED  BY <1>5, <1>6, <1>7, <1>8, <1>9, MoveOf

LEMMA LeaveInv ==
    ASSUME IInv, HasCurrent, TypeOK', Monotone, NEW r \in Relay,
           RowsHonest', OnlyMoves(r),
           pc'[r] = "idle", batch'[r] = <<>>, entity'[r] = AbsentRows
    PROVE  IInv'
<1>1. CopiesHonest(r)'
  <2>1. \A e \in Event : entity'[r][e] \in {entity[r][e], rows[e], AbsentRow}
    BY DEF AbsentRows
  <2>. QED  BY <2>1, CopiesStayHonest
<1>2. BatchInv(r)' /\ PublishInv(r)'
  BY DEF BatchInv, PublishInv, IsInjective
<1>. QED  BY <1>1, <1>2, MoveOf

LEMMA StartSendsInv ==
    ASSUME IInv, HasCurrent, TypeOK', Monotone, NEW r \in Relay, StartSends(r), Destination # {}
    PROVE  IInv'
<1>1. /\ pc'[r] = "publishing" /\ batch'[r] = batch[r]
      /\ entity'[r] = entity[r] /\ open'[r] = Destination
      /\ OnlyMoves(r)
  BY DEF StartSends, IInv, TypeOK, OnlyMoves
<1>2. PICK c \in Event : c = Current(r)
  BY CurrentType DEF StartSends, IInv
<1>3. RowsHonest'
  BY RowsStayHonest DEF StartSends
<1>4. CopiesHonest(r)'
  <2>1. \A e \in Event : entity'[r][e] \in {entity[r][e], rows[e], AbsentRow}
    BY <1>1
  <2>. QED  BY <2>1, CopiesStayHonest
<1>5. BatchInv(r)'
  <2>1. \A i \in DOMAIN batch[r] : entity[r][batch[r][i]].status = "pending"
    BY DEF StartSends, IInv, BatchInv
  <2>2. batch[r] # <<>> /\ IsInjective(batch[r])
    BY DEF StartSends, IInv, BatchInv
  <2>. QED  BY <1>1, <2>1, <2>2 DEF BatchInv
<1>6. PublishInv(r)'
  <2>1. Current(r)' = c
    BY <1>1, <1>2 DEF Current
  <2>2. Destination # {} /\ Trusted \ open'[r] = {}
    BY <1>1 DEF StartSends, Trusted
  <2>3. ASSUME NEW d \in Destination
        PROVE  entity[r][c].attempts + 1 <= sent'[c][d]
    <3>1. sent'[c][d] = sent[c][d] + 1
      BY <1>2 DEF StartSends, IInv, TypeOK
    <3>2. entity[r][c].attempts <= sent[c][d]
      BY DEF IInv, Honest, Accounted
    <3>3. entity[r][c].attempts \in Nat /\ sent[c][d] \in Nat
      BY DEF IInv, TypeOK, Row
    <3>. QED  BY <3>1, <3>2, <3>3
  <2>. QED  BY <1>1, <2>1, <2>2, <2>3 DEF PublishInv
<1>. QED  BY <1>1, <1>3, <1>4, <1>5, <1>6, MoveOf

\* A send that is not the last one to resolve: what is no longer awaited and
\* trusted has been received.
LEMMA PartlyResolvedInv ==
    ASSUME IInv, HasCurrent, TypeOK', Monotone, NEW r \in Relay,
           NEW d \in Destination, SendResolves(r, d), UNCHANGED <<pc, entity>>
    PROVE  IInv'
<1>1. /\ pc[r] = "publishing" /\ pc'[r] = pc[r] /\ batch'[r] = batch[r]
      /\ entity'[r] = entity[r] /\ open'[r] = open[r] \ {d}
      /\ OnlyMoves(r)
  BY DEF SendResolves, IInv, TypeOK, OnlyMoves
<1>2. PICK c \in Event : c = Current(r)
  BY <1>1, CurrentType DEF HasCurrent, IInv
<1>3. RowsHonest'
  BY RowsStayHonest DEF SendResolves
<1>4. CopiesHonest(r)'
  <2>1. \A e \in Event : entity'[r][e] \in {entity[r][e], rows[e], AbsentRow}
    BY <1>1
  <2>. QED  BY <2>1, CopiesStayHonest
<1>5. BatchInv(r)'
  BY <1>1 DEF BatchInv, IInv
<1>6. PublishInv(r)'
  <2>1. Current(r)' = c
    BY <1>1, <1>2 DEF Current
  <2>2. d \in received'[c] \/ d \notin Trusted
    BY <1>2 DEF SendResolves, Trusted, IInv, TypeOK
  <2>3. Trusted \ open[r] \subseteq received'[c]
    BY <1>1, <1>2 DEF IInv, PublishInv, Monotone
  <2>4. Destination # {} /\ UNCHANGED sent
    BY DEF SendResolves
  <2>5. \A x \in Destination : entity[r][c].attempts + 1 <= sent[c][x]
    BY <1>1, <1>2 DEF IInv, PublishInv
  <2>. QED  BY <1>1, <2>1, <2>2, <2>3, <2>4, <2>5 DEF PublishInv
<1>. QED  BY <1>1, <1>3, <1>4, <1>5, <1>6, MoveOf

\* The last send resolves: the copy may now say published.
LEMMA ResolvedInv ==
    ASSUME IInv, HasCurrent, TypeOK', Monotone, NEW r \in Relay,
           NEW d \in Destination, SendResolves(r, d), open[r] = {d},
           pc' = [pc EXCEPT ![r] = "saving"],
           entity' = [entity EXCEPT ![r][Current(r)] =
                                        Succeeded(entity[r][Current(r)])]
    PROVE  IInv'
<1>1. /\ pc[r] = "publishing" /\ pc'[r] = "saving" /\ batch'[r] = batch[r]
      /\ open'[r] = {} /\ UNCHANGED <<rows, sent>>
  BY DEF SendResolves, IInv, TypeOK
<1>2. batch[r] # <<>>
  BY <1>1 DEF HasCurrent
<1>a. PICK c \in Event : c = Current(r)
  BY <1>2, CurrentType DEF IInv
<1>b. PICK old \in Row : old = entity[r][c]
  BY DEF IInv, TypeOK
<1>3. PICK new \in Row : /\ new = Succeeded(old)
                         /\ new.status = "published"
                         /\ new.attempts = old.attempts
  BY RowUpdates
<1>4. entity' = [entity EXCEPT ![r][c] = new]
  BY <1>a, <1>b, <1>3
<1>5. OnlyMoves(r)
  BY <1>4 DEF OnlyMoves, SendResolves, IInv, TypeOK
<1>6. Honest(old, c) /\ old.status = "pending"
  BY <1>1, <1>2, <1>a, <1>b, CurrentPending DEF IInv
<1>7. Honest(new, c)'
  <2>1. Trusted \ {d} \subseteq received'[c] /\ Destination # {}
    BY <1>1, <1>a DEF IInv, PublishInv, Monotone
  <2>2. d \in received'[c] \/ d \notin Trusted
    BY <1>a DEF SendResolves, Trusted, IInv, TypeOK
  <2>3. Backed(new, c)'
    BY <2>1, <2>2 DEF Backed
  <2>4. Tried(new, c)'
    BY <1>3 DEF Tried
  <2>5. Accounted(new, c)'
    BY <1>1, <1>3, <1>6 DEF Honest, Accounted
  <2>. QED  BY <2>3, <2>4, <2>5 DEF Honest
<1>8. CopiesHonest(r)'
  <2>. SUFFICES ASSUME NEW e \in Event
                PROVE  Honest(entity[r][e], e)'
    BY DEF CopiesHonest
  <2>1. CASE e = c
    <3>1. entity'[r][e] = new
      BY <1>4, <2>1 DEF IInv, TypeOK
    <3>. QED  BY <1>7, <2>1, <3>1 DEF Honest, Backed, Tried, Accounted
  <2>2. CASE e # c
    <3>1. PICK row \in Row : row = entity[r][e] /\ Honest(row, e)
      BY DEF IInv, TypeOK
    <3>2. entity'[r][e] = row
      BY <1>4, <2>2, <3>1 DEF IInv, TypeOK
    <3>3. Honest(row, e)'
      BY <3>1, HonestStays DEF IInv
    <3>. QED  BY <3>2, <3>3 DEF Honest, Backed, Tried, Accounted
  <2>. QED  BY <2>1, <2>2
<1>9. BatchInv(r)'
  <2>1. ASSUME NEW i \in DOMAIN batch[r], i > 1
        PROVE  entity'[r][batch[r][i]].status = "pending"
    <3>1. 1 \in DOMAIN batch[r] /\ c = batch[r][1] /\ i # 1
      BY <1>2, <1>a, <2>1 DEF Current, IInv, TypeOK
    <3>2. batch[r][i] # c /\ batch[r][i] \in Event
      BY <3>1 DEF IsInjective, BatchInv, IInv, TypeOK
    <3>3. entity'[r][batch[r][i]] = entity[r][batch[r][i]]
      BY <1>4, <3>2 DEF IInv, TypeOK
    <3>. QED  BY <2>1, <3>3 DEF IInv, BatchInv
  <2>. QED  BY <1>1, <1>2, <2>1 DEF BatchInv, IInv
<1>10. PublishInv(r)'
  <2>1. Current(r)' = c
    BY <1>1, <1>a DEF Current
  <2>2. entity'[r][c] = new
    BY <1>4 DEF IInv, TypeOK
  <2>3. \A x \in Destination : new.attempts + 1 <= sent[c][x]
    BY <1>1, <1>3, <1>a, <1>b DEF IInv, PublishInv
  <2>. QED  BY <1>1, <1>3, <2>1, <2>2, <2>3 DEF PublishInv
<1>11. RowsHonest'
  BY <1>1, RowsStayHonest
<1>. QED  BY <1>5, <1>8, <1>9, <1>10, <1>11, MoveOf

\* A save, whole or lost, takes its columns from an honest copy.
LEMMA WriteRowInv ==
    ASSUME IInv, TypeOK', Monotone, NEW r \in Relay, batch[r] # <<>>,
           WriteRow(r) \/ WriteRowFails(r)
    PROVE  RowsHonest'
<1>1. TypeOK
  BY DEF IInv
<1>. QED  BY <1>1, WriteRowFacts, RowsStayHonest

LEMMA SaveInv ==
    ASSUME IInv, HasCurrent, TypeOK', Monotone, NEW r \in Relay, Save(r)
    PROVE  IInv'
<1>1. /\ pc[r] \in {"saving", "recovering"} /\ pc'[r] = "next"
      /\ batch[r] # <<>> /\ batch'[r] = Tail(batch[r])
      /\ entity'[r] = entity[r] /\ OnlyMoves(r)
  BY DEF Save, HasCurrent, IInv, TypeOK, OnlyMoves
<1>2. RowsHonest'
  BY <1>1, WriteRowInv DEF Save
<1>3. CopiesHonest(r)'
  <2>1. \A e \in Event : entity'[r][e] \in {entity[r][e], rows[e], AbsentRow}
    BY <1>1
  <2>. QED  BY <2>1, CopiesStayHonest
<1>4. BatchInv(r)'
  <2>1. batch[r] \in Seq(Event) /\ IsInjective(batch[r])
    BY DEF IInv, TypeOK, BatchInv
  <2>2. \A i \in DOMAIN Tail(batch[r]) :
          /\ i + 1 \in DOMAIN batch[r] /\ i + 1 > 1
          /\ Tail(batch[r])[i] = batch[r][i + 1]
    BY <1>1, <2>1
  <2>3. IsInjective(Tail(batch[r]))
    <3>. SUFFICES ASSUME NEW i \in DOMAIN Tail(batch[r]),
                         NEW j \in DOMAIN Tail(batch[r]),
                         Tail(batch[r])[i] = Tail(batch[r])[j]
                  PROVE  i = j
      BY DEF IsInjective
    <3>1. i \in Nat /\ j \in Nat
      BY <1>1, <2>1
    <3>2. i + 1 = j + 1
      BY <2>1, <2>2 DEF IsInjective
    <3>. QED  BY <3>1, <3>2
  <2>4. \A i \in DOMAIN Tail(batch[r]) :
          entity[r][Tail(batch[r])[i]].status = "pending"
    BY <2>2 DEF IInv, BatchInv
  <2>. QED  BY <1>1, <2>3, <2>4 DEF BatchInv
<1>5. PublishInv(r)'
  BY <1>1 DEF PublishInv
<1>. QED  BY <1>1, <1>2, <1>3, <1>4, <1>5, MoveOf

\* The drains stay where they are.
LEMMA QuietInv ==
    ASSUME IInv, HasCurrent, TypeOK', Monotone, RowsHonest',
           UNCHANGED <<pc, batch, entity, open>>
    PROVE  IInv'
<1>1. \A r \in Relay : /\ pc'[r] = pc[r] /\ batch'[r] = batch[r]
                       /\ entity'[r] = entity[r] /\ open'[r] = open[r]
  OBVIOUS
<1>2. \A r \in Relay : BatchInv(r)' /\ PublishInv(r)'
  BY <1>1, DrainFrame DEF IInv
<1>3. \A r \in Relay : CopiesHonest(r)'
  BY <1>1, CopiesStayHonest
<1>. QED  BY <1>2, <1>3 DEF IInv, RowsHonest, CopiesHonest

LEMMA DrainInv ==
    ASSUME IInv, HasCurrent, TypeOK', Monotone, NEW r \in Relay, DrainStep(r)
    PROVE  IInv'
<1>1. CASE Find(r)
  BY <1>1, FindInv
<1>2. CASE FindFails(r) \/ DrainDone(r)
  <2>1. /\ pc'[r] = "idle" /\ batch'[r] = <<>> /\ entity'[r] = AbsentRows
        /\ OnlyMoves(r) /\ UNCHANGED rows
    BY <1>2 DEF FindFails, DrainDone, LeaveDrain, OnlyMoves, IInv, TypeOK
  <2>. QED  BY <2>1, LeaveInv, RowsStayHonest
<1>3. CASE NextEvent(r) /\ Destination # {}
  BY <1>3, StartSendsInv DEF NextEvent
<1>4. CASE NextEvent(r) /\ Destination = {}
  <2>1. /\ batch[r] # <<>> /\ pc[r] = "next" /\ Destination = {} /\ Catch(r)
        /\ UNCHANGED <<rows, batch>>
    BY <1>4 DEF NextEvent, NoDestination
  <2>2. RowsHonest'
    BY <2>1, RowsStayHonest
  <2>. QED  BY <2>1, <2>2, CatchInv
<1>5. ASSUME NEW d \in Destination, SendResolves(r, d)
      PROVE  IInv'
  BY <1>5, PartlyResolvedInv, ResolvedInv DEF SendResolves
<1>6. ASSUME NEW d \in Destination, SendRejects(r, d)
      PROVE  IInv'
  <2>1. /\ pc[r] = "publishing" /\ Catch(r) /\ UNCHANGED <<rows, sent, batch>>
    BY <1>6 DEF SendRejects
  <2>2. batch[r] # <<>>
    BY <2>1 DEF HasCurrent
  <2>3. RowsHonest'
    BY <2>1, RowsStayHonest
  <2>4. \A x \in Destination :
          entity[r][Current(r)].attempts + 1 <= sent[Current(r)][x]
    BY <2>1 DEF IInv, PublishInv
  <2>. QED  BY <2>1, <2>2, <2>3, <2>4, CatchInv
<1>7. CASE Save(r)
  BY <1>7, SaveInv
<1>8. CASE SaveFails(r)
  <2>1. /\ pc[r] = "saving" /\ Catch(r) /\ UNCHANGED <<sent, batch>>
        /\ WriteRowFails(r)
    BY <1>8 DEF SaveFails
  <2>2. batch[r] # <<>>
    BY <2>1 DEF HasCurrent
  <2>3. RowsHonest'
    BY <2>1, <2>2, WriteRowInv
  <2>4. \A x \in Destination :
          entity[r][Current(r)].attempts + 1 <= sent[Current(r)][x]
    BY <2>1 DEF IInv, PublishInv
  <2>. QED  BY <2>1, <2>2, <2>3, <2>4, CatchInv
<1>9. CASE RecoveryFails(r)
  <2>1. /\ pc'[r] = "idle" /\ batch'[r] = <<>> /\ entity'[r] = AbsentRows
        /\ OnlyMoves(r) /\ batch[r] # <<>> /\ WriteRowFails(r)
    BY <1>9 DEF RecoveryFails, LeaveDrain, OnlyMoves, HasCurrent, IInv, TypeOK
  <2>2. RowsHonest'
    BY <2>1, WriteRowInv
  <2>. QED  BY <2>1, <2>2, LeaveInv
<1>10. CASE SaveReads(r)
  BY <1>10, QuietInv, RowsStayHonest DEF SaveReads
<1>. QED
  BY <1>1, <1>2, <1>3, <1>4, <1>5, <1>6, <1>7, <1>8, <1>9, <1>10 DEF DrainStep

\* The steps around the drains: the process, its timer, capture, late sends.
LEMMA OutsideInv ==
    ASSUME IInv, HasCurrent, TypeOK', Monotone,
           \/ \E e \in Event : Capture(e)
           \/ \E r \in Relay : LifeStep(r) \/ Tick(r)
           \/ \E e \in Event, d \in Destination : LateSendLands(e, d)
    PROVE  IInv'
<1>1. ASSUME UNCHANGED local, RowsHonest'
      PROVE  IInv'
  BY <1>1, QuietInv DEF local
<1>2. ASSUME NEW r \in Relay, ProcessGone(r)
      PROVE  IInv'
  <2>1. /\ pc'[r] = "idle" /\ batch'[r] = <<>> /\ entity'[r] = AbsentRows
        /\ OnlyMoves(r) /\ UNCHANGED rows
    BY <1>2 DEF ProcessGone, OnlyMoves, IInv, TypeOK
  <2>. QED  BY <2>1, LeaveInv, RowsStayHonest
<1>3. ASSUME NEW r \in Relay, LifeStep(r)
      PROVE  IInv'
  <2>1. CASE Bootstrap(r) \/ Destroy(r)
    BY <1>1, <2>1, RowsStayHonest DEF Bootstrap, Destroy
  <2>. QED  BY <1>2, <1>3, <2>1 DEF LifeStep, Exit, Crash
<1>4. ASSUME NEW r \in Relay, Tick(r)
      PROVE  IInv'
  <2>1. /\ pc[r] = "idle" /\ pc'[r] = "finding" /\ batch'[r] = batch[r]
        /\ entity'[r] = entity[r] /\ OnlyMoves(r) /\ UNCHANGED rows
    BY <1>4 DEF Tick, OnlyMoves, IInv, TypeOK
  <2>2. CopiesHonest(r)'
    <3>1. \A e \in Event : entity'[r][e] \in {entity[r][e], rows[e], AbsentRow}
      BY <2>1
    <3>. QED  BY <3>1, CopiesStayHonest
  <2>3. BatchInv(r)' /\ PublishInv(r)'
    BY <2>1 DEF BatchInv, PublishInv, IInv
  <2>4. RowsHonest'
    BY <2>1, RowsStayHonest
  <2>. QED  BY <2>1, <2>2, <2>3, <2>4, MoveOf
<1>5. ASSUME NEW e \in Event, NEW d \in Destination, LateSendLands(e, d)
      PROVE  IInv'
  BY <1>1, <1>5, RowsStayHonest DEF LateSendLands
<1>6. ASSUME NEW e \in Event, Capture(e)
      PROVE  IInv'
  <2>1. UNCHANGED local
    BY <1>6 DEF Capture
  <2>2. RowsHonest'
    <3>. SUFFICES ASSUME NEW x \in Event
                  PROVE  Honest(rows[x], x)'
      BY DEF RowsHonest
    <3>1. PICK row \in Row : rows'[x] = row /\ Honest(row, x)
      <4>1. Honest(NewRow, x) /\ NewRow \in Row
        BY RowConstants, EventTableAssumption
           DEF NewRow, Honest, Backed, Tried, Accounted, IInv, TypeOK
      <4>2. rows'[x] = rows[x] \/ rows'[x] = NewRow
        BY <1>6 DEF Capture, IInv, TypeOK
      <4>. QED  BY <4>1, <4>2 DEF IInv, TypeOK
    <3>2. Honest(row, x)'
      BY <3>1, HonestStays DEF IInv
    <3>. QED  BY <3>1, <3>2 DEF Honest, Backed, Tried, Accounted
  <2>. QED  BY <1>1, <2>1, <2>2
<1>. QED  BY <1>3, <1>4, <1>5, <1>6

LEMMA InvInit == Init => IInv
<1>. SUFFICES ASSUME Init PROVE IInv
  OBVIOUS
<1>1. TypeOK
  BY TypeInit
<1>2. \A e \in Event : Honest(AbsentRow, e)
  BY EventTableAssumption
     DEF Init, AbsentRow, Honest, Backed, Tried, Accounted
<1>3. /\ \A e \in Event : rows[e] = AbsentRow
      /\ \A r \in Relay, e \in Event : entity[r][e] = AbsentRow
  BY DEF Init, AbsentRows
<1>4. \A r \in Relay : BatchInv(r) /\ PublishInv(r)
  BY DEF Init, BatchInv, PublishInv, IsInjective
<1>. QED  BY <1>1, <1>2, <1>3, <1>4 DEF IInv

LEMMA InvStep == IInv /\ HasCurrent /\ [Next]_vars => IInv'
<1>. SUFFICES ASSUME IInv, HasCurrent, [Next]_vars PROVE IInv'
  OBVIOUS
<1>1. TypeOK' /\ Monotone
  BY TypeStep, MonotoneStep DEF IInv
<1>2. CASE UNCHANGED vars
  BY <1>2 DEF vars, IInv, TypeOK, Honest, Backed, Tried, Accounted,
             BatchInv, PublishInv, Current
<1>. QED  BY <1>1, <1>2, DrainInv, OutsideInv DEF Next

THEOREM InvAlways == Spec => []IInv
<1>1. Init => IInv /\ TypeOK /\ HasCurrent
  BY InvInit, TypeInit
<1>2. IInv /\ TypeOK /\ HasCurrent /\ [Next]_vars
        => (IInv /\ TypeOK /\ HasCurrent)'
  BY InvStep, TypeStep
<1>. QED  BY <1>1, <1>2, PTL DEF Spec

\* A published row was delivered to every destination whose adapter reports
\* refusals, whatever failed, crashed, was retried or raced on the way.
THEOREM PublishedDelivered == Spec => []PublishedMeansDelivered
<1>1. IInv => PublishedMeansDelivered
  BY DEF IInv, Honest, Backed, PublishedMeansDelivered
<1>. QED  BY <1>1, InvAlways, PTL

\* No event is given up before every destination was called MaxAttempts times,
\* whatever columns of competing replicas mix in its row.
THEOREM GivenUpTried == Spec => []GivenUpMeansTried
<1>1. IInv => GivenUpMeansTried
  BY DEF IInv, Honest, Tried, GivenUpMeansTried
<1>. QED  BY <1>1, InvAlways, PTL

-----------------------------------------------------------------------------
(* A single relay over a database whose errors mean "not applied": nobody  *)
(* else changes the row between the two statements of a save, so the row   *)
(* becomes the entity.  The relay then counts the attempts of what it gives*)
(* up, implements the outbox contract and keeps to its delivery budget.    *)

OneRelay == \E r : Relay = {r}

\* The event whose outcome is about to be saved, if any.
Ended(r, e) == pc[r] \in {"saving", "recovering"} /\ e = Current(r)

\* What an attempt makes of a row; the last when the save of a success failed.
Outcomes(row) == {Succeeded(row), CountFailure(row), CountFailure(Succeeded(row))}

\* An event of the batch is pending, and its entity is its row until the
\* attempt ends and one outcome on afterwards.
SessionOK(r) ==
    /\ pc[r] \in {"idle", "finding"} => batch[r] = <<>>
    /\ \A e \in Range(batch[r]) :
        /\ rows[e].status = "pending"
        /\ ~Ended(r, e) => entity[r][e] = rows[e]
        /\ Ended(r, e) => entity[r][e] \in Outcomes(rows[e])
        /\ Ended(r, e) /\ pc[r] = "saving" => entity[r][e] = Succeeded(rows[e])

\* What a save has read is still the row.
SeenOK(r) ==
    IF batch[r] = <<>> THEN seen[r] = AbsentRow
    ELSE seen[r] \in {AbsentRow, rows[Current(r)]}

\* Attempts are capped, and the cap is what makes a row failed.
WithinCap(row) ==
    /\ row.status = "failed" => row.attempts = MaxAttempts
    /\ row.status # "failed" => row.attempts < MaxAttempts

\* Only captured events are on the wire, and only captured rows count.
CapturedOnly ==
    /\ \A x \in late : rows[x[1]].status # "absent"
    /\ \A e \in Event : rows[e].status = "absent" => rows[e].attempts = 0

SoloInv ==
    /\ IInv /\ HasCurrent
    /\ \A r \in Relay : SessionOK(r) /\ SeenOK(r)
    /\ \A e \in Event : WithinCap(rows[e])
    /\ CapturedOnly

\* A step of the table as the contract allows it.
TableStep ==
    \A e \in Event :
        \/ rows'[e] = rows[e]
        \/ rows[e].status = "absent" /\ rows'[e] = NewRow
        \/ /\ rows[e].status = "pending"
           /\ Trusted \subseteq received[e]
           /\ rows'[e].status = "published"
           /\ rows'[e].attempts \in {rows[e].attempts, rows[e].attempts + 1}
           /\ rows'[e].attempts < MaxAttempts
        \/ /\ rows[e].status = "pending"
           /\ rows'[e].attempts = rows[e].attempts + 1
           /\ rows'[e].status = IF rows[e].attempts + 1 < MaxAttempts THEN "pending" ELSE "failed"

\* Copies are never taken back, and only captured events are sent.
DeliveryStep ==
    \A e \in Event :
        /\ received[e] \subseteq received'[e]
        /\ received'[e] # received[e] => rows[e].status # "absent"

LEMMA SoloInit == Init => SoloInv
<1>. SUFFICES ASSUME Init PROVE SoloInv
  OBVIOUS
<1>1. IInv /\ HasCurrent
  BY InvInit, TypeInit
<1>2. \A r \in Relay : SessionOK(r) /\ SeenOK(r)
  BY DEF Init, SessionOK, SeenOK, Range
<1>3. CapturedOnly
  BY DEF Init, CapturedOnly, AbsentRows, AbsentRow
<1>4. \A e \in Event : WithinCap(rows[e])
  BY EventTableAssumption DEF Init, AbsentRows, AbsentRow, WithinCap
<1>. QED  BY <1>1, <1>2, <1>3, <1>4 DEF SoloInv

\* A drain past "next" works on a pending event of its batch.
LEMMA CurrentOfBatch ==
    ASSUME SoloInv, NEW r \in Relay, batch[r] # <<>>
    PROVE  /\ Current(r) \in Event /\ Current(r) \in Range(batch[r])
           /\ rows[Current(r)] \in Row /\ rows[Current(r)].status = "pending"
           /\ rows[Current(r)].attempts < MaxAttempts
<1>1. TypeOK /\ SessionOK(r) /\ \A e \in Event : WithinCap(rows[e])
  BY DEF SoloInv, IInv
<1>2. Current(r) \in Event /\ batch[r] \in Seq(Event)
  BY <1>1, CurrentType DEF TypeOK
<1>3. Current(r) \in Range(batch[r])
  BY <1>2 DEF Current, Range
<1>. QED  BY <1>1, <1>2, <1>3 DEF SessionOK, WithinCap, TypeOK

\* The UPDATE of a row nobody else changed writes the whole copy.
LEMMA MergedSame ==
    ASSUME NEW row \in Row, NEW copy \in Row, NEW x \in Merged(row, row, copy)
    PROVE  x = copy
<1>1. PICK date \in BOOLEAN :
        /\ x = [status |-> copy.status, attempts |-> copy.attempts, publishedAt |-> date]
        /\ date = copy.publishedAt
  BY DEF Merged, Row
<1>. QED  BY <1>1 DEF Row

LEMMA SoloWrite ==
    ASSUME SoloInv, NEW r \in Relay, Save(r)
    PROVE  /\ batch[r] # <<>> /\ Current(r) \in Event
           /\ rows' = [rows EXCEPT ![Current(r)] = entity[r][Current(r)]]
<1>1. batch[r] # <<>> /\ SeenOK(r) /\ TypeOK
  BY DEF Save, SoloInv, HasCurrent, IInv
<1>2. PICK c \in Event : c = Current(r)
  BY <1>1, CurrentType
<1>3. seen[r] = rows[c] /\ rows[c] \in Row /\ entity[r][c] \in Row
  BY <1>1, <1>2 DEF Save, SeenOK, TypeOK
<1>4. PICK x \in Merged(rows[c], seen[r], entity[r][c]) : rows' = [rows EXCEPT ![c] = x]
  BY <1>2 DEF Save, WriteRow
<1>5. x = entity[r][c]
  BY <1>3, <1>4, MergedSame
<1>. QED  BY <1>1, <1>2, <1>4, <1>5

\* What an outcome says of a row.
LEMMA OutcomeKinds ==
    ASSUME NEW row \in Row, row.status = "pending", row.attempts < MaxAttempts,
           NEW x \in Outcomes(row)
    PROVE  \/ /\ x.status = "published"
              /\ x.attempts \in {row.attempts, row.attempts + 1}
              /\ x.attempts < MaxAttempts
              /\ x = Succeeded(row) \/ x.attempts = row.attempts + 1
           \/ /\ x.attempts = row.attempts + 1
              /\ x.status = IF row.attempts + 1 < MaxAttempts THEN "pending" ELSE "failed"
<1>. DEFINE s == Succeeded(row)
<1>1. s \in Row /\ s.status = "published" /\ s.attempts = row.attempts
  BY RowUpdates
<1>2. /\ CountFailure(row).attempts = row.attempts + 1
      /\ CountFailure(row).status =
            IF row.attempts + 1 >= MaxAttempts THEN "failed" ELSE "pending"
  BY RowUpdates
<1>. HIDE DEF s
<1>3. /\ CountFailure(s).attempts = row.attempts + 1
      /\ CountFailure(s).status =
            IF row.attempts + 1 >= MaxAttempts THEN "failed" ELSE "published"
  BY <1>1, RowUpdates
<1>4. x \in {s, CountFailure(row), CountFailure(s)}
  BY DEF Outcomes, s
<1>5. row.attempts \in Nat /\ MaxAttempts \in Nat
  BY EventTableAssumption DEF Row
<1>. QED  BY <1>1, <1>2, <1>3, <1>4, <1>5 DEF s

\* Deliveries and sends left on the wire are of captured events.
LEMMA SoloDelivery ==
    ASSUME SoloInv, [Next]_vars
    PROVE  /\ DeliveryStep
           /\ \A x \in late' : x \in late \/ rows[x[1]].status # "absent"
<1>1. TypeOK /\ HasCurrent /\ CapturedOnly
  BY DEF SoloInv, IInv
<1>2. \A e \in Event : received[e] \subseteq received'[e]
  BY <1>1, MonotoneStep DEF Monotone
<1>3. ASSUME NEW r \in Relay, pc[r] = "publishing" \/ open[r] # {}
      PROVE  rows[Current(r)].status # "absent"
  BY <1>1, <1>3, CurrentOfBatch DEF HasCurrent
<1>. DEFINE Goal == /\ \A e \in Event : received'[e] # received[e] => rows[e].status # "absent"
                    /\ \A x \in late' : x \in late \/ rows[x[1]].status # "absent"
<1>4. ASSUME UNCHANGED <<received, late>>
      PROVE  Goal
  BY <1>4
<1>5. ASSUME NEW e \in Event, NEW d \in Destination, LateSendLands(e, d)
      PROVE  Goal
  <2>1. rows[e].status # "absent"
    BY <1>1, <1>5 DEF LateSendLands, CapturedOnly
  <2>. QED  BY <1>1, <1>5, <2>1 DEF LateSendLands, TypeOK
<1>6. ASSUME NEW r \in Relay, Exit(r) \/ Crash(r)
      PROVE  Goal
  BY <1>3, <1>6 DEF Exit, Crash, ProcessGone
<1>7. ASSUME NEW r \in Relay, NEW d \in Destination, SendResolves(r, d) \/ SendRejects(r, d)
      PROVE  Goal
  <2>1. pc[r] = "publishing"
    BY <1>7 DEF SendResolves, SendRejects
  <2>2. \A e \in Event : received'[e] # received[e] => e = Current(r)
    BY <1>1, <1>7 DEF SendResolves, SendRejects, TypeOK
  <2>3. \A x \in late' : x \in late \/ x[1] = Current(r)
    BY <1>7 DEF SendResolves, SendRejects
  <2>. QED  BY <1>3, <2>1, <2>2, <2>3
<1>8. ASSUME \/ \E e \in Event : Capture(e)
             \/ \E r \in Relay : \/ Bootstrap(r) \/ Destroy(r) \/ Tick(r)
                                 \/ Find(r) \/ FindFails(r) \/ NextEvent(r) \/ DrainDone(r)
                                 \/ SaveReads(r) \/ Save(r) \/ SaveFails(r) \/ RecoveryFails(r)
      PROVE  Goal
  BY <1>4, <1>8 DEF Capture, Bootstrap, Destroy, Tick, Find, FindFails, NextEvent,
                    StartSends, NoDestination, DrainDone, SaveReads, Save, SaveFails,
                    RecoveryFails
<1>9. Goal
  BY <1>4, <1>5, <1>6, <1>7, <1>8 DEF Next, LifeStep, DrainStep, vars
<1>. QED  BY <1>2, <1>9 DEF DeliveryStep

\* The table changes by a capture, or by a save that writes one outcome.
LEMMA SoloTable ==
    ASSUME SoloInv, ~LostReplies, [Next]_vars
    PROVE  TableStep
<1>1. CASE UNCHANGED rows
  BY <1>1 DEF TableStep
<1>2. ASSUME NEW e \in Event, Capture(e)
      PROVE  TableStep
  <2>1. rows \in [Event -> Row]
    BY DEF SoloInv, IInv, TypeOK
  <2>. QED  BY <1>2, <2>1 DEF Capture, TableStep
<1>3. ASSUME NEW r \in Relay, Save(r)
      PROVE  TableStep
  <2>. DEFINE cur == Current(r)
  <2>1. batch[r] # <<>> /\ pc[r] \in {"saving", "recovering"}
    BY <1>3 DEF Save, SoloInv, HasCurrent
  <2>2. /\ cur \in Event /\ cur \in Range(batch[r]) /\ rows[cur] \in Row
        /\ rows[cur].status = "pending" /\ rows[cur].attempts < MaxAttempts
    BY <2>1, CurrentOfBatch
  <2>3. entity[r][cur] \in Outcomes(rows[cur])
    BY <2>1, <2>2 DEF SoloInv, SessionOK, Ended
  <2>4. entity[r][cur].status = "published" => Trusted \subseteq received[cur]
    BY <2>2 DEF SoloInv, IInv, Honest, Backed
  <2>5. /\ rows'[cur] = entity[r][cur]
        /\ \A e \in Event : e # cur => rows'[e] = rows[e]
    BY <1>3, <2>2, SoloWrite DEF SoloInv, IInv, TypeOK
  <2>6. \/ /\ rows'[cur].status = "published"
           /\ rows'[cur].attempts \in {rows[cur].attempts, rows[cur].attempts + 1}
           /\ rows'[cur].attempts < MaxAttempts
        \/ /\ rows'[cur].attempts = rows[cur].attempts + 1
           /\ rows'[cur].status = IF rows[cur].attempts + 1 < MaxAttempts THEN "pending" ELSE "failed"
    BY <2>2, <2>3, <2>5, OutcomeKinds
  <2>. QED  BY <2>2, <2>4, <2>5, <2>6 DEF TableStep
<1>4. CASE \/ \E r \in Relay : SaveFails(r) \/ RecoveryFails(r)
  BY <1>1, <1>4 DEF SaveFails, RecoveryFails, WriteRowFails
<1>5. CASE \/ \E e \in Event, d \in Destination : LateSendLands(e, d)
           \/ \E r \in Relay : LifeStep(r) \/ Tick(r)
  BY <1>1, <1>5 DEF LateSendLands, LifeStep, Bootstrap, Destroy, Exit, Crash,
                    ProcessGone, Tick
<1>6. CASE \/ \E r \in Relay : \/ Find(r) \/ FindFails(r) \/ NextEvent(r)
                               \/ SaveReads(r) \/ DrainDone(r)
           \/ \E r \in Relay, d \in Destination : SendResolves(r, d) \/ SendRejects(r, d)
  BY <1>1, <1>6 DEF Find, FindFails, NextEvent, StartSends, NoDestination, DrainDone,
                    SaveReads, SendResolves, SendRejects
<1>. QED  BY <1>1, <1>2, <1>3, <1>4, <1>5, <1>6 DEF Next, DrainStep, vars

\* A drain that keeps its batch and entities, on rows that stay.
LEMMA SessionStays ==
    ASSUME NEW r \in Relay, SessionOK(r), batch'[r] = batch[r], entity'[r] = entity[r],
           \A e \in Range(batch[r]) : rows'[e] = rows[e],
           \/ pc'[r] = pc[r]
           \/ /\ {pc[r], pc'[r]} \cap {"saving", "recovering"} = {}
              /\ pc'[r] \in {"idle", "finding"} => pc[r] \in {"idle", "finding"}
    PROVE  SessionOK(r)'
BY DEF SessionOK, Ended, Current

\* An attempt that ends leaves its outcome in the entity.
LEMMA SessionEnds ==
    ASSUME SoloInv, NEW r \in Relay, batch[r] # <<>>, batch' = batch, rows' = rows,
           NEW x \in Outcomes(rows[Current(r)]),
           entity' = [entity EXCEPT ![r][Current(r)] = x],
           \/ pc' = [pc EXCEPT ![r] = "recovering"]
           \/ pc' = [pc EXCEPT ![r] = "saving"] /\ x = Succeeded(rows[Current(r)])
    PROVE  SessionOK(r)'
<1>. DEFINE cur == Current(r)
<1>1. cur \in Event /\ rows[cur].status = "pending"
  BY CurrentOfBatch
<1>2. /\ entity[r] \in [Event -> Row] /\ entity'[r] = [entity[r] EXCEPT ![cur] = x]
      /\ Range(batch[r]) \subseteq Event
      /\ pc'[r] = "recovering" \/ (pc'[r] = "saving" /\ x = Succeeded(rows[cur]))
  BY DEF SoloInv, IInv, TypeOK, Range
<1>3. entity'[r][cur] = x /\ \A e \in Event : e # cur => entity'[r][e] = entity[r][e]
  BY <1>1, <1>2
<1>4. \A e \in Event : (e = cur => Ended(r, e)') /\ (e # cur => ~Ended(r, e) /\ ~Ended(r, e)')
  BY <1>2 DEF Ended, Current
<1>5. SessionOK(r)
  BY DEF SoloInv
<1>. QED  BY <1>1, <1>2, <1>3, <1>4, <1>5 DEF SessionOK

LEMMA SessionFind ==
    ASSUME SoloInv, NEW r \in Relay, Find(r)
    PROVE  SessionOK(r)'
<1>1. PICK b \in Batches(rows) :
         /\ batch' = [batch EXCEPT ![r] = b]
         /\ entity' = [entity EXCEPT ![r] = Snapshot(b, rows)]
  BY DEF Find
<1>2. /\ batch'[r] = b /\ entity'[r] = Snapshot(b, rows)
      /\ rows \in [Event -> Row] /\ rows' = rows /\ pc'[r] = "next"
  BY <1>1 DEF SoloInv, IInv, TypeOK, Find
<1>3. b \in Seq(Event) /\ \A i \in DOMAIN b : rows[b[i]].status = "pending"
  BY <1>2, BatchFacts
<1>4. \A e \in Range(b) : e \in Event /\ rows[e].status = "pending"
  BY <1>3 DEF Range
<1>5. \A e \in Range(b) : Snapshot(b, rows)[e] = rows[e]
  BY <1>4 DEF Snapshot
<1>. QED  BY <1>2, <1>4, <1>5 DEF SessionOK, Ended

\* The row takes the outcome; the rest of the batch is untouched.
LEMMA SessionSave ==
    ASSUME SoloInv, NEW r \in Relay, Save(r)
    PROVE  SessionOK(r)'
<1>. DEFINE cur == Current(r)
<1>1. batch[r] # <<>>
  BY DEF Save, SoloInv, HasCurrent
<1>2. /\ pc'[r] = "next" /\ batch'[r] = Tail(batch[r]) /\ entity' = entity
      /\ batch[r] \in Seq(Event) /\ IsInjective(batch[r])
      /\ \A e \in Event : e # cur => rows'[e] = rows[e]
  BY SoloWrite DEF Save, SoloInv, IInv, TypeOK, BatchInv
<1>3. Range(batch'[r]) = Range(batch[r]) \ {cur}
  BY <1>1, <1>2, TailOfInjective DEF Current
<1>4. Range(batch[r]) \subseteq Event
  BY <1>2 DEF Range
<1>5. \A e \in Range(batch'[r]) : rows'[e] = rows[e] /\ ~Ended(r, e) /\ ~Ended(r, e)'
  BY <1>2, <1>3, <1>4 DEF Ended
<1>. QED  BY <1>2, <1>3, <1>5 DEF SoloInv, SessionOK

LEMMA SoloSession ==
    ASSUME SoloInv, ~LostReplies, OneRelay, [Next]_vars
    PROVE  \A r \in Relay : SessionOK(r)'
<1>. SUFFICES ASSUME NEW r \in Relay PROVE SessionOK(r)'
  OBVIOUS
<1>0. /\ SessionOK(r) /\ TypeOK /\ HasCurrent /\ \A q \in Relay : q = r
      /\ Range(batch[r]) \subseteq Event
  BY DEF SoloInv, IInv, OneRelay, TypeOK, Range
<1>1. CASE UNCHANGED <<rows, pc, batch, entity>>
  BY <1>0, <1>1, SessionStays
<1>2. CASE batch'[r] = <<>>
  BY <1>2 DEF SessionOK, Range
<1>3. ASSUME NEW e \in Event, Capture(e)
      PROVE  SessionOK(r)'
  <2>1. \A f \in Range(batch[r]) : rows'[f] = rows[f]
    BY <1>0, <1>3 DEF SessionOK, Capture, TypeOK
  <2>. QED  BY <1>0, <1>3, <2>1, SessionStays DEF Capture, local
<1>4. CASE \/ \E e \in Event, d \in Destination : LateSendLands(e, d)
           \/ Bootstrap(r) \/ Destroy(r)
  BY <1>1, <1>4 DEF LateSendLands, Bootstrap, Destroy, local
<1>5. CASE Exit(r) \/ Crash(r) \/ FindFails(r) \/ DrainDone(r) \/ RecoveryFails(r)
  BY <1>0, <1>2, <1>5
     DEF Exit, Crash, ProcessGone, FindFails, DrainDone, RecoveryFails, LeaveDrain, TypeOK
<1>6. CASE Tick(r) \/ StartSends(r)
  <2>1. UNCHANGED <<rows, batch, entity>>
    BY <1>6 DEF Tick, StartSends
  <2>2. \/ pc[r] = "idle" /\ pc'[r] = "finding"
        \/ pc[r] = "next" /\ pc'[r] = "publishing"
    BY <1>0, <1>6 DEF Tick, StartSends, TypeOK
  <2>. QED  BY <1>0, <2>1, <2>2, SessionStays
<1>7. ASSUME batch[r] # <<>>, pc[r] \in {"next", "publishing"}
      PROVE  entity[r][Current(r)] = rows[Current(r)]
  BY <1>0, <1>7, CurrentOfBatch DEF SessionOK, Ended
<1>8. CASE NoDestination(r)
  BY <1>7, <1>8, SessionEnds DEF NoDestination, Catch, Outcomes
<1>9. ASSUME NEW d \in Destination, SendResolves(r, d) \/ SendRejects(r, d)
      PROVE  SessionOK(r)'
  <2>1. /\ pc[r] = "publishing" /\ batch[r] # <<>>
        /\ rows' = rows /\ batch' = batch
    BY <1>0, <1>9 DEF SendResolves, SendRejects, HasCurrent
  <2>2. CASE UNCHANGED <<pc, entity>>
    BY <1>1, <2>1, <2>2
  <2>3. CASE ~UNCHANGED <<pc, entity>>
    BY <1>7, <1>9, <2>1, <2>3, SessionEnds DEF SendResolves, SendRejects, Catch, Outcomes
  <2>. QED  BY <2>2, <2>3
<1>10. CASE SaveFails(r)
  <2>1. batch[r] # <<>> /\ rows' = rows /\ batch' = batch /\ Catch(r) /\ pc[r] = "saving"
    BY <1>0, <1>10 DEF SaveFails, WriteRowFails, HasCurrent
  <2>2. entity[r][Current(r)] = Succeeded(rows[Current(r)])
    BY <1>0, <2>1, CurrentOfBatch DEF SessionOK, Ended
  <2>. QED  BY <2>1, <2>2, SessionEnds DEF Catch, Outcomes
<1>11. CASE SaveReads(r)
  BY <1>1, <1>11 DEF SaveReads
<1>. QED
  BY <1>0, <1>1, <1>3, <1>4, <1>5, <1>6, <1>8, <1>9, <1>10, <1>11, SessionFind, SessionSave
     DEF Next, LifeStep, DrainStep, NextEvent, vars

\* Between the two statements of a save nobody else changes the row.
LEMMA SoloSeen ==
    ASSUME SoloInv, ~LostReplies, OneRelay, [Next]_vars
    PROVE  \A r \in Relay : SeenOK(r)'
<1>. SUFFICES ASSUME NEW r \in Relay PROVE SeenOK(r)'
  OBVIOUS
<1>0. /\ SeenOK(r) /\ TypeOK /\ HasCurrent /\ \A q \in Relay : q = r
  BY DEF SoloInv, IInv, OneRelay
<1>1. CASE UNCHANGED <<rows, batch, seen>>
  BY <1>0, <1>1 DEF SeenOK, Current
<1>2. CASE seen'[r] = AbsentRow
  BY <1>2 DEF SeenOK
<1>3. ASSUME NEW e \in Event, Capture(e)
      PROVE  SeenOK(r)'
  <2>1. UNCHANGED <<batch, seen>> /\ rows[e].status = "absent"
    BY <1>3 DEF Capture, local
  <2>2. batch[r] # <<>> => rows'[Current(r)] = rows[Current(r)]
    BY <1>0, <1>3, <2>1, CurrentOfBatch DEF Capture, TypeOK
  <2>. QED  BY <1>0, <2>1, <2>2 DEF SeenOK, Current
<1>4. CASE SaveReads(r)
  <2>1. seen'[r] = rows[Current(r)] /\ UNCHANGED <<rows, batch>> /\ batch[r] # <<>>
    BY <1>0, <1>4 DEF SaveReads, TypeOK, HasCurrent
  <2>. QED  BY <2>1 DEF SeenOK, Current
<1>5. CASE \/ \E e \in Event, d \in Destination : LateSendLands(e, d)
           \/ Bootstrap(r) \/ Destroy(r) \/ Tick(r) \/ StartSends(r)
           \/ \E d \in Destination : SendResolves(r, d)
  BY <1>1, <1>5 DEF LateSendLands, Bootstrap, Destroy, Tick, StartSends, SendResolves, local
<1>6. CASE \/ Exit(r) \/ Crash(r) \/ FindFails(r) \/ DrainDone(r) \/ RecoveryFails(r)
           \/ NoDestination(r) \/ Save(r) \/ SaveFails(r)
           \/ \E d \in Destination : SendRejects(r, d)
  <2>1. seen' = [seen EXCEPT ![r] = AbsentRow]
    BY <1>6 DEF Exit, Crash, ProcessGone, FindFails, DrainDone, RecoveryFails, LeaveDrain,
                NoDestination, Catch, Save, SaveFails, SendRejects
  <2>. QED  BY <1>0, <1>2, <2>1 DEF TypeOK
<1>7. CASE Find(r)
  <2>1. batch[r] = <<>> /\ UNCHANGED seen
    BY <1>7 DEF Find, SoloInv, SessionOK
  <2>. QED  BY <1>0, <1>2, <2>1 DEF SeenOK
<1>. QED
  BY <1>0, <1>1, <1>3, <1>4, <1>5, <1>6, <1>7 DEF Next, LifeStep, DrainStep, NextEvent, vars

LEMMA SoloStep ==
    SoloInv /\ OneRelay /\ ~LostReplies /\ [Next]_vars
        => SoloInv' /\ TableStep /\ DeliveryStep
<1>. SUFFICES ASSUME SoloInv, OneRelay, ~LostReplies, [Next]_vars
              PROVE  SoloInv' /\ TableStep /\ DeliveryStep
  OBVIOUS
<1>1. IInv' /\ HasCurrent'
  BY InvStep, TypeStep DEF SoloInv, IInv
<1>2. TableStep /\ DeliveryStep /\ \A r \in Relay : SessionOK(r)' /\ SeenOK(r)'
  BY SoloTable, SoloDelivery, SoloSession, SoloSeen
<1>3. \A e \in Event : rows[e].status # "absent" => rows'[e].status # "absent"
  BY <1>2 DEF TableStep
<1>4. \A e \in Event : rows'[e].status = "absent" => rows'[e].attempts = 0
  BY <1>2 DEF TableStep, NewRow, SoloInv, CapturedOnly
<1>5. \A x \in late' : x[1] \in Event
  BY <1>1 DEF IInv, TypeOK
<1>6. \A x \in late' : rows'[x[1]].status # "absent"
  BY <1>3, <1>5, SoloDelivery DEF SoloInv, CapturedOnly
<1>7. ASSUME NEW e \in Event
      PROVE  WithinCap(rows[e])'
  <2>1. WithinCap(rows[e]) /\ rows[e].attempts \in Nat /\ MaxAttempts \in Nat \ {0}
    BY EventTableAssumption DEF SoloInv, IInv, TypeOK, Row
  <2>. QED  BY <1>2, <2>1 DEF TableStep, WithinCap, NewRow
<1>. QED  BY <1>1, <1>2, <1>4, <1>6, <1>7 DEF SoloInv, CapturedOnly

\* A single relay over a database whose errors mean "not applied" gives an
\* event up only with MaxAttempts attempts on its counter, each of which called
\* every destination.
THEOREM FailedRetriedEverywhere ==
    ASSUME OneRelay, ~LostReplies
    PROVE  Spec => []FailedMeansRetriedEverywhere
<1>1. SoloInv => FailedMeansRetriedEverywhere
  <2>. SUFFICES ASSUME SoloInv, NEW e \in Event, rows[e].status = "failed"
                PROVE  /\ rows[e].attempts = MaxAttempts
                       /\ \A d \in Destination : sent[e][d] >= MaxAttempts
    BY DEF FailedMeansRetriedEverywhere
  <2>. QED  BY DEF SoloInv, WithinCap, IInv, Honest, Tried
<1>2. SoloInv /\ [Next]_vars => SoloInv'
  BY SoloStep
<1>. QED  BY <1>1, <1>2, SoloInit, PTL DEF Spec

\* What the table and the copies do is a step of the contract or leaves it.
LEMMA ContractStep ==
    ASSUME SoloInv, TableStep, DeliveryStep
    PROVE  Contract!Next
<1>. DEFINE status == [e \in Event |-> rows[e].status]
            attempts == [e \in Event |-> rows[e].attempts]
<1>1. Contract!Deliver
  BY DEF Contract!Deliver, DeliveryStep
<1>2. ASSUME NEW e \in Event
      PROVE  \/ Contract!Same(e) \/ Contract!Capture(e)
             \/ Contract!Publish(e) \/ Contract!CountFailure(e)
  <2>1. /\ status[e] = rows[e].status /\ status'[e] = rows'[e].status
        /\ attempts[e] = rows[e].attempts /\ attempts'[e] = rows'[e].attempts
    OBVIOUS
  <2>2. CASE rows'[e] = rows[e]
    BY <2>1, <2>2 DEF Contract!Same
  <2>3. CASE rows[e].status = "absent" /\ rows'[e] = NewRow
    BY <2>1, <2>3 DEF Contract!Capture, NewRow
  <2>4. CASE /\ rows[e].status = "pending"
             /\ Trusted \subseteq received[e]
             /\ rows'[e].status = "published"
             /\ rows'[e].attempts \in {rows[e].attempts, rows[e].attempts + 1}
             /\ rows'[e].attempts < MaxAttempts
    BY <2>1, <2>4 DEF Contract!Publish
  <2>5. CASE /\ rows[e].status = "pending"
             /\ rows'[e].attempts = rows[e].attempts + 1
             /\ rows'[e].status =
                    IF rows[e].attempts + 1 < MaxAttempts THEN "pending" ELSE "failed"
    BY <2>1, <2>5 DEF Contract!CountFailure
  <2>. QED  BY <2>2, <2>3, <2>4, <2>5 DEF TableStep
<1>. QED  BY <1>1, <1>2 DEF Contract!Next

\* A single relay over a database whose errors mean "not applied" implements
\* the outbox contract, whatever rejects late, is retried, or crashes.
THEOREM SoloImplementsContract ==
    ASSUME OneRelay, ~LostReplies
    PROVE  Spec => ImplementsContract
<1>1. Init => Contract!Init
  BY DEF Init, Contract!Init, AbsentRows, AbsentRow
<1>2. SoloInv /\ [Next]_vars => SoloInv' /\ [Contract!Next]_(Contract!vars)
  BY SoloStep, ContractStep
<1>. QED  BY <1>1, <1>2, SoloInit, PTL DEF Spec, Contract!Spec, ImplementsContract

-----------------------------------------------------------------------------
(* How often a destination was called for an event.                        *)

\* The calls the table does not count yet: the attempt is under way.
Uncounted(r, e) == pc[r] \in {"publishing", "saving", "recovering"} /\ e = Current(r)

\* A shutdown counts as a disruption when it begins: the attempt that the end
\* of the process cuts off is paid for in advance.
BudgetOK(e, d) ==
    /\ sent[e][d] <= rows[e].attempts + 1 + disruptions
    /\ (rows[e].status # "published" /\ \A r \in Relay : ~Uncounted(r, e)) =>
            sent[e][d] <= rows[e].attempts + disruptions
    /\ \A r \in Relay : life[r] = "closing" /\ rows[e].status # "published" =>
            /\ sent[e][d] <= rows[e].attempts + disruptions
            /\ ~Uncounted(r, e) => sent[e][d] + 1 <= rows[e].attempts + disruptions

BudgetInv == SoloInv /\ \A e \in Event, d \in Destination : BudgetOK(e, d)

LEMMA BudgetInit == Init => BudgetInv
<1>. SUFFICES ASSUME Init PROVE BudgetInv
  OBVIOUS
<1>1. \A e \in Event, d \in Destination : BudgetOK(e, d)
  BY DEF Init, BudgetOK, AbsentRows, AbsentRow
<1>. QED  BY <1>1, SoloInit DEF BudgetInv

\* The numbers the budget is about.
LEMMA BudgetTypes ==
    ASSUME SoloInv, NEW e \in Event, NEW d \in Destination
    PROVE  sent[e][d] \in Nat /\ rows[e].attempts \in Nat /\ disruptions \in Nat
BY TsRelayAssumption DEF SoloInv, IInv, TypeOK, Row

\* A step that calls nobody and saves nothing: what it leaves uncounted was so
\* before, and no shutdown begins.
LEMMA BudgetSame ==
    ASSUME BudgetInv, UNCHANGED <<sent, disruptions>>,
           \A e \in Event : rows'[e].attempts = rows[e].attempts
                         /\ (rows[e].status = "published" => rows'[e].status = "published"),
           \A r \in Relay : life'[r] = "closing" => life[r] = "closing",
           \A r \in Relay, e \in Event : Uncounted(r, e) => Uncounted(r, e)'
    PROVE  \A e \in Event, d \in Destination : BudgetOK(e, d)'
<1>. SUFFICES ASSUME NEW e \in Event, NEW d \in Destination
              PROVE  BudgetOK(e, d)'
  OBVIOUS
<1>1. BudgetOK(e, d)
  BY DEF BudgetInv
<1>. QED  BY <1>1 DEF BudgetOK

\* A disruption pays for the attempt under way.
LEMMA BudgetDisrupted ==
    ASSUME BudgetInv, OneRelay, UNCHANGED <<sent, rows>>, Disrupted,
           \A r \in Relay : life'[r] = "closing" =>
                life[r] = "closing" \/ UNCHANGED <<pc, batch>>
    PROVE  \A e \in Event, d \in Destination : BudgetOK(e, d)'
<1>. SUFFICES ASSUME NEW e \in Event, NEW d \in Destination
              PROVE  BudgetOK(e, d)'
  OBVIOUS
<1>1. BudgetOK(e, d) /\ SoloInv
  BY DEF BudgetInv
<1>2. /\ sent[e][d] \in Nat /\ rows[e].attempts \in Nat /\ disruptions \in Nat
      /\ disruptions' = disruptions + 1
  BY <1>1, BudgetTypes DEF Disrupted
<1>3. sent'[e][d] <= rows'[e].attempts + disruptions'
  BY <1>1, <1>2 DEF BudgetOK
<1>4. ASSUME NEW r \in Relay, life'[r] = "closing", rows'[e].status # "published",
             ~Uncounted(r, e)'
      PROVE  sent'[e][d] + 1 <= rows'[e].attempts + disruptions'
  <2>1. sent[e][d] <= rows[e].attempts + disruptions
    <3>1. CASE life[r] = "closing"
      BY <1>1, <1>4, <3>1 DEF BudgetOK
    <3>2. CASE UNCHANGED <<pc, batch>>
      <4>1. \A q \in Relay : ~Uncounted(q, e)
        BY <1>4, <3>2 DEF OneRelay, Uncounted, Current
      <4>. QED  BY <1>1, <1>4, <4>1 DEF BudgetOK
    <3>. QED  BY <1>4, <3>1, <3>2
  <2>. QED  BY <1>2, <2>1
<1>5. sent'[e][d] <= rows'[e].attempts + 1 + disruptions'
  BY <1>2, <1>3
<1>. QED  BY <1>3, <1>4, <1>5 DEF BudgetOK

\* The process ends, and a shutdown has paid for what it cuts off.
LEMMA BudgetExit ==
    ASSUME BudgetInv, OneRelay, NEW r \in Relay, Exit(r)
    PROVE  \A e \in Event, d \in Destination : BudgetOK(e, d)'
<1>. SUFFICES ASSUME NEW e \in Event, NEW d \in Destination
              PROVE  BudgetOK(e, d)'
  OBVIOUS
<1>1. /\ life[r] = "closing" /\ life'[r] = "down" /\ \A q \in Relay : q = r
      /\ UNCHANGED <<sent, rows, disruptions>>
  BY DEF Exit, ProcessGone, OneRelay, BudgetInv, SoloInv, IInv, TypeOK
<1>2. BudgetOK(e, d)
  BY DEF BudgetInv
<1>. QED  BY <1>1, <1>2 DEF BudgetOK

\* Every destination is called at once, while no call is uncounted.
LEMMA BudgetStartSends ==
    ASSUME BudgetInv, OneRelay, NEW r \in Relay, StartSends(r)
    PROVE  \A e \in Event, d \in Destination : BudgetOK(e, d)'
<1>. SUFFICES ASSUME NEW e \in Event, NEW d \in Destination
              PROVE  BudgetOK(e, d)'
  OBVIOUS
<1>. DEFINE cur == Current(r)
<1>1. /\ pc[r] = "next" /\ pc'[r] = "publishing" /\ batch[r] # <<>>
      /\ UNCHANGED <<rows, life, batch, disruptions>>
      /\ sent' = [sent EXCEPT ![cur] = [x \in Destination |-> sent[cur][x] + 1]]
      /\ sent \in [Event -> [Destination -> Nat]]
  BY DEF StartSends, BudgetInv, SoloInv, IInv, TypeOK
<1>2. cur \in Event /\ rows[cur].status = "pending"
  BY <1>1, CurrentOfBatch DEF BudgetInv
<1>3. \A q \in Relay : q = r
  BY DEF OneRelay
<1>4. ~Uncounted(r, e) /\ (Uncounted(r, e)' <=> e = cur)
  BY <1>1 DEF Uncounted, Current
<1>5. /\ BudgetOK(e, d) /\ rows[e].attempts \in Nat /\ disruptions \in Nat
      /\ sent[e][d] \in Nat
  BY BudgetTypes DEF BudgetInv
<1>6. CASE e = cur
  <2>1. sent'[e][d] = sent[e][d] + 1
    BY <1>1, <1>2, <1>6
  <2>2. /\ sent[e][d] <= rows[e].attempts + disruptions
        /\ life[r] = "closing" => sent[e][d] + 1 <= rows[e].attempts + disruptions
    BY <1>2, <1>3, <1>4, <1>5, <1>6 DEF BudgetOK
  <2>3. /\ sent'[e][d] <= rows'[e].attempts + 1 + disruptions'
        /\ life'[r] = "closing" => sent'[e][d] <= rows'[e].attempts + disruptions'
    BY <1>1, <1>5, <2>1, <2>2
  <2>. QED  BY <1>3, <1>4, <1>6, <2>3 DEF BudgetOK
<1>7. CASE e # cur
  <2>1. sent'[e][d] = sent[e][d]
    BY <1>1, <1>2, <1>7
  <2>. QED  BY <1>1, <1>3, <1>4, <1>5, <2>1 DEF BudgetOK
<1>. QED  BY <1>6, <1>7

\* A save counts the attempt, or says it was the last.
LEMMA BudgetSave ==
    ASSUME BudgetInv, OneRelay, NEW r \in Relay, Save(r)
    PROVE  \A e \in Event, d \in Destination : BudgetOK(e, d)'
<1>. SUFFICES ASSUME NEW e \in Event, NEW d \in Destination
              PROVE  BudgetOK(e, d)'
  OBVIOUS
<1>. DEFINE cur == Current(r)
<1>1. /\ SoloInv /\ TypeOK /\ batch[r] # <<>> /\ pc[r] \in {"saving", "recovering"}
      /\ UNCHANGED <<sent, life, disruptions>>
  BY DEF Save, BudgetInv, SoloInv, IInv, HasCurrent
<1>2. /\ cur \in Event /\ cur \in Range(batch[r]) /\ rows[cur] \in Row
      /\ rows[cur].status = "pending" /\ rows[cur].attempts < MaxAttempts
  BY <1>1, CurrentOfBatch
<1>3. entity[r][cur] \in Outcomes(rows[cur])
  BY <1>1, <1>2 DEF SoloInv, SessionOK, Ended
<1>4. /\ rows'[cur] = entity[r][cur]
      /\ \A f \in Event : f # cur => rows'[f] = rows[f]
      /\ pc'[r] = "next"
  BY <1>1, <1>2, SoloWrite DEF Save, TypeOK
<1>5. \A q \in Relay : q = r
  BY DEF OneRelay
<1>6. /\ BudgetOK(e, d) /\ rows[e].attempts \in Nat /\ disruptions \in Nat
      /\ sent[e][d] \in Nat
  BY BudgetTypes DEF BudgetInv
<1>7. CASE e # cur
  <2>1. ~Uncounted(r, e) /\ rows'[e] = rows[e]
    BY <1>4, <1>7 DEF Uncounted
  <2>. QED  BY <1>1, <1>5, <1>6, <2>1 DEF BudgetOK
<1>8. CASE e = cur
  <2>1. \/ /\ rows'[e].status = "published"
           /\ rows'[e].attempts \in {rows[e].attempts, rows[e].attempts + 1}
        \/ rows'[e].attempts = rows[e].attempts + 1
    BY <1>2, <1>3, <1>4, <1>8, OutcomeKinds
  <2>2. sent'[e][d] <= rows'[e].attempts + 1 + disruptions'
    <3>1. sent[e][d] <= rows[e].attempts + 1 + disruptions
      BY <1>6 DEF BudgetOK
    <3>2. rows'[e].attempts = rows[e].attempts \/ rows'[e].attempts = rows[e].attempts + 1
      BY <2>1
    <3>. QED  BY <1>1, <1>6, <3>1, <3>2
  <2>3. ASSUME rows'[e].status # "published"
        PROVE  /\ sent'[e][d] <= rows'[e].attempts + disruptions'
               /\ life[r] = "closing" => sent'[e][d] + 1 <= rows'[e].attempts + disruptions'
    <3>1. rows'[e].attempts = rows[e].attempts + 1 /\ rows[e].status # "published"
      BY <1>2, <1>8, <2>1, <2>3
    <3>. QED  BY <1>1, <1>6, <3>1 DEF BudgetOK
  <2>. QED  BY <1>1, <1>5, <2>2, <2>3 DEF BudgetOK
<1>. QED  BY <1>7, <1>8

\* The steps that call nobody, save nothing and are no disruption.
LEMMA BudgetQuiet ==
    ASSUME BudgetInv, OneRelay,
           \/ \E e \in Event : Capture(e)
           \/ \E e \in Event, d \in Destination : LateSendLands(e, d)
           \/ \E r \in Relay : \/ Bootstrap(r) \/ Tick(r) \/ Find(r) \/ DrainDone(r)
                               \/ NoDestination(r) \/ SaveReads(r)
                               \/ \E d \in Destination : SendResolves(r, d) \/ SendRejects(r, d)
    PROVE  \A e \in Event, d \in Destination : BudgetOK(e, d)'
<1>0. TypeOK /\ \A q, r \in Relay : q = r
  BY DEF BudgetInv, SoloInv, IInv, OneRelay
<1>1. CASE \E e \in Event : Capture(e)
  <2>1. PICK e \in Event : Capture(e)
    BY <1>1
  <2>2. UNCHANGED <<sent, disruptions, life, pc, batch>>
    BY <2>1 DEF Capture, local
  <2>3. /\ rows[e].status = "absent" /\ rows[e].attempts = 0
        /\ rows'[e].attempts = 0
        /\ \A f \in Event : f # e => rows'[f] = rows[f]
    BY <1>0, <2>1 DEF Capture, NewRow, BudgetInv, SoloInv, CapturedOnly, TypeOK
  <2>. QED  BY <2>2, <2>3, BudgetSame DEF Uncounted, Current
<1>2. CASE \E e \in Event, d \in Destination : LateSendLands(e, d)
  <2>1. UNCHANGED <<sent, disruptions, life, pc, batch, rows>>
    BY <1>2 DEF LateSendLands, local
  <2>. QED  BY <2>1, BudgetSame DEF Uncounted, Current
<1>3. CASE \E r \in Relay : Bootstrap(r) \/ Tick(r) \/ Find(r) \/ DrainDone(r) \/ SaveReads(r)
  <2>1. PICK r \in Relay : Bootstrap(r) \/ Tick(r) \/ Find(r) \/ DrainDone(r) \/ SaveReads(r)
    BY <1>3
  <2>2. UNCHANGED <<sent, disruptions, rows>> /\ (life'[r] = "closing" => life[r] = "closing")
    BY <1>0, <2>1 DEF Bootstrap, Tick, Find, DrainDone, SaveReads, TypeOK
  <2>3. \A e \in Event : Uncounted(r, e) => Uncounted(r, e)'
    BY <1>0, <2>1 DEF Bootstrap, Tick, Find, DrainDone, SaveReads, local, Uncounted, Current
  <2>. QED  BY <1>0, <2>2, <2>3, BudgetSame
<1>4. CASE \E r \in Relay : \/ NoDestination(r)
                            \/ \E d \in Destination : SendResolves(r, d) \/ SendRejects(r, d)
  <2>1. PICK r \in Relay : \/ NoDestination(r)
                           \/ \E d \in Destination : SendResolves(r, d) \/ SendRejects(r, d)
    BY <1>4
  <2>2. UNCHANGED <<sent, disruptions, rows, life, batch>>
    BY <2>1 DEF NoDestination, SendResolves, SendRejects
  <2>3. pc'[r] = pc[r] \/ pc'[r] \in {"saving", "recovering"}
    BY <1>0, <2>1 DEF NoDestination, SendResolves, SendRejects, Catch, TypeOK
  <2>4. \A e \in Event : Uncounted(r, e) => Uncounted(r, e)'
    BY <2>2, <2>3 DEF Uncounted, Current
  <2>. QED  BY <1>0, <2>2, <2>4, BudgetSame
<1>. QED  BY <1>1, <1>2, <1>3, <1>4

LEMMA BudgetStep ==
    ASSUME OneRelay, ~LostReplies
    PROVE  BudgetInv /\ [Next]_vars => BudgetInv'
<1>. SUFFICES ASSUME BudgetInv, [Next]_vars PROVE BudgetInv'
  OBVIOUS
<1>1. SoloInv' /\ SoloInv
  BY SoloStep DEF BudgetInv
<1>2. CASE UNCHANGED vars
  BY <1>1, <1>2 DEF vars, BudgetInv, BudgetOK, Uncounted, Current
<1>3. ASSUME NEW r \in Relay,
             Destroy(r) \/ Crash(r) \/ FindFails(r) \/ SaveFails(r) \/ RecoveryFails(r)
      PROVE  \A e \in Event, d \in Destination : BudgetOK(e, d)'
  <2>1. UNCHANGED <<sent, rows>> /\ Disrupted
    BY <1>3 DEF Destroy, Crash, ProcessGone, FindFails, SaveFails, RecoveryFails, WriteRowFails
  <2>2. life \in [Relay -> {"down", "up", "closing"}]
    BY <1>1 DEF SoloInv, IInv, TypeOK
  <2>3. \A q \in Relay : life'[q] = "closing" => life[q] = "closing" \/ UNCHANGED <<pc, batch>>
    BY <1>3, <2>2 DEF Destroy, Crash, ProcessGone, FindFails, SaveFails, RecoveryFails, local
  <2>. QED  BY <2>1, <2>3, BudgetDisrupted
<1>4. CASE Next
  <2>1. \A e \in Event, d \in Destination : BudgetOK(e, d)'
    BY <1>3, <1>4, BudgetQuiet, BudgetExit, BudgetStartSends, BudgetSave
       DEF Next, LifeStep, DrainStep, NextEvent
  <2>. QED  BY <1>1, <2>1 DEF BudgetInv
<1>. QED  BY <1>2, <1>4

\* A single relay over a database whose errors mean "not applied" calls a
\* destination at most once per counted attempt, once for the attempt that
\* succeeds or is under way, and once per disruption.
THEOREM SoloSendsWithinBudget ==
    ASSUME OneRelay, ~LostReplies
    PROVE  Spec => []SendsWithinBudget
<1>1. BudgetInv => SendsWithinBudget
  BY DEF BudgetInv, BudgetOK, SendsWithinBudget
<1>. QED  BY <1>1, BudgetInit, BudgetStep, PTL DEF Spec
=============================================================================
