--------------------------- MODULE PyRelayProofs ---------------------------
(***************************************************************************)
(* Proofs about PyRelay, for any sets of events, destinations and pollers, *)
(* any attempt cap, any batch limit and any number of disruptions.         *)
(***************************************************************************)
EXTENDS PyRelay, EventTableProofs

-----------------------------------------------------------------------------
(* The inductive invariant: what a row or a session copy says is backed by *)
(* deliveries, and so is the progress of the attempt under way.            *)

\* A row, or a copy of one, that says published reached the trusted.
Backed(row, e) ==
    row.status = "published" => Trusted \subseteq received[e]

\* Where a drain may stand: it moves along Order only while it delivers, and
\* only for a current event.
StageOK(r) ==
    /\ pc[r] # "delivering" => step[r] = 1
    /\ step[r] # 1 => batch[r] # <<>>

\* The trusted destinations before the next one hold the current event.
Progress(r) ==
    \A i \in 1..(step[r] - 1) :
        Order[i] \in Trusted => Order[i] \in received[Current(r)]

RowsBacked == \A e \in Event : Backed(rows[e], e)

CopiesBacked == \A r \in Relay, e \in Event : Backed(entity[r][e], e)

IInv ==
    /\ TypeOK
    /\ \A r \in Relay : StageOK(r)
    /\ \A r \in Relay : Progress(r)
    /\ RowsBacked
    /\ CopiesBacked

-----------------------------------------------------------------------------
\* The initial states: nothing is captured, no drain runs.
LEMMA InvInit == Init => IInv
<1>. SUFFICES ASSUME Init PROVE IInv
  OBVIOUS
<1>1. TypeOK
  <2>1. 1 \in 1..Len(Order)
    BY PyRelayAssumption
  <2>. QED  BY <2>1, RowConstants, PyRelayAssumption DEF Init, TypeOK
<1>2. \A r \in Relay : StageOK(r) /\ Progress(r)
  BY DEF Init, StageOK, Progress
<1>3. RowsBacked /\ CopiesBacked
  BY DEF Init, RowsBacked, CopiesBacked, Backed, AbsentRows, AbsentRow
<1>. QED  BY <1>1, <1>2, <1>3 DEF IInv

\* The current event of a non-empty batch is an event, and the rest a batch.
LEMMA CurrentType ==
    ASSUME TypeOK, NEW r \in Relay, batch[r] # <<>>
    PROVE  /\ Current(r) \in Event
           /\ Tail(batch[r]) \in Seq(Event)
           /\ entity[r][Current(r)] \in Row
           /\ rows[Current(r)] \in Row
<1>1. Current(r) \in Event /\ Tail(batch[r]) \in Seq(Event)
  BY DEF TypeOK, Current
<1>. QED  BY <1>1 DEF TypeOK

\* A committed capture adds a pending row.
LEMMA CaptureInv ==
    ASSUME IInv, NEW e \in Event, Capture(e)
    PROVE  IInv'
<1>1. TypeOK'
  BY RowConstants DEF IInv, TypeOK, Capture, session
<1>2. RowsBacked'
  BY DEF IInv, TypeOK, RowsBacked, Backed, Capture, NewRow
<1>3. CopiesBacked' /\ \A r \in Relay : StageOK(r)' /\ Progress(r)'
  BY DEF IInv, CopiesBacked, Backed, StageOK, Progress, Current, Capture, session
<1>. QED  BY <1>1, <1>2, <1>3 DEF IInv

\* Closing a session resets what it holds.
LEMMA CloseSessionInv ==
    ASSUME IInv, NEW r \in Relay, CloseSession(r), UNCHANGED <<received, sent>>,
           rows' \in [Event -> Row], RowsBacked',
           life' \in [Relay -> {"down", "up", "stopping"}],
           disruptions' \in 0..MaxDisruptions
    PROVE  IInv'
<1>1. TypeOK'
  <2>1. /\ pc' \in [Relay -> {"idle", "delivering"}]
        /\ batch' \in [Relay -> Seq(Event)]
    BY DEF IInv, TypeOK, CloseSession
  <2>0. 1 \in 1..Len(Order)
    BY PyRelayAssumption
  <2>2. /\ step' \in [Relay -> 1..Len(Order)]
        /\ entity' \in [Relay -> [Event -> Row]]
    BY <2>0, RowConstants DEF IInv, TypeOK, CloseSession
  <2>. QED  BY <2>1, <2>2 DEF IInv, TypeOK
<1>3. CopiesBacked'
  BY DEF IInv, TypeOK, CopiesBacked, Backed, CloseSession, AbsentRows, AbsentRow
<1>4. ASSUME NEW q \in Relay
      PROVE  StageOK(q)' /\ Progress(q)'
  <2>1. StageOK(q) /\ Progress(q)
    BY DEF IInv
  <2>2. CASE q = r
    BY <2>2 DEF IInv, TypeOK, CloseSession, StageOK, Progress
  <2>3. CASE q # r
    BY <2>1, <2>3 DEF IInv, TypeOK, CloseSession, StageOK, Progress, Current
  <2>. QED  BY <2>2, <2>3
<1>. QED  BY <1>1, <1>3, <1>4 DEF IInv

\* Starts, shutdowns and crashes lose what is in memory only.
LEMMA LifeInv ==
    ASSUME IInv, NEW r \in Relay,
           Start(r) \/ Stop(r) \/ Stopped(r) \/ Crash(r)
    PROVE  IInv'
<1>1. /\ life' \in [Relay -> {"down", "up", "stopping"}]
      /\ disruptions' \in 0..MaxDisruptions
  <2>1. life' \in [Relay -> {"down", "up", "stopping"}]
    BY DEF IInv, TypeOK, Start, Stop, Stopped, Crash
  <2>2. disruptions' \in 0..MaxDisruptions
    <3>1. Disrupted \/ UNCHANGED disruptions
      BY DEF Start, Stop, Stopped, Crash
    <3>2. disruptions \in 0..MaxDisruptions
      BY DEF IInv, TypeOK
    <3>. QED  BY <3>1, <3>2, PyRelayAssumption DEF Disrupted
  <2>. QED  BY <2>1, <2>2
<1>2. CASE Start(r) \/ Stop(r) \/ Stopped(r)
  <2>1. UNCHANGED <<rows, received, sent, pc, batch, step, entity>>
    BY <1>2 DEF Start, Stop, Stopped, session
  <2>. QED
    BY <1>1, <2>1
       DEF IInv, TypeOK, RowsBacked, CopiesBacked, Backed, StageOK, Progress,
           Current
<1>3. CASE Crash(r)
  <2>1. rows' \in [Event -> Row] /\ RowsBacked'
    BY <1>3 DEF Crash, IInv, TypeOK, RowsBacked, Backed
  <2>. QED  BY <1>1, <1>3, <2>1, CloseSessionInv DEF Crash
<1>. QED  BY <1>2, <1>3

\* A drain loads copies of rows.
LEMMA LoadInv ==
    ASSUME IInv, NEW r \in Relay, Load(r)
    PROVE  IInv'
<1>1. PICK b \in Batches(rows) :
         /\ batch' = [batch EXCEPT ![r] = b]
         /\ entity' = [entity EXCEPT ![r] = Snapshot(b, rows)]
  BY DEF Load
<1>2. b \in Seq(Event) /\ Snapshot(b, rows) \in [Event -> Row]
  BY BatchFacts, SnapshotFacts DEF IInv, TypeOK
<1>3. \A e \in Event : Backed(Snapshot(b, rows)[e], e)
  <2>. SUFFICES ASSUME NEW e \in Event PROVE Backed(Snapshot(b, rows)[e], e)
    OBVIOUS
  <2>1. Snapshot(b, rows)[e] = rows[e] \/ Snapshot(b, rows)[e] = AbsentRow
    <3>1. rows \in [Event -> Row]
      BY DEF IInv, TypeOK
    <3>. QED  BY <3>1, SnapshotFacts
  <2>2. Backed(rows[e], e) /\ Backed(AbsentRow, e)
    BY DEF IInv, RowsBacked, Backed, AbsentRow
  <2>. QED  BY <2>1, <2>2
<1>4. TypeOK'
  BY <1>1, <1>2 DEF Load, IInv, TypeOK
<1>5. RowsBacked'
  BY DEF IInv, Load, RowsBacked, Backed
<1>6. CopiesBacked'
  BY <1>1, <1>3 DEF IInv, TypeOK, Load, CopiesBacked, Backed
<1>7. ASSUME NEW q \in Relay
      PROVE  StageOK(q)' /\ Progress(q)'
  <2>1. StageOK(q) /\ Progress(q)
    BY DEF IInv
  <2>2. CASE q = r
    <3>1. step'[r] = 1
      BY <2>1, <2>2 DEF Load, StageOK
    <3>. QED  BY <2>2, <3>1 DEF StageOK, Progress
  <2>3. CASE q # r
    BY <1>1, <2>1, <2>3 DEF IInv, TypeOK, Load, StageOK, Progress, Current
  <2>. QED  BY <2>2, <2>3
<1>. QED  BY <1>4, <1>5, <1>6, <1>7 DEF IInv

-----------------------------------------------------------------------------
(* Deliveries.  They only add to `received`, so what was backed stays so.  *)

\* A call, whatever its outcome, types its effects and only adds deliveries.
LEMMA CallFacts ==
    ASSUME IInv, NEW r \in Relay, CallDestination(r),
           CalleeReceives(r) \/ UNCHANGED received
    PROVE  /\ Current(r) \in Event
           /\ step[r] \in 1..Len(Order)
           /\ Callee(r) \in Destination
           /\ received' \in [Event -> SUBSET Destination]
           /\ sent' \in [Event -> [Destination -> Nat]]
           /\ \A e \in Event : received[e] \subseteq received'[e]
<1>1. Current(r) \in Event
  BY CurrentType DEF IInv, CallDestination
<1>2. step[r] \in 1..Len(Order)
  BY DEF IInv, TypeOK
<1>3. Callee(r) \in Destination
  BY <1>2, PyRelayAssumption DEF Callee
<1>4. received' \in [Event -> SUBSET Destination]
      /\ \A e \in Event : received[e] \subseteq received'[e]
  <2>1. CASE UNCHANGED received
    BY <2>1 DEF IInv, TypeOK
  <2>2. CASE CalleeReceives(r)
    <3>1. received[Current(r)] \cup {Callee(r)} \in SUBSET Destination
      BY <1>1, <1>3 DEF IInv, TypeOK
    <3>2. received' = [received EXCEPT ![Current(r)] =
                                   received[Current(r)] \cup {Callee(r)}]
      BY <2>2 DEF CalleeReceives
    <3>. QED  BY <1>1, <3>1, <3>2 DEF IInv, TypeOK
  <2>. QED  BY <2>1, <2>2
<1>5. sent' \in [Event -> [Destination -> Nat]]
  <2>1. sent[Current(r)][Callee(r)] + 1 \in Nat
    BY <1>1, <1>3 DEF IInv, TypeOK
  <2>2. sent' = [sent EXCEPT ![Current(r)][Callee(r)] =
                                 sent[Current(r)][Callee(r)] + 1]
    BY DEF CallDestination
  <2>. QED  BY <1>1, <1>3, <2>1, <2>2 DEF IInv, TypeOK
<1>. QED  BY <1>1, <1>2, <1>3, <1>4, <1>5

\* A drain that a step of another drain leaves alone stays where it was.
LEMMA OtherDrain ==
    ASSUME IInv, NEW q \in Relay,
           \A e \in Event : received[e] \subseteq received'[e],
           step'[q] = step[q], pc'[q] = pc[q], batch'[q] = batch[q]
    PROVE  StageOK(q)' /\ Progress(q)'
<1>1. StageOK(q) /\ Progress(q)
  BY DEF IInv
<1>2. step[q] # 1 => Current(q) \in Event
  BY <1>1, CurrentType DEF IInv, StageOK
<1>3. step[q] \in Nat
  BY PyRelayAssumption DEF IInv, TypeOK
<1>. QED  BY <1>1, <1>2, <1>3 DEF StageOK, Progress, Current

\* An attempt that ends with a backed outcome keeps the invariant.
LEMMA OutcomeInv ==
    ASSUME IInv, NEW r \in Relay, CallDestination(r),
           CalleeReceives(r) \/ UNCHANGED received,
           NEW row \in Row, Outcome(r, row),
           row.status = "published" => Trusted \subseteq received'[Current(r)]
    PROVE  IInv'
<1>. DEFINE cur == Current(r)
<1>0. 1 \in 1..Len(Order) /\ Tail(batch[r]) \in Seq(Event)
  BY CurrentType, PyRelayAssumption DEF CallDestination, IInv
<1>1. /\ cur \in Event
      /\ received' \in [Event -> SUBSET Destination]
      /\ sent' \in [Event -> [Destination -> Nat]]
      /\ \A e \in Event : received[e] \subseteq received'[e]
  BY CallFacts
<1>2. TypeOK'
  <2>1. batch' \in [Relay -> Seq(Event)] /\ step' \in [Relay -> 1..Len(Order)]
    BY <1>0 DEF IInv, TypeOK, Outcome
  <2>2. entity' \in [Relay -> [Event -> Row]]
    BY <1>1 DEF IInv, TypeOK, Outcome
  <2>. QED  BY <1>1, <2>1, <2>2 DEF IInv, TypeOK, CallDestination
<1>3. RowsBacked'
  BY <1>1 DEF IInv, RowsBacked, Backed, CallDestination
<1>4. CopiesBacked'
  <2>. SUFFICES ASSUME NEW q \in Relay, NEW e \in Event
                PROVE  Backed(entity[q][e], e)'
    BY DEF CopiesBacked
  <2>1. CASE q = r /\ e = cur
    <3>1. entity'[q][e] = row
      BY <1>1, <2>1 DEF IInv, TypeOK, Outcome
    <3>. QED  BY <2>1, <3>1 DEF Backed
  <2>2. CASE ~(q = r /\ e = cur)
    <3>1. entity'[q][e] = entity[q][e]
      BY <1>1, <2>2 DEF IInv, TypeOK, Outcome
    <3>. QED  BY <1>1, <3>1 DEF IInv, CopiesBacked, Backed
  <2>. QED  BY <2>1, <2>2
<1>5. ASSUME NEW q \in Relay
      PROVE  StageOK(q)' /\ Progress(q)'
  <2>1. CASE q = r
    <3>1. step'[r] = 1
      BY DEF IInv, TypeOK, Outcome
    <3>. QED  BY <2>1, <3>1 DEF StageOK, Progress
  <2>2. CASE q # r
    <3>1. step'[q] = step[q] /\ pc'[q] = pc[q] /\ batch'[q] = batch[q]
      BY <2>2 DEF IInv, TypeOK, Outcome, CallDestination
    <3>. QED  BY <1>1, <3>1, OtherDrain
  <2>. QED  BY <2>1, <2>2
<1>. QED  BY <1>2, <1>3, <1>4, <1>5 DEF IInv

\* The event is published only once the last destination returned; those whose
\* adapter sees refusals have accepted it by then.
LEMMA DeliverOkInv ==
    ASSUME IInv, NEW r \in Relay, DeliverOk(r)
    PROVE  IInv'
<1>. DEFINE cur == Current(r)
<1>0. /\ CallDestination(r)
      /\ CalleeReceives(r) \/ UNCHANGED received
      /\ Callee(r) \in Trusted => CalleeReceives(r)
  BY DEF DeliverOk, Trusted
<1>1. /\ cur \in Event
      /\ step[r] \in 1..Len(Order)
      /\ received' \in [Event -> SUBSET Destination]
      /\ sent' \in [Event -> [Destination -> Nat]]
      /\ \A e \in Event : received[e] \subseteq received'[e]
  BY <1>0, CallFacts
<1>2. \A i \in 1..step[r] : Order[i] \in Trusted => Order[i] \in received'[cur]
  <2>1. Order[step[r]] \in Trusted => Order[step[r]] \in received'[cur]
    BY <1>0, <1>1 DEF CalleeReceives, Callee, IInv, TypeOK
  <2>2. \A i \in 1..(step[r] - 1) :
           Order[i] \in Trusted => Order[i] \in received'[cur]
    BY <1>1 DEF IInv, Progress
  <2>. QED  BY <1>1, <2>1, <2>2, PyRelayAssumption
<1>3. CASE step[r] < Len(Order) /\ step' = [step EXCEPT ![r] = step[r] + 1]
           /\ UNCHANGED <<batch, entity>>
  <2>0. Len(Order) \in Nat /\ step[r] \in Nat /\ step[r] + 1 \in 1..Len(Order)
    BY <1>1, <1>3, PyRelayAssumption
  <2>1. TypeOK'
    BY <1>0, <1>1, <1>3, <2>0 DEF IInv, TypeOK, CallDestination
  <2>2. RowsBacked'
    BY <1>0, <1>1 DEF IInv, RowsBacked, Backed, CallDestination
  <2>3. CopiesBacked'
    BY <1>1, <1>3 DEF IInv, CopiesBacked, Backed
  <2>4. ASSUME NEW q \in Relay
        PROVE  StageOK(q)' /\ Progress(q)'
    <3>1. CASE q = r
      <4>1. /\ step'[r] = step[r] + 1 /\ pc'[r] = "delivering"
            /\ batch'[r] = batch[r] /\ batch[r] # <<>>
        BY <1>0, <1>3 DEF IInv, TypeOK, CallDestination
      <4>2. StageOK(r)'
        BY <4>1 DEF StageOK
      <4>3. Progress(r)'
        BY <1>2, <2>0, <4>1 DEF Progress, Current
      <4>. QED  BY <3>1, <4>2, <4>3
    <3>2. CASE q # r
      <4>1. step'[q] = step[q] /\ pc'[q] = pc[q] /\ batch'[q] = batch[q]
        BY <1>0, <1>3, <3>2 DEF IInv, TypeOK, CallDestination
      <4>. QED  BY <1>1, <4>1, OtherDrain
    <3>. QED  BY <3>1, <3>2
  <2>. QED  BY <2>1, <2>2, <2>3, <2>4 DEF IInv
<1>4. CASE step[r] = Len(Order) /\ Outcome(r, Succeeded(entity[r][Current(r)]))
  <2>1. Trusted \subseteq received'[cur]
    <3>1. \A d \in Destination : \E i \in 1..Len(Order) : Order[i] = d
      BY PyRelayAssumption DEF Range
    <3>. QED  BY <1>2, <1>4, <3>1 DEF Trusted
  <2>2. entity[r][Current(r)] \in Row
    BY <1>0, CurrentType DEF CallDestination, IInv
  <2>3. Succeeded(entity[r][Current(r)]) \in Row
    BY <2>2, RowUpdates
  <2>. QED  BY <1>0, <1>4, <2>1, <2>3, OutcomeInv
<1>. QED  BY <1>3, <1>4 DEF DeliverOk

\* A failed attempt publishes nothing.
LEMMA DeliverRaisesInv ==
    ASSUME IInv, NEW r \in Relay, DeliverRaises(r)
    PROVE  IInv'
<1>1. /\ CallDestination(r)
      /\ CalleeReceives(r) \/ UNCHANGED received
      /\ Outcome(r, CountFailure(entity[r][Current(r)]))
  BY DEF DeliverRaises
<1>2. Current(r) \in Event /\ \A e \in Event : received[e] \subseteq received'[e]
  BY <1>1, CallFacts
<1>3. entity[r][Current(r)] \in Row
  BY <1>1, CurrentType DEF CallDestination, IInv
<1>4. CountFailure(entity[r][Current(r)]) \in Row
  BY <1>3, RowUpdates
<1>5. CountFailure(entity[r][Current(r)]).status = "published" =>
         Trusted \subseteq received'[Current(r)]
  BY <1>2, <1>3, RowUpdates DEF IInv, CopiesBacked, Backed
<1>. QED  BY <1>1, <1>4, <1>5, OutcomeInv

-----------------------------------------------------------------------------
\* A commit publishes only what the session says was delivered, and a rollback
\* publishes nothing.
LEMMA CommitInv ==
    ASSUME IInv, NEW r \in Relay, Commit(r) \/ CommitFails(r)
    PROVE  IInv'
<1>1. /\ CloseSession(r)
      /\ UNCHANGED <<received, sent, life>>
      /\ UNCHANGED rows \/ WriteOutcomes(r)
  BY DEF Commit, CommitFails
<1>2. disruptions' \in 0..MaxDisruptions
  <2>1. Disrupted \/ UNCHANGED disruptions
    BY DEF Commit, CommitFails
  <2>2. disruptions \in 0..MaxDisruptions
    BY DEF IInv, TypeOK
  <2>. QED  BY <2>1, <2>2, PyRelayAssumption DEF Disrupted
<1>3. rows' \in [Event -> Row] /\ RowsBacked'
  <2>1. CASE UNCHANGED rows
    BY <1>1, <2>1 DEF IInv, TypeOK, RowsBacked, Backed
  <2>2. CASE WriteOutcomes(r)
    <3>1. ASSUME NEW e \in Event
          PROVE  /\ ColumnUpdate(rows[e], entity[r][e]) \in Row
                 /\ Backed(ColumnUpdate(rows[e], entity[r][e]), e)
                 /\ rows[e] \in Row /\ Backed(rows[e], e)
      <4>1. /\ rows[e] \in Row /\ entity[r][e] \in Row
            /\ Backed(rows[e], e) /\ Backed(entity[r][e], e)
        BY DEF IInv, TypeOK, RowsBacked, CopiesBacked
      <4>. QED  BY <4>1, ColumnUpdateFacts DEF Backed
    <3>2. ASSUME NEW e \in Event
          PROVE  \/ rows'[e] = rows[e]
                 \/ rows'[e] = ColumnUpdate(rows[e], entity[r][e])
      BY <2>2 DEF WriteOutcomes
    <3>3. rows' \in [Event -> Row]
      BY <2>2, <3>1 DEF WriteOutcomes
    <3>4. \A e \in Event : Backed(rows'[e], e)
      BY <3>1, <3>2
    <3>5. RowsBacked'
      BY <1>1, <3>4 DEF RowsBacked, Backed
    <3>. QED  BY <3>3, <3>5
  <2>. QED  BY <1>1, <2>1, <2>2
<1>4. life' \in [Relay -> {"down", "up", "stopping"}]
  BY <1>1 DEF IInv, TypeOK
<1>. QED  BY <1>1, <1>2, <1>3, <1>4, CloseSessionInv

LEMMA DrainInv ==
    ASSUME IInv, NEW r \in Relay, DrainStep(r)
    PROVE  IInv'
BY LoadInv, DeliverOkInv, DeliverRaisesInv, CommitInv DEF DrainStep

LEMMA InvStep == IInv /\ [Next]_vars => IInv'
<1>. SUFFICES ASSUME IInv, [Next]_vars PROVE IInv'
  OBVIOUS
<1>1. CASE UNCHANGED vars
  BY <1>1
     DEF vars, IInv, TypeOK, RowsBacked, CopiesBacked, Backed, StageOK, Progress,
         Current
<1>. QED  BY <1>1, CaptureInv, LifeInv, DrainInv DEF Next

\* Every reachable state is well typed.
THEOREM TypeCorrect == Spec => []TypeOK
<1>1. IInv => TypeOK
  BY DEF IInv
<1>. QED  BY <1>1, InvInit, InvStep, PTL DEF Spec

\* However many pollers share the table, and whatever commits fail: a row says
\* published only if every destination whose adapter sees refusals has it.
THEOREM PublishedDelivered == Spec => []PublishedMeansDelivered
<1>1. IInv => PublishedMeansDelivered
  BY DEF IInv, RowsBacked, Backed, PublishedMeansDelivered
<1>. QED  BY <1>1, InvInit, InvStep, PTL DEF Spec

-----------------------------------------------------------------------------
(* A single poller: it implements the outbox contract and never calls a     *)
(* destination beyond its budget.                                          *)

OnePoller == \E r : Relay = {r}

\* No destination is configured twice.
DistinctOrder == IsInjective(Order)

-----------------------------------------------------------------------------
(* What a session holds while nobody else writes the table.                *)

\* An event of the batch is as it was loaded.
TodoOK(r) ==
    /\ IsInjective(batch[r])
    /\ \A e \in Range(batch[r]) :
        rows[e].status = "pending" /\ entity[r][e] = rows[e]

\* An event that is done is pending in the table, and its copy one attempt on.
DoneOK(r) ==
    \A e \in Event \ Range(batch[r]) :
        entity[r][e].status # "absent" =>
            /\ rows[e].status = "pending"
            /\ entity[r][e] \in {Succeeded(rows[e]), CountFailure(rows[e])}

IdleOK(r) == pc[r] = "idle" => batch[r] = <<>> /\ entity[r] = AbsentRows

\* The attempts of a row fit its status.
CountOK(e) ==
    /\ rows[e].status = "absent" => rows[e].attempts = 0
    /\ rows[e].status = "pending" => rows[e].attempts < MaxAttempts

SoloInv ==
    /\ IInv
    /\ \A r \in Relay : TodoOK(r) /\ DoneOK(r) /\ IdleOK(r)
    /\ \A e \in Event : CountOK(e)

\* A step of the table as the contract allows it.
TableStep ==
    \A e \in Event :
        \/ rows'[e] = rows[e]
        \/ rows[e].status = "absent" /\ rows'[e] = NewRow
        \/ /\ rows[e].status = "pending"
           /\ Trusted \subseteq received[e]
           /\ rows'[e].status = "published"
           /\ rows'[e].attempts = rows[e].attempts
        \/ /\ rows[e].status = "pending"
           /\ rows'[e].attempts = rows[e].attempts + 1
           /\ rows'[e].status = IF rows[e].attempts + 1 < MaxAttempts THEN "pending" ELSE "failed"

\* Copies are never taken back, and only captured events are sent.
DeliveryStep ==
    \A e \in Event :
        /\ received[e] \subseteq received'[e]
        /\ received'[e] # received[e] => rows[e].status # "absent"

-----------------------------------------------------------------------------
LEMMA SoloInit == Init => SoloInv
<1>. SUFFICES ASSUME Init PROVE SoloInv
  OBVIOUS
<1>1. IInv
  BY InvInit
<1>2. \A r \in Relay : TodoOK(r) /\ DoneOK(r) /\ IdleOK(r)
  BY DEF Init, TodoOK, DoneOK, IdleOK, IsInjective, Range, AbsentRows, AbsentRow
<1>3. \A e \in Event : CountOK(e)
  BY DEF Init, CountOK, AbsentRows, AbsentRow
<1>. QED  BY <1>1, <1>2, <1>3 DEF SoloInv

\* A capture adds a row to the table, and nothing to the session.
LEMMA SoloCapture ==
    ASSUME SoloInv, NEW e \in Event, Capture(e)
    PROVE  SoloInv' /\ TableStep /\ DeliveryStep
<1>1. IInv'
  BY CaptureInv DEF SoloInv
<1>2. /\ rows \in [Event -> Row]
      /\ rows[e].status = "absent"
      /\ rows' = [rows EXCEPT ![e] = NewRow]
      /\ UNCHANGED <<received, pc, batch, entity>>
  BY DEF SoloInv, IInv, TypeOK, Capture, session
<1>3. \A f \in Event : f # e => rows'[f] = rows[f]
  BY <1>2
<1>4. rows'[e] = NewRow
  BY <1>2
<1>5. ASSUME NEW r \in Relay
      PROVE  TodoOK(r)' /\ DoneOK(r)' /\ IdleOK(r)'
  <2>1. TodoOK(r) /\ DoneOK(r) /\ IdleOK(r) /\ Range(batch[r]) \subseteq Event
    BY DEF SoloInv, IInv, TypeOK, Range
  <2>2. TodoOK(r)'
    BY <1>2, <1>3, <2>1 DEF TodoOK
  <2>3. DoneOK(r)'
    BY <1>2, <1>3, <2>1 DEF DoneOK
  <2>. QED  BY <1>2, <2>1, <2>2, <2>3 DEF IdleOK
<1>6. \A f \in Event : CountOK(f)'
  BY <1>3, <1>4, EventTableAssumption DEF SoloInv, CountOK, NewRow
<1>7. TableStep
  BY <1>2, <1>3, <1>4 DEF TableStep
<1>8. DeliveryStep
  BY <1>2 DEF DeliveryStep
<1>. QED  BY <1>1, <1>5, <1>6, <1>7, <1>8 DEF SoloInv

\* A closed session holds nothing.
LEMMA SoloClose ==
    ASSUME IInv, IInv', OnePoller, NEW r \in Relay, CloseSession(r),
           \A e \in Event : CountOK(e)'
    PROVE  SoloInv'
<1>1. \A q \in Relay : q = r
  BY DEF OnePoller
<1>2. batch'[r] = <<>> /\ entity'[r] = AbsentRows
  BY DEF IInv, TypeOK, CloseSession
<1>3. TodoOK(r)' /\ DoneOK(r)' /\ IdleOK(r)'
  BY <1>2 DEF TodoOK, DoneOK, IdleOK, IsInjective, Range, AbsentRows, AbsentRow
<1>. QED  BY <1>1, <1>3 DEF SoloInv

LEMMA SoloLife ==
    ASSUME SoloInv, OnePoller, NEW r \in Relay, Start(r) \/ Stop(r) \/ Stopped(r) \/ Crash(r)
    PROVE  SoloInv' /\ TableStep /\ DeliveryStep
<1>1. IInv'
  BY LifeInv DEF SoloInv
<1>2. rows' = rows /\ received' = received
  BY DEF Start, Stop, Stopped, Crash
<1>3. TableStep /\ DeliveryStep
  BY <1>2 DEF TableStep, DeliveryStep
<1>4. \A e \in Event : CountOK(e)'
  BY <1>2 DEF SoloInv, CountOK
<1>5. CASE Crash(r)
  BY <1>1, <1>3, <1>4, <1>5, SoloClose DEF SoloInv, Crash
<1>6. CASE Start(r) \/ Stop(r) \/ Stopped(r)
  <2>1. UNCHANGED <<pc, batch, entity>>
    BY <1>6 DEF Start, Stop, Stopped, session
  <2>2. \A q \in Relay : TodoOK(q)' /\ DoneOK(q)' /\ IdleOK(q)'
    BY <1>2, <2>1 DEF SoloInv, TodoOK, DoneOK, IdleOK
  <2>. QED  BY <1>1, <1>3, <1>4, <2>2 DEF SoloInv
<1>. QED  BY <1>5, <1>6

LEMMA SoloLoad ==
    ASSUME SoloInv, OnePoller, NEW r \in Relay, Load(r)
    PROVE  SoloInv' /\ TableStep /\ DeliveryStep
<1>1. IInv'
  BY LoadInv DEF SoloInv
<1>2. rows' = rows /\ received' = received /\ pc'[r] = "delivering"
  BY DEF Load, SoloInv, IInv, TypeOK
<1>3. TableStep /\ DeliveryStep
  BY <1>2 DEF TableStep, DeliveryStep
<1>4. \A e \in Event : CountOK(e)'
  BY <1>2 DEF SoloInv, CountOK
<1>5. PICK b \in Batches(rows) :
         /\ batch' = [batch EXCEPT ![r] = b]
         /\ entity' = [entity EXCEPT ![r] = Snapshot(b, rows)]
  BY DEF Load
<1>6. batch'[r] = b /\ entity'[r] = Snapshot(b, rows)
  BY <1>5 DEF SoloInv, IInv, TypeOK
<1>7. rows \in [Event -> Row]
  BY DEF SoloInv, IInv, TypeOK
<1>8. /\ b \in Seq(Event) /\ IsInjective(b)
      /\ \A i \in DOMAIN b : rows[b[i]].status = "pending"
  BY <1>7, BatchFacts
<1>9. TodoOK(r)'
  <2>1. \A e \in Range(b) : e \in Event /\ rows[e].status = "pending"
    BY <1>8 DEF Range
  <2>2. \A e \in Range(b) : Snapshot(b, rows)[e] = rows[e]
    BY <2>1 DEF Snapshot
  <2>. QED  BY <1>2, <1>6, <1>8, <2>1, <2>2 DEF TodoOK
<1>10. DoneOK(r)'
  <2>1. \A e \in Event \ Range(b) : Snapshot(b, rows)[e].status = "absent"
    BY DEF Snapshot, AbsentRow
  <2>. QED  BY <1>6, <2>1 DEF DoneOK
<1>11. IdleOK(r)'
  BY <1>2 DEF IdleOK
<1>12. \A q \in Relay : q = r
  BY DEF OnePoller
<1>. QED  BY <1>1, <1>3, <1>4, <1>9, <1>10, <1>11, <1>12 DEF SoloInv

\* A call delivers a pending event, the head of the batch, whose copy in the
\* session is its row.
LEMMA SoloCall ==
    ASSUME SoloInv, NEW r \in Relay, CallDestination(r),
           CalleeReceives(r) \/ UNCHANGED received
    PROVE  /\ Current(r) \in Event /\ Current(r) \in Range(batch[r])
           /\ rows[Current(r)] \in Row /\ rows[Current(r)].status = "pending"
           /\ rows[Current(r)].attempts < MaxAttempts
           /\ entity[r][Current(r)] = rows[Current(r)]
           /\ TableStep /\ DeliveryStep
<1>1. /\ Current(r) \in Event
      /\ \A e \in Event : received[e] \subseteq received'[e]
  BY CallFacts DEF SoloInv
<1>2. batch[r] \in Seq(Event) /\ batch[r] # <<>>
  BY DEF CallDestination, SoloInv, IInv, TypeOK
<1>3. Current(r) \in Range(batch[r])
  BY <1>2 DEF Current, Range
<1>4. rows[Current(r)].status = "pending" /\ entity[r][Current(r)] = rows[Current(r)]
  BY <1>3 DEF SoloInv, TodoOK
<1>5. rows[Current(r)] \in Row /\ rows[Current(r)].attempts < MaxAttempts
  BY <1>1, <1>4 DEF SoloInv, CountOK, IInv, TypeOK
<1>6. TableStep
  BY DEF TableStep, CallDestination
<1>7. \A e \in Event : received'[e] # received[e] => e = Current(r)
  BY DEF CalleeReceives, SoloInv, IInv, TypeOK
<1>8. DeliveryStep
  BY <1>1, <1>4, <1>7 DEF DeliveryStep
<1>. QED  BY <1>1, <1>3, <1>4, <1>5, <1>6, <1>8

\* An attempt that ends moves its event from the batch to what is done.
LEMMA SoloOutcome ==
    ASSUME SoloInv, IInv', OnePoller, NEW r \in Relay, CallDestination(r),
           CalleeReceives(r) \/ UNCHANGED received,
           NEW row, Outcome(r, row),
           row \in {Succeeded(rows[Current(r)]), CountFailure(rows[Current(r)])}
    PROVE  SoloInv'
<1>. DEFINE cur == Current(r)
<1>1. /\ cur \in Event
      /\ rows[cur].status = "pending"
  BY SoloCall
<1>2. /\ rows' = rows /\ pc'[r] = "delivering"
      /\ batch[r] \in Seq(Event) /\ batch[r] # <<>> /\ IsInjective(batch[r])
      /\ batch'[r] = Tail(batch[r])
      /\ entity'[r] = [entity[r] EXCEPT ![cur] = row]
      /\ entity[r] \in [Event -> Row]
  BY DEF SoloInv, IInv, TypeOK, TodoOK, CallDestination, Outcome
<1>3. IsInjective(batch'[r]) /\ Range(batch'[r]) = Range(batch[r]) \ {cur}
  BY <1>2, TailOfInjective DEF Current
<1>4. Range(batch[r]) \subseteq Event
  BY <1>2 DEF Range
<1>5. TodoOK(r)'
  <2>1. \A e \in Range(batch'[r]) :
            rows[e].status = "pending" /\ entity[r][e] = rows[e]
    BY <1>3 DEF SoloInv, TodoOK
  <2>2. \A e \in Range(batch'[r]) : entity'[r][e] = entity[r][e]
    BY <1>2, <1>3, <1>4
  <2>. QED  BY <1>2, <1>3, <2>1, <2>2 DEF TodoOK
<1>6. DoneOK(r)'
  <2>1. entity'[r][cur] = row
    BY <1>1, <1>2
  <2>2. \A e \in Event : e # cur => entity'[r][e] = entity[r][e]
    BY <1>2
  <2>3. DoneOK(r)
    BY DEF SoloInv
  <2>. QED  BY <1>1, <1>2, <1>3, <2>1, <2>2, <2>3 DEF DoneOK
<1>7. IdleOK(r)'
  BY <1>2 DEF IdleOK
<1>8. \A e \in Event : CountOK(e)'
  BY <1>2 DEF SoloInv, CountOK
<1>9. \A q \in Relay : q = r
  BY DEF OnePoller
<1>. QED  BY <1>5, <1>6, <1>7, <1>8, <1>9 DEF SoloInv

LEMMA SoloDeliver ==
    ASSUME SoloInv, OnePoller, NEW r \in Relay, DeliverOk(r) \/ DeliverRaises(r)
    PROVE  SoloInv' /\ TableStep /\ DeliveryStep
<1>1. CallDestination(r) /\ (CalleeReceives(r) \/ UNCHANGED received)
  BY DEF DeliverOk, DeliverRaises
<1>2. IInv'
  BY DeliverOkInv, DeliverRaisesInv DEF SoloInv
<1>3. /\ entity[r][Current(r)] = rows[Current(r)]
      /\ TableStep /\ DeliveryStep
  BY <1>1, SoloCall
<1>4. CASE UNCHANGED <<batch, entity>>
  <2>1. UNCHANGED <<rows, pc, batch, entity>>
    BY <1>1, <1>4 DEF CallDestination
  <2>2. \A q \in Relay : TodoOK(q)' /\ DoneOK(q)' /\ IdleOK(q)'
    BY <2>1 DEF SoloInv, TodoOK, DoneOK, IdleOK
  <2>3. \A e \in Event : CountOK(e)'
    BY <2>1 DEF SoloInv, CountOK
  <2>. QED  BY <1>2, <1>3, <2>2, <2>3 DEF SoloInv
<1>5. CASE \/ Outcome(r, Succeeded(rows[Current(r)]))
           \/ Outcome(r, CountFailure(rows[Current(r)]))
  BY <1>1, <1>2, <1>3, <1>5, SoloOutcome
<1>. QED  BY <1>3, <1>4, <1>5 DEF DeliverOk, DeliverRaises

\* The whole batch is written at once, each row by one attempt, or not at all.
LEMMA SoloCommit ==
    ASSUME SoloInv, OnePoller, NEW r \in Relay, Commit(r) \/ CommitFails(r)
    PROVE  SoloInv' /\ TableStep /\ DeliveryStep
<1>1. /\ batch[r] = <<>> /\ CloseSession(r) /\ received' = received
      /\ UNCHANGED rows \/ WriteOutcomes(r)
  BY DEF Commit, CommitFails
<1>2. IInv'
  BY CommitInv DEF SoloInv
<1>3. DeliveryStep
  BY <1>1 DEF DeliveryStep
<1>4. TableStep
  <2>1. CASE UNCHANGED rows
    BY <2>1 DEF TableStep
  <2>2. CASE WriteOutcomes(r)
    <3>. SUFFICES ASSUME NEW e \in Event, entity[r][e].status # "absent"
         PROVE \/ /\ rows[e].status = "pending"
                  /\ Trusted \subseteq received[e]
                  /\ rows'[e].status = "published"
                  /\ rows'[e].attempts = rows[e].attempts
               \/ /\ rows[e].status = "pending"
                  /\ rows'[e].attempts = rows[e].attempts + 1
                  /\ rows'[e].status =
                        IF rows[e].attempts + 1 < MaxAttempts THEN "pending" ELSE "failed"
      BY <2>2 DEF TableStep, WriteOutcomes
    <3>1. rows'[e] = ColumnUpdate(rows[e], entity[r][e])
      BY <2>2 DEF WriteOutcomes
    <3>2. e \in Event \ Range(batch[r])
      BY <1>1 DEF Range
    <3>3. /\ rows[e].status = "pending"
          /\ entity[r][e] \in {Succeeded(rows[e]), CountFailure(rows[e])}
      BY <3>2 DEF SoloInv, DoneOK
    <3>4. rows[e] \in Row /\ rows[e].attempts < MaxAttempts
      BY <3>3 DEF SoloInv, CountOK, IInv, TypeOK
    <3>5. CASE entity[r][e] = Succeeded(rows[e])
      <4>1. Trusted \subseteq received[e]
        BY <3>4, <3>5, RowUpdates DEF SoloInv, IInv, CopiesBacked, Backed
      <4>. QED  BY <3>1, <3>3, <3>4, <3>5, <4>1, UpdateOfOutcome
    <3>6. CASE entity[r][e] = CountFailure(rows[e])
      BY <3>1, <3>3, <3>4, <3>6, UpdateOfOutcome
    <3>. QED  BY <3>3, <3>5, <3>6
  <2>. QED  BY <1>1, <2>1, <2>2
<1>5. \A e \in Event : CountOK(e)'
  BY <1>4, EventTableAssumption DEF SoloInv, CountOK, TableStep, NewRow
<1>. QED  BY <1>1, <1>2, <1>3, <1>4, <1>5, SoloClose DEF SoloInv

LEMMA SoloStep == SoloInv /\ OnePoller /\ [Next]_vars => SoloInv' /\ TableStep /\ DeliveryStep
<1>. SUFFICES ASSUME SoloInv, OnePoller, [Next]_vars
              PROVE  SoloInv' /\ TableStep /\ DeliveryStep
  OBVIOUS
<1>1. CASE UNCHANGED vars
  <2>1. IInv'
    BY <1>1, InvStep DEF SoloInv
  <2>. QED
    BY <1>1, <2>1
       DEF vars, SoloInv, TodoOK, DoneOK, IdleOK, CountOK, TableStep, DeliveryStep
<1>2. CASE Next
  BY <1>2, SoloCapture, SoloLife, SoloLoad, SoloDeliver, SoloCommit DEF Next, DrainStep
<1>. QED  BY <1>1, <1>2

-----------------------------------------------------------------------------
\* What the table and the copies do is a step of the contract or leaves it.
LEMMA ContractStep ==
    ASSUME SoloInv, SoloInv', TableStep, DeliveryStep
    PROVE  Contract!Next
<1>. DEFINE status == [e \in Event |-> rows[e].status]
            attempts == [e \in Event |-> rows[e].attempts]
<1>1. Contract!Deliver
  BY DEF Contract!Deliver, DeliveryStep
<1>2. ASSUME NEW e \in Event
      PROVE  \/ Contract!Same(e) \/ Contract!Capture(e)
             \/ Contract!Publish(e) \/ Contract!CountFailure(e)
  <2>1. /\ status[e] = rows[e].status /\ status'[e] = rows'[e].status
        /\ attempts[e] = rows[e].attempts /\ attempts'[e] = rows'[e].attempts
    OBVIOUS
  <2>2. rows[e].status = "pending" => rows[e].attempts < MaxAttempts
    BY DEF SoloInv, CountOK
  <2>3. CASE rows'[e] = rows[e]
    BY <2>1, <2>3 DEF Contract!Same
  <2>4. CASE rows[e].status = "absent" /\ rows'[e] = NewRow
    BY <2>1, <2>4 DEF Contract!Capture, NewRow
  <2>5. CASE /\ rows[e].status = "pending"
             /\ Trusted \subseteq received[e]
             /\ rows'[e].status = "published"
             /\ rows'[e].attempts = rows[e].attempts
    BY <2>1, <2>2, <2>5 DEF Contract!Publish
  <2>6. CASE /\ rows[e].status = "pending"
             /\ rows'[e].attempts = rows[e].attempts + 1
             /\ rows'[e].status =
                    IF rows[e].attempts + 1 < MaxAttempts THEN "pending" ELSE "failed"
    BY <2>1, <2>6 DEF Contract!CountFailure
  <2>. QED  BY <2>3, <2>4, <2>5, <2>6 DEF TableStep
<1>. QED  BY <1>1, <1>2 DEF Contract!Next

\* A single poller implements the outbox contract, whole batches at a time,
\* whatever commits fail or lose their replies and wherever it crashes.
THEOREM SoloImplementsContract ==
    ASSUME OnePoller
    PROVE  Spec => ImplementsContract
<1>1. Init => Contract!Init
  BY DEF Init, Contract!Init, AbsentRows, AbsentRow
<1>2. SoloInv /\ [Next]_vars => SoloInv' /\ [Contract!Next]_(Contract!vars)
  BY SoloStep, ContractStep
<1>. QED  BY <1>1, <1>2, SoloInit, PTL DEF Spec, Contract!Spec, ImplementsContract

-----------------------------------------------------------------------------
(* How often a destination was called for an event.                        *)

\* The call the table does not count yet: the event is done in the session, or
\* the attempt under way is past the destination.
Uncounted(r, e, d) ==
    \/ entity[r][e].status # "absent" /\ e \notin Range(batch[r])
    \/ /\ batch[r] # <<>> /\ e = Current(r)
       /\ \E i \in 1..(step[r] - 1) : Order[i] = d

BudgetOK(e, d) ==
    /\ sent[e][d] <= rows[e].attempts + 1 + disruptions
    /\ (rows[e].status # "published" /\ \A r \in Relay : ~Uncounted(r, e, d)) =>
            sent[e][d] <= rows[e].attempts + disruptions

BudgetInv == SoloInv /\ \A e \in Event, d \in Destination : BudgetOK(e, d)

LEMMA BudgetInit == Init => BudgetInv
<1>. SUFFICES ASSUME Init PROVE BudgetInv
  OBVIOUS
<1>1. \A e \in Event, d \in Destination : BudgetOK(e, d)
  BY DEF Init, BudgetOK, AbsentRows, AbsentRow
<1>. QED  BY <1>1, SoloInit DEF BudgetInv

\* The attempts of a row never go back.
LEMMA AttemptsGrow ==
    ASSUME SoloInv, SoloInv', TableStep, NEW e \in Event
    PROVE  /\ rows[e].attempts \in Nat /\ rows'[e].attempts \in Nat
           /\ rows[e].attempts <= rows'[e].attempts
           /\ rows[e].status = "published" => rows'[e] = rows[e]
<1>1. rows[e].attempts \in Nat /\ rows'[e].attempts \in Nat
  BY DEF SoloInv, IInv, TypeOK, Row
<1>2. rows[e].status = "absent" => rows[e].attempts = 0
  BY DEF SoloInv, CountOK
<1>3. rows[e].attempts <= rows'[e].attempts
  BY <1>1, <1>2 DEF TableStep, NewRow
<1>. QED  BY <1>1, <1>3 DEF TableStep

\* A step that calls nobody, and leaves no call uncounted but by a disruption.
LEMMA BudgetQuiet ==
    ASSUME BudgetInv, SoloInv', TableStep, UNCHANGED sent,
           disruptions' \in Nat, disruptions <= disruptions',
           NEW e \in Event, NEW d \in Destination,
           \/ disruptions' = disruptions + 1
           \/ rows'[e].status = "published"
           \/ rows[e].attempts < rows'[e].attempts
           \/ \A r \in Relay : Uncounted(r, e, d) => Uncounted(r, e, d)'
    PROVE  BudgetOK(e, d)'
<1>1. BudgetOK(e, d) /\ SoloInv
  BY DEF BudgetInv
<1>2. /\ rows[e].attempts \in Nat /\ rows'[e].attempts \in Nat
      /\ rows[e].attempts <= rows'[e].attempts
      /\ rows[e].status = "published" => rows'[e] = rows[e]
  BY <1>1, AttemptsGrow
<1>3. sent[e][d] \in Nat /\ disruptions \in Nat
  BY <1>1, PyRelayAssumption DEF SoloInv, IInv, TypeOK
<1>4. sent'[e][d] <= rows'[e].attempts + 1 + disruptions'
  BY <1>1, <1>2, <1>3 DEF BudgetOK
<1>5. ASSUME rows'[e].status # "published", \A r \in Relay : ~Uncounted(r, e, d)'
      PROVE  sent'[e][d] <= rows'[e].attempts + disruptions'
  <2>1. CASE disruptions' = disruptions + 1 \/ rows[e].attempts < rows'[e].attempts
    BY <1>1, <1>2, <1>3, <2>1 DEF BudgetOK
  <2>2. CASE \A r \in Relay : Uncounted(r, e, d) => Uncounted(r, e, d)'
    <3>1. \A r \in Relay : ~Uncounted(r, e, d)
      BY <1>5, <2>2
    <3>2. rows[e].status # "published"
      BY <1>2, <1>5
    <3>3. sent[e][d] <= rows[e].attempts + disruptions
      BY <1>1, <3>1, <3>2 DEF BudgetOK
    <3>. QED  BY <1>2, <1>3, <3>3
  <2>. QED  BY <1>5, <2>1, <2>2
<1>. QED  BY <1>4, <1>5 DEF BudgetOK

\* Capture and the life of the service call nobody.
LEMMA BudgetOutside ==
    ASSUME BudgetInv, SoloInv', TableStep,
           \/ \E e \in Event : Capture(e)
           \/ \E r \in Relay : Start(r) \/ Stop(r) \/ Stopped(r) \/ Crash(r)
    PROVE  BudgetInv'
<1>1. disruptions \in Nat
  BY PyRelayAssumption DEF BudgetInv, SoloInv, IInv, TypeOK
<1>2. UNCHANGED sent
  BY DEF Capture, Start, Stop, Stopped, Crash
<1>3. CASE \E r \in Relay : Crash(r)
  <2>1. disruptions' = disruptions + 1
    BY <1>3 DEF Crash, Disrupted
  <2>. QED  BY <1>1, <1>2, <2>1, BudgetQuiet DEF BudgetInv
<1>4. CASE \/ \E e \in Event : Capture(e)
           \/ \E r \in Relay : Start(r) \/ Stop(r) \/ Stopped(r)
  <2>1. UNCHANGED <<batch, step, entity>>
    BY <1>4 DEF Capture, Start, Stop, Stopped, session
  <2>2. disruptions' \in {disruptions, disruptions + 1}
    BY <1>4 DEF Capture, Start, Stop, Stopped, Disrupted
  <2>3. \A e \in Event, d \in Destination, r \in Relay :
            Uncounted(r, e, d) => Uncounted(r, e, d)'
    BY <2>1 DEF Uncounted, Current
  <2>. QED  BY <1>1, <1>2, <2>2, <2>3, BudgetQuiet DEF BudgetInv
<1>. QED  BY <1>3, <1>4

\* A drain starts where every call is counted.
LEMMA BudgetLoad ==
    ASSUME BudgetInv, SoloInv', TableStep, OnePoller, NEW r \in Relay, Load(r)
    PROVE  BudgetInv'
<1>1. disruptions \in Nat /\ disruptions' = disruptions /\ UNCHANGED sent
  BY PyRelayAssumption DEF BudgetInv, SoloInv, IInv, TypeOK, Load
<1>2. batch[r] = <<>> /\ entity[r] = AbsentRows
  BY DEF BudgetInv, SoloInv, IdleOK, Load
<1>3. \A q \in Relay : q = r
  BY DEF OnePoller
<1>4. \A e \in Event, d \in Destination, q \in Relay : ~Uncounted(q, e, d)
  BY <1>2, <1>3 DEF Uncounted, AbsentRows, AbsentRow
<1>. QED  BY <1>1, <1>4, BudgetQuiet DEF BudgetInv

\* Writing the session counts its calls; losing it is a disruption.
LEMMA BudgetCommit ==
    ASSUME BudgetInv, SoloInv', TableStep, OnePoller, NEW r \in Relay,
           Commit(r) \/ CommitFails(r)
    PROVE  BudgetInv'
<1>1. disruptions \in Nat /\ UNCHANGED sent
  BY PyRelayAssumption DEF BudgetInv, SoloInv, IInv, TypeOK, Commit, CommitFails
<1>2. CASE CommitFails(r)
  <2>1. disruptions' = disruptions + 1
    BY <1>2 DEF CommitFails, Disrupted
  <2>. QED  BY <1>1, <2>1, BudgetQuiet DEF BudgetInv
<1>3. CASE Commit(r)
  <2>1. disruptions' = disruptions /\ batch[r] = <<>> /\ WriteOutcomes(r)
    BY <1>3 DEF Commit
  <2>2. \A q \in Relay : q = r
    BY DEF OnePoller
  <2>3. ASSUME NEW e \in Event, NEW d \in Destination
        PROVE  \/ rows'[e].status = "published"
               \/ rows[e].attempts < rows'[e].attempts
               \/ \A q \in Relay : Uncounted(q, e, d) => Uncounted(q, e, d)'
    <3>1. CASE entity[r][e].status = "absent"
      BY <2>1, <2>2, <3>1 DEF Uncounted
    <3>2. CASE entity[r][e].status # "absent"
      <4>1. rows'[e] = ColumnUpdate(rows[e], entity[r][e])
        BY <2>1, <3>2 DEF WriteOutcomes
      <4>2. e \in Event \ Range(batch[r])
        BY <2>1 DEF Range
      <4>3. /\ rows[e].status = "pending"
            /\ entity[r][e] \in {Succeeded(rows[e]), CountFailure(rows[e])}
        BY <3>2, <4>2 DEF BudgetInv, SoloInv, DoneOK
      <4>4. rows[e] \in Row /\ rows[e].attempts < MaxAttempts
        BY <4>3 DEF BudgetInv, SoloInv, CountOK, IInv, TypeOK
      <4>5. rows[e].attempts \in Nat
        BY <4>4 DEF Row
      <4>6. \/ rows'[e].status = "published"
            \/ rows'[e].attempts = rows[e].attempts + 1
        BY <4>1, <4>3, <4>4, UpdateOfOutcome
      <4>. QED  BY <4>5, <4>6
    <3>. QED  BY <3>1, <3>2
  <2>. QED  BY <1>1, <2>1, <2>3, BudgetQuiet DEF BudgetInv
<1>. QED  BY <1>2, <1>3

\* A destination is called only while its call is counted, and the call then
\* stays uncounted until the drain ends.
LEMMA BudgetDeliver ==
    ASSUME BudgetInv, SoloInv', TableStep, OnePoller, DistinctOrder,
           NEW r \in Relay, DeliverOk(r) \/ DeliverRaises(r)
    PROVE  BudgetInv'
<1>. DEFINE cur == Current(r)
            dest == Callee(r)
<1>1. /\ CallDestination(r) /\ (CalleeReceives(r) \/ UNCHANGED received)
      /\ SoloInv /\ IInv
  BY DEF DeliverOk, DeliverRaises, BudgetInv, SoloInv
<1>2. /\ cur \in Event /\ cur \in Range(batch[r]) /\ step[r] \in 1..Len(Order)
      /\ dest \in Destination
      /\ rows[cur].status = "pending"
      /\ entity[r][cur] = rows[cur]
  BY <1>1, CallFacts, SoloCall
<1>3. /\ rows' = rows /\ disruptions' = disruptions /\ disruptions \in Nat
      /\ sent' = [sent EXCEPT ![cur][dest] = sent[cur][dest] + 1]
      /\ sent \in [Event -> [Destination -> Nat]]
      /\ batch[r] \in Seq(Event) /\ batch[r] # <<>> /\ IsInjective(batch[r])
  BY <1>1, PyRelayAssumption
     DEF CallDestination, SoloInv, IInv, TypeOK, TodoOK
<1>4. \A q \in Relay : q = r
  BY DEF OnePoller
<1>5. ~Uncounted(r, cur, dest)
  <2>1. Order \in Seq(Destination) /\ step[r] \in DOMAIN Order
    BY <1>2, PyRelayAssumption
  <2>2. \A i \in 1..(step[r] - 1) : i \in DOMAIN Order /\ i # step[r]
    BY <1>2, <2>1
  <2>3. \A i \in 1..(step[r] - 1) : Order[i] # Order[step[r]]
    BY <2>1, <2>2 DEF DistinctOrder, IsInjective
  <2>. QED  BY <1>2, <2>3 DEF Uncounted, Callee
<1>6. \/ /\ UNCHANGED <<batch, entity>>
         /\ step'[r] = step[r] + 1
      \/ \E row \in Row : Outcome(r, row) /\ row.status # "absent"
  <2>1. rows[cur] \in Row
    BY <1>1, SoloCall
  <2>2. /\ Succeeded(rows[cur]) \in Row /\ Succeeded(rows[cur]).status # "absent"
        /\ CountFailure(rows[cur]) \in Row /\ CountFailure(rows[cur]).status # "absent"
    BY <1>2, <2>1, RowUpdates
  <2>3. \/ /\ UNCHANGED <<batch, entity>>
           /\ step' = [step EXCEPT ![r] = step[r] + 1]
        \/ Outcome(r, Succeeded(rows[cur])) \/ Outcome(r, CountFailure(rows[cur]))
    BY <1>2 DEF DeliverOk, DeliverRaises
  <2>. QED  BY <1>1, <2>2, <2>3 DEF IInv, TypeOK
<1>7. ASSUME NEW e \in Event, NEW d \in Destination,
             Uncounted(r, e, d) \/ (e = cur /\ d = dest)
      PROVE  Uncounted(r, e, d)'
  <2>1. CASE UNCHANGED <<batch, entity>> /\ step'[r] = step[r] + 1
    <3>1. \A i \in 1..step[r] : i \in 1..(step'[r] - 1)
      BY <1>2, <2>1
    <3>2. step[r] \in 1..step[r] /\ \A i \in 1..(step[r] - 1) : i \in 1..step[r]
      BY <1>2
    <3>. QED  BY <1>3, <1>7, <2>1, <3>1, <3>2 DEF Uncounted, Current, Callee
  <2>2. CASE \E row \in Row : Outcome(r, row) /\ row.status # "absent"
    <3>1. PICK row \in Row : Outcome(r, row) /\ row.status # "absent"
      BY <2>2
    <3>2. /\ batch'[r] = Tail(batch[r])
          /\ entity'[r] = [entity[r] EXCEPT ![cur] = row]
          /\ entity[r] \in [Event -> Row]
      BY <1>1, <3>1 DEF Outcome, IInv, TypeOK
    <3>3. Range(batch'[r]) = Range(batch[r]) \ {cur}
      BY <1>3, <3>2, TailOfInjective DEF Current
    <3>4. CASE e = cur
      <4>1. entity'[r][e] = row
        BY <1>2, <3>2, <3>4
      <4>. QED  BY <3>1, <3>3, <3>4, <4>1 DEF Uncounted
    <3>5. CASE e # cur
      BY <1>7, <3>2, <3>3, <3>5 DEF Uncounted
    <3>. QED  BY <3>4, <3>5
  <2>. QED  BY <1>6, <2>1, <2>2
<1>8. ASSUME NEW e \in Event, NEW d \in Destination
      PROVE  BudgetOK(e, d)'
  <2>1. BudgetOK(e, d) /\ rows[e].attempts \in Nat
    BY DEF BudgetInv, SoloInv, IInv, TypeOK, Row
  <2>2. CASE e = cur /\ d = dest
    <3>1. sent[e][d] <= rows[e].attempts + disruptions
      BY <1>2, <1>4, <1>5, <2>1, <2>2 DEF BudgetOK
    <3>2. sent'[e][d] = sent[e][d] + 1 /\ sent[e][d] \in Nat
      BY <1>3, <2>2
    <3>3. sent'[e][d] <= rows'[e].attempts + 1 + disruptions'
      BY <1>3, <2>1, <3>1, <3>2
    <3>. QED  BY <1>7, <2>2, <3>3 DEF BudgetOK
  <2>3. CASE ~(e = cur /\ d = dest)
    <3>1. sent'[e][d] = sent[e][d]
      BY <1>3, <2>3
    <3>. QED  BY <1>3, <1>4, <1>7, <2>1, <3>1 DEF BudgetOK
  <2>. QED  BY <2>2, <2>3
<1>. QED  BY <1>8 DEF BudgetInv

LEMMA BudgetStep ==
    ASSUME OnePoller, DistinctOrder
    PROVE  BudgetInv /\ [Next]_vars => BudgetInv'
<1>. SUFFICES ASSUME BudgetInv, [Next]_vars PROVE BudgetInv'
  OBVIOUS
<1>1. SoloInv' /\ TableStep
  BY SoloStep DEF BudgetInv
<1>2. CASE UNCHANGED vars
  BY <1>1, <1>2 DEF vars, BudgetInv, BudgetOK, Uncounted, Current
<1>3. CASE Next
  BY <1>1, <1>3, BudgetOutside, BudgetLoad, BudgetDeliver, BudgetCommit
     DEF Next, DrainStep
<1>. QED  BY <1>2, <1>3

\* A single poller calls a destination at most once per counted attempt, once
\* for the attempt that succeeds or is under way, and once per disruption.
THEOREM SoloSendsWithinBudget ==
    ASSUME OnePoller, DistinctOrder
    PROVE  Spec => []SendsWithinBudget
<1>1. BudgetInv => SendsWithinBudget
  BY DEF BudgetInv, BudgetOK, SendsWithinBudget
<1>. QED  BY <1>1, BudgetInit, BudgetStep, PTL DEF Spec
=============================================================================
