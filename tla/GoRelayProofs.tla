--------------------------- MODULE GoRelayProofs ---------------------------
(***************************************************************************)
(* Proofs about GoRelay, for any sets of events, destinations and pollers, *)
(* any attempt cap, any batch limit and any number of disruptions.         *)
(***************************************************************************)
EXTENDS GoRelay, EventTableProofs

-----------------------------------------------------------------------------
(* The inductive invariant: what a row or a struct says is backed by       *)
(* deliveries, and so is the progress of the attempt under way.            *)

\* A row, or a copy of one, that says published was delivered everywhere.
Backed(row, e) ==
    row.status = "published" => Destination # {} /\ Destination \subseteq received[e]

\* Where a drain may stand: only the sending stage moves along Order, and it
\* does so for a current event.
StageOK(r) ==
    /\ pc[r] = "marking" => batch[r] # <<>>
    /\ pc[r] # "sending" => step[r] = 1
    /\ step[r] # 1 => batch[r] # <<>>
    /\ pc[r] # "idle" => step[r] \in 1..Len(Order)

\* The destinations before the next one hold the current event.
Progress(r) == \A i \in 1..(step[r] - 1) : Order[i] \in received[Current(r)]

RowsBacked == \A e \in Event : Backed(rows[e], e)

CopiesBacked == \A r \in Relay, e \in Event : Backed(entity[r][e], e)

IInv ==
    /\ TypeOK
    /\ \A r \in Relay : StageOK(r)
    /\ \A r \in Relay : Progress(r)
    /\ RowsBacked
    /\ CopiesBacked

-----------------------------------------------------------------------------
\* The initial states: nothing is captured, no drain runs.
LEMMA InvInit == Init => IInv
<1>. SUFFICES ASSUME Init PROVE IInv
  OBVIOUS
<1>1. TypeOK
  BY RowConstants, GoRelayAssumption DEF Init, TypeOK
<1>2. \A r \in Relay : StageOK(r) /\ Progress(r)
  BY DEF Init, StageOK, Progress
<1>3. RowsBacked /\ CopiesBacked
  BY DEF Init, RowsBacked, CopiesBacked, Backed, AbsentRows, AbsentRow
<1>. QED  BY <1>1, <1>2, <1>3 DEF IInv

\* The current event of a non-empty batch is an event, and the rest a batch.
LEMMA CurrentType ==
    ASSUME TypeOK, NEW r \in Relay, batch[r] # <<>>
    PROVE  /\ Current(r) \in Event
           /\ Tail(batch[r]) \in Seq(Event)
           /\ entity[r][Current(r)] \in Row
           /\ rows[Current(r)] \in Row
<1>1. Current(r) \in Event /\ Tail(batch[r]) \in Seq(Event)
  BY DEF TypeOK, Current
<1>. QED  BY <1>1 DEF TypeOK

\* A committed capture adds a pending row.
LEMMA CaptureInv ==
    ASSUME IInv, NEW e \in Event, Capture(e)
    PROVE  IInv'
<1>1. TypeOK'
  BY RowConstants DEF IInv, TypeOK, Capture, drain
<1>2. RowsBacked'
  BY DEF IInv, TypeOK, RowsBacked, Backed, Capture, NewRow
<1>3. CopiesBacked' /\ \A r \in Relay : StageOK(r)' /\ Progress(r)'
  BY DEF IInv, CopiesBacked, Backed, StageOK, Progress, Current, Capture, drain
<1>. QED  BY <1>1, <1>2, <1>3 DEF IInv

\* Leaving a drain resets what the drain holds.
LEMMA LeaveDrainInv ==
    ASSUME IInv, NEW r \in Relay, LeaveDrain(r), UNCHANGED <<rows, received, sent>>,
           life' \in [Relay -> {"down", "up", "stopping"}],
           disruptions' \in 0..MaxDisruptions
    PROVE  IInv'
<1>1. TypeOK'
  <2>1. /\ pc' \in [Relay -> {"idle", "sending", "marking"}]
        /\ batch' \in [Relay -> Seq(Event)]
    BY DEF IInv, TypeOK, LeaveDrain
  <2>2. /\ step' \in [Relay -> Nat \ {0}]
        /\ entity' \in [Relay -> [Event -> Row]]
    BY RowConstants DEF IInv, TypeOK, LeaveDrain
  <2>. QED  BY <2>1, <2>2 DEF IInv, TypeOK
<1>2. RowsBacked'
  BY DEF IInv, RowsBacked, Backed
<1>3. CopiesBacked'
  BY DEF IInv, TypeOK, CopiesBacked, Backed, LeaveDrain, AbsentRows, AbsentRow
<1>4. ASSUME NEW q \in Relay
      PROVE  StageOK(q)' /\ Progress(q)'
  <2>1. StageOK(q) /\ Progress(q)
    BY DEF IInv
  <2>2. CASE q = r
    BY <2>2 DEF IInv, TypeOK, LeaveDrain, StageOK, Progress
  <2>3. CASE q # r
    BY <2>1, <2>3 DEF IInv, TypeOK, LeaveDrain, StageOK, Progress, Current
  <2>. QED  BY <2>2, <2>3
<1>. QED  BY <1>1, <1>2, <1>3, <1>4 DEF IInv

\* Starts, shutdowns and crashes lose what is in memory only.
LEMMA LifeInv ==
    ASSUME IInv, NEW r \in Relay,
           Start(r) \/ Stop(r) \/ Stopped(r) \/ Crash(r)
    PROVE  IInv'
<1>1. /\ life' \in [Relay -> {"down", "up", "stopping"}]
      /\ disruptions' \in 0..MaxDisruptions
  <2>1. life' \in [Relay -> {"down", "up", "stopping"}]
    BY DEF IInv, TypeOK, Start, Stop, Stopped, Crash
  <2>2. disruptions' \in 0..MaxDisruptions
    <3>1. Disrupted \/ UNCHANGED disruptions
      BY DEF Start, Stop, Stopped, Crash
    <3>2. disruptions \in 0..MaxDisruptions
      BY DEF IInv, TypeOK
    <3>. QED  BY <3>1, <3>2, GoRelayAssumption DEF Disrupted
  <2>. QED  BY <2>1, <2>2
<1>2. CASE Start(r) \/ Stop(r) \/ Stopped(r)
  <2>1. UNCHANGED <<rows, received, sent, pc, batch, step, entity>>
    BY <1>2 DEF Start, Stop, Stopped, drain
  <2>. QED
    BY <1>1, <2>1
       DEF IInv, TypeOK, RowsBacked, CopiesBacked, Backed, StageOK, Progress,
           Current
<1>3. CASE Crash(r)
  BY <1>1, <1>3, LeaveDrainInv DEF Crash
<1>. QED  BY <1>2, <1>3

\* A drain loads copies of rows.
LEMMA LoadInv ==
    ASSUME IInv, NEW r \in Relay, Load(r)
    PROVE  IInv'
<1>1. PICK b \in Batches(rows) :
         /\ batch' = [batch EXCEPT ![r] = b]
         /\ entity' = [entity EXCEPT ![r] = Snapshot(b, rows)]
  BY DEF Load
<1>2. b \in Seq(Event) /\ Snapshot(b, rows) \in [Event -> Row]
  BY BatchFacts, SnapshotFacts DEF IInv, TypeOK
<1>3. \A e \in Event : Backed(Snapshot(b, rows)[e], e)
  <2>. SUFFICES ASSUME NEW e \in Event PROVE Backed(Snapshot(b, rows)[e], e)
    OBVIOUS
  <2>1. Snapshot(b, rows)[e] = rows[e] \/ Snapshot(b, rows)[e] = AbsentRow
    <3>1. rows \in [Event -> Row]
      BY DEF IInv, TypeOK
    <3>. QED  BY <3>1, SnapshotFacts
  <2>2. Backed(rows[e], e) /\ Backed(AbsentRow, e)
    BY DEF IInv, RowsBacked, Backed, AbsentRow
  <2>. QED  BY <2>1, <2>2
<1>4. TypeOK'
  BY <1>1, <1>2 DEF Load, IInv, TypeOK
<1>5. RowsBacked'
  BY DEF IInv, Load, RowsBacked, Backed
<1>6. CopiesBacked'
  BY <1>1, <1>3 DEF IInv, TypeOK, Load, CopiesBacked, Backed
<1>7. ASSUME NEW q \in Relay
      PROVE  StageOK(q)' /\ Progress(q)'
  <2>1. StageOK(q) /\ Progress(q)
    BY DEF IInv
  <2>2. CASE q = r
    <3>1. step'[r] = 1 /\ pc'[r] = "sending" /\ Len(Order) >= 1
      BY <2>1, <2>2, GoRelayAssumption DEF Load, StageOK, IInv, TypeOK
    <3>. QED  BY <2>2, <3>1, GoRelayAssumption DEF StageOK, Progress
  <2>3. CASE q # r
    BY <1>1, <2>1, <2>3 DEF IInv, TypeOK, Load, StageOK, Progress, Current
  <2>. QED  BY <2>2, <2>3
<1>. QED  BY <1>4, <1>5, <1>6, <1>7 DEF IInv

-----------------------------------------------------------------------------
(* Deliveries.  They only add to `received`, so what was backed stays so.  *)

\* A call, whatever its outcome, types its effects and only adds deliveries.
LEMMA CallFacts ==
    ASSUME IInv, NEW r \in Relay, CallDestination(r),
           CalleeReceives(r) \/ UNCHANGED received
    PROVE  /\ Current(r) \in Event
           /\ step[r] \in 1..Len(Order)
           /\ Callee(r) \in Destination
           /\ received' \in [Event -> SUBSET Destination]
           /\ sent' \in [Event -> [Destination -> Nat]]
           /\ \A e \in Event : received[e] \subseteq received'[e]
<1>1. Current(r) \in Event
  BY CurrentType DEF IInv, CallDestination
<1>2. step[r] \in 1..Len(Order)
  BY DEF IInv, StageOK, CallDestination
<1>3. Callee(r) \in Destination
  BY <1>2, GoRelayAssumption DEF Callee
<1>4. received' \in [Event -> SUBSET Destination]
      /\ \A e \in Event : received[e] \subseteq received'[e]
  <2>1. CASE UNCHANGED received
    BY <2>1 DEF IInv, TypeOK
  <2>2. CASE CalleeReceives(r)
    <3>1. received[Current(r)] \cup {Callee(r)} \in SUBSET Destination
      BY <1>1, <1>3 DEF IInv, TypeOK
    <3>2. received' = [received EXCEPT ![Current(r)] =
                                   received[Current(r)] \cup {Callee(r)}]
      BY <2>2 DEF CalleeReceives
    <3>. QED  BY <1>1, <3>1, <3>2 DEF IInv, TypeOK
  <2>. QED  BY <2>1, <2>2
<1>5. sent' \in [Event -> [Destination -> Nat]]
  <2>1. sent[Current(r)][Callee(r)] + 1 \in Nat
    BY <1>1, <1>3 DEF IInv, TypeOK
  <2>2. sent' = [sent EXCEPT ![Current(r)][Callee(r)] =
                                 sent[Current(r)][Callee(r)] + 1]
    BY DEF CallDestination
  <2>. QED  BY <1>1, <1>3, <2>1, <2>2 DEF IInv, TypeOK
<1>. QED  BY <1>1, <1>2, <1>3, <1>4, <1>5

\* A drain that a step of another drain leaves alone stays where it was.
LEMMA OtherDrain ==
    ASSUME IInv, NEW q \in Relay,
           \A e \in Event : received[e] \subseteq received'[e],
           step'[q] = step[q], pc'[q] = pc[q], batch'[q] = batch[q]
    PROVE  StageOK(q)' /\ Progress(q)'
<1>1. StageOK(q) /\ Progress(q)
  BY DEF IInv
<1>2. step[q] # 1 => Current(q) \in Event
  BY <1>1, CurrentType DEF IInv, StageOK
<1>3. step[q] \in Nat
  BY GoRelayAssumption DEF IInv, TypeOK
<1>. QED  BY <1>1, <1>2, <1>3 DEF StageOK, Progress, Current

\* An attempt that ends with a backed outcome keeps the invariant.
LEMMA OutcomeInv ==
    ASSUME IInv, NEW r \in Relay, CallDestination(r),
           CalleeReceives(r) \/ UNCHANGED received,
           NEW row \in Row, Outcome(r, row),
           row.status = "published" =>
              Destination # {} /\ Destination \subseteq received'[Current(r)]
    PROVE  IInv'
<1>. DEFINE cur == Current(r)
<1>1. /\ cur \in Event
      /\ step[r] \in 1..Len(Order)
      /\ received' \in [Event -> SUBSET Destination]
      /\ sent' \in [Event -> [Destination -> Nat]]
      /\ \A e \in Event : received[e] \subseteq received'[e]
  BY CallFacts
<1>2. TypeOK'
  BY <1>1 DEF IInv, TypeOK, CallDestination, Outcome
<1>3. RowsBacked'
  BY <1>1 DEF IInv, RowsBacked, Backed, CallDestination
<1>4. CopiesBacked'
  <2>. SUFFICES ASSUME NEW q \in Relay, NEW e \in Event
                PROVE  Backed(entity[q][e], e)'
    BY DEF CopiesBacked
  <2>1. CASE q = r /\ e = cur
    <3>1. entity'[q][e] = row
      BY <1>1, <2>1 DEF IInv, TypeOK, Outcome
    <3>. QED  BY <2>1, <3>1 DEF Backed
  <2>2. CASE ~(q = r /\ e = cur)
    <3>1. entity'[q][e] = entity[q][e]
      BY <1>1, <2>2 DEF IInv, TypeOK, Outcome
    <3>. QED  BY <1>1, <3>1 DEF IInv, CopiesBacked, Backed
  <2>. QED  BY <2>1, <2>2
<1>5. ASSUME NEW q \in Relay
      PROVE  StageOK(q)' /\ Progress(q)'
  <2>2. CASE q = r
    <3>1. /\ step'[r] = 1 /\ pc'[r] = "marking"
          /\ batch'[r] # <<>> /\ Len(Order) \in Nat
      BY GoRelayAssumption DEF IInv, TypeOK, Outcome, CallDestination
    <3>. QED  BY <1>1, <2>2, <3>1 DEF StageOK, Progress
  <2>3. CASE q # r
    <3>1. step'[q] = step[q] /\ pc'[q] = pc[q] /\ batch'[q] = batch[q]
      BY <2>3 DEF IInv, TypeOK, Outcome, CallDestination
    <3>. QED  BY <1>1, <3>1, OtherDrain
  <2>. QED  BY <2>2, <2>3
<1>. QED  BY <1>2, <1>3, <1>4, <1>5 DEF IInv

\* The event is published only once the last destination accepted it.
LEMMA SendOkInv ==
    ASSUME IInv, NEW r \in Relay, SendOk(r)
    PROVE  IInv'
<1>. DEFINE cur == Current(r)
<1>0. CallDestination(r) /\ CalleeReceives(r)
  BY DEF SendOk
<1>1. /\ cur \in Event
      /\ step[r] \in 1..Len(Order)
      /\ received' \in [Event -> SUBSET Destination]
      /\ sent' \in [Event -> [Destination -> Nat]]
      /\ \A e \in Event : received[e] \subseteq received'[e]
  BY <1>0, CallFacts
<1>2. \A i \in 1..step[r] : Order[i] \in received'[cur]
  <2>1. Order[step[r]] \in received'[cur]
    BY <1>0, <1>1 DEF CalleeReceives, Callee, IInv, TypeOK
  <2>2. \A i \in 1..(step[r] - 1) : Order[i] \in received'[cur]
    BY <1>1 DEF IInv, Progress
  <2>. QED  BY <1>1, <2>1, <2>2, GoRelayAssumption
<1>3. CASE step[r] < Len(Order) /\ step' = [step EXCEPT ![r] = step[r] + 1]
           /\ UNCHANGED <<pc, entity>>
  <2>0. Len(Order) \in Nat /\ step[r] \in Nat
    BY <1>1, GoRelayAssumption
  <2>1. TypeOK'
    BY <1>0, <1>1, <1>3, <2>0 DEF IInv, TypeOK, CallDestination
  <2>2. RowsBacked'
    BY <1>0, <1>1 DEF IInv, RowsBacked, Backed, CallDestination
  <2>3. CopiesBacked'
    BY <1>1, <1>3 DEF IInv, CopiesBacked, Backed
  <2>4. ASSUME NEW q \in Relay
        PROVE  StageOK(q)' /\ Progress(q)'
    <3>2. CASE q = r
      <4>1. /\ step'[r] = step[r] + 1 /\ pc'[r] = "sending"
            /\ batch'[r] = batch[r] /\ batch[r] # <<>>
        BY <1>0, <1>3 DEF IInv, TypeOK, CallDestination
      <4>2. StageOK(r)'
        BY <1>3, <2>0, <4>1 DEF StageOK
      <4>3. Progress(r)'
        BY <1>2, <2>0, <4>1 DEF Progress, Current
      <4>. QED  BY <3>2, <4>2, <4>3
    <3>3. CASE q # r
      <4>1. step'[q] = step[q] /\ pc'[q] = pc[q] /\ batch'[q] = batch[q]
        BY <1>0, <1>3, <3>3 DEF IInv, TypeOK, CallDestination
      <4>. QED  BY <1>1, <4>1, OtherDrain
    <3>. QED  BY <3>2, <3>3
  <2>. QED  BY <2>1, <2>2, <2>3, <2>4 DEF IInv
<1>4. CASE step[r] = Len(Order) /\ Outcome(r, Succeeded(entity[r][Current(r)]))
  <2>1. Destination # {} /\ Destination \subseteq received'[cur]
    <3>1. \A d \in Destination : \E i \in 1..Len(Order) : Order[i] = d
      BY GoRelayAssumption DEF Range
    <3>2. Order[1] \in Destination
      BY <1>1, GoRelayAssumption
    <3>. QED  BY <1>2, <1>4, <3>1, <3>2
  <2>2. entity[r][Current(r)] \in Row
    BY <1>0, CurrentType DEF CallDestination, IInv
  <2>3. Succeeded(entity[r][Current(r)]) \in Row
    BY <2>2, RowUpdates
  <2>. QED  BY <1>0, <1>4, <2>1, <2>3, OutcomeInv
<1>. QED  BY <1>3, <1>4 DEF SendOk

\* A failed attempt publishes nothing.
LEMMA SendFailsInv ==
    ASSUME IInv, NEW r \in Relay, SendFails(r)
    PROVE  IInv'
<1>1. /\ CallDestination(r)
      /\ CalleeReceives(r) \/ UNCHANGED received
      /\ Outcome(r, CountFailure(entity[r][Current(r)]))
  BY DEF SendFails
<1>2. Current(r) \in Event /\ \A e \in Event : received[e] \subseteq received'[e]
  BY <1>1, CallFacts
<1>3. entity[r][Current(r)] \in Row
  BY <1>1, CurrentType DEF CallDestination, IInv
<1>4. CountFailure(entity[r][Current(r)]) \in Row
  BY <1>3, RowUpdates
<1>5. CountFailure(entity[r][Current(r)]).status = "published" =>
         Destination # {} /\ Destination \subseteq received'[Current(r)]
  BY <1>2, <1>3, RowUpdates DEF IInv, CopiesBacked, Backed
<1>. QED  BY <1>1, <1>4, <1>5, OutcomeInv

-----------------------------------------------------------------------------
\* An UPDATE publishes only what its struct says was delivered.
LEMMA MarkInv ==
    ASSUME IInv, NEW r \in Relay, Mark(r) \/ MarkLost(r) \/ MarkCancelled(r)
    PROVE  IInv'
<1>0. /\ pc[r] = "marking"
      /\ NextEvent(r)
      /\ UNCHANGED rows \/ WriteOutcome(r)
  BY DEF Mark, MarkLost, MarkCancelled
<1>1. disruptions' \in 0..MaxDisruptions
  BY GoRelayAssumption DEF Mark, MarkLost, MarkCancelled, Disrupted, IInv, TypeOK
<1>2. /\ StageOK(r) /\ batch[r] # <<>>
      /\ Current(r) \in Event /\ Tail(batch[r]) \in Seq(Event)
      /\ entity[r][Current(r)] \in Row /\ rows[Current(r)] \in Row
  BY <1>0, CurrentType DEF IInv, StageOK
<1>3. rows' \in [Event -> Row] /\ RowsBacked'
  <2>1. CASE UNCHANGED rows
    BY <1>0, <2>1 DEF NextEvent, IInv, TypeOK, RowsBacked, Backed
  <2>2. CASE WriteOutcome(r)
    <3>. DEFINE new == ColumnUpdate(rows[Current(r)], entity[r][Current(r)])
    <3>1. new \in Row
      BY <1>2, ColumnUpdateFacts
    <3>2. Backed(new, Current(r))
      BY <1>2, ColumnUpdateFacts DEF IInv, RowsBacked, CopiesBacked, Backed
    <3>3. rows' = [rows EXCEPT ![Current(r)] = new]
      BY <2>2 DEF WriteOutcome
    <3>. HIDE DEF new
    <3>. QED
      BY <1>0, <1>2, <3>1, <3>2, <3>3
         DEF NextEvent, IInv, TypeOK, RowsBacked, Backed
  <2>. QED  BY <1>0, <2>1, <2>2
<1>4. TypeOK'
  BY <1>0, <1>1, <1>2, <1>3 DEF IInv, TypeOK, NextEvent
<1>5. CopiesBacked'
  BY <1>0 DEF IInv, CopiesBacked, Backed, NextEvent
<1>6. ASSUME NEW q \in Relay
      PROVE  StageOK(q)' /\ Progress(q)'
  <2>1. StageOK(q) /\ Progress(q)
    BY DEF IInv
  <2>2. CASE q = r
    <3>1. step'[r] = 1 /\ pc'[r] = "sending" /\ 1 \in 1..Len(Order)
      BY <1>0, <1>2 DEF NextEvent, StageOK, IInv, TypeOK
    <3>. QED  BY <2>2, <3>1 DEF StageOK, Progress
  <2>3. CASE q # r
    BY <1>0, <2>1, <2>3 DEF IInv, TypeOK, NextEvent, StageOK, Progress, Current
  <2>. QED  BY <2>2, <2>3
<1>. QED  BY <1>3, <1>4, <1>5, <1>6 DEF IInv

LEMMA DrainInv ==
    ASSUME IInv, NEW r \in Relay, DrainStep(r)
    PROVE  IInv'
<1>1. CASE DrainDone(r)
  BY <1>1, LeaveDrainInv DEF DrainDone, IInv, TypeOK
<1>. QED
  BY <1>1, LoadInv, SendOkInv, SendFailsInv, MarkInv DEF DrainStep

LEMMA InvStep == IInv /\ [Next]_vars => IInv'
<1>. SUFFICES ASSUME IInv, [Next]_vars PROVE IInv'
  OBVIOUS
<1>1. CASE UNCHANGED vars
  BY <1>1
     DEF vars, IInv, TypeOK, RowsBacked, CopiesBacked, Backed, StageOK, Progress,
         Current
<1>. QED  BY <1>1, CaptureInv, LifeInv, DrainInv DEF Next

\* Every reachable state is well typed.
THEOREM TypeCorrect == Spec => []TypeOK
<1>1. IInv => TypeOK
  BY DEF IInv
<1>. QED  BY <1>1, InvInit, InvStep, PTL DEF Spec

\* However many pollers share the table, and whatever UPDATEs are lost: a row
\* says published only if every destination accepted the event.
THEOREM PublishedDelivered == Spec => []PublishedMeansDelivered
<1>1. IInv => PublishedMeansDelivered
  BY DEF IInv, RowsBacked, Backed, PublishedMeansDelivered
<1>. QED  BY <1>1, InvInit, InvStep, PTL DEF Spec

-----------------------------------------------------------------------------
(* A single poller: it implements the outbox contract and never calls a     *)
(* destination beyond its budget.                                          *)

OnePoller == \E r : Relay = {r}

\* No destination is configured twice.
DistinctOrder == IsInjective(Order)

-----------------------------------------------------------------------------
(* What a drain holds while nobody else writes the table.                  *)

\* The event whose outcome is about to be written, if any.
Marked(r, e) == pc[r] = "marking" /\ e = Current(r)

\* An event of the batch is pending, and its struct is its row until the
\* attempt ends and one attempt on afterwards.
TodoOK(r) ==
    /\ IsInjective(batch[r])
    /\ \A e \in Range(batch[r]) :
        /\ rows[e].status = "pending"
        /\ ~Marked(r, e) => entity[r][e] = rows[e]
        /\ Marked(r, e) => entity[r][e] \in {Succeeded(rows[e]), CountFailure(rows[e])}

IdleOK(r) == pc[r] = "idle" => batch[r] = <<>>

\* The attempts of a row fit its status.
CountOK(e) ==
    /\ rows[e].status = "absent" => rows[e].attempts = 0
    /\ rows[e].status = "pending" => rows[e].attempts < MaxAttempts

SoloInv ==
    /\ IInv
    /\ \A r \in Relay : TodoOK(r) /\ IdleOK(r)
    /\ \A e \in Event : CountOK(e)

\* A step of the table as the contract allows it.
TableStep ==
    \A e \in Event :
        \/ rows'[e] = rows[e]
        \/ rows[e].status = "absent" /\ rows'[e] = NewRow
        \/ /\ rows[e].status = "pending"
           /\ Destination \subseteq received[e]
           /\ rows'[e].status = "published"
           /\ rows'[e].attempts = rows[e].attempts
        \/ /\ rows[e].status = "pending"
           /\ rows'[e].attempts = rows[e].attempts + 1
           /\ rows'[e].status = IF rows[e].attempts + 1 < MaxAttempts THEN "pending" ELSE "failed"

\* Copies are never taken back, and only captured events are sent.
DeliveryStep ==
    \A e \in Event :
        /\ received[e] \subseteq received'[e]
        /\ received'[e] # received[e] => rows[e].status # "absent"

-----------------------------------------------------------------------------
LEMMA SoloInit == Init => SoloInv
<1>. SUFFICES ASSUME Init PROVE SoloInv
  OBVIOUS
<1>1. IInv
  BY InvInit
<1>2. \A r \in Relay : TodoOK(r) /\ IdleOK(r)
  BY DEF Init, TodoOK, IdleOK, IsInjective, Range
<1>3. \A e \in Event : CountOK(e)
  BY DEF Init, CountOK, AbsentRows, AbsentRow
<1>. QED  BY <1>1, <1>2, <1>3 DEF SoloInv

\* Counts that fit stay so in every step the contract allows.
LEMMA CountStep ==
    ASSUME TableStep, \A e \in Event : CountOK(e)
    PROVE  \A e \in Event : CountOK(e)'
BY EventTableAssumption DEF CountOK, TableStep, NewRow

\* A capture adds a row to the table, and nothing to a batch.
LEMMA SoloCapture ==
    ASSUME SoloInv, NEW e \in Event, Capture(e)
    PROVE  SoloInv' /\ TableStep /\ DeliveryStep
<1>1. IInv'
  BY CaptureInv DEF SoloInv
<1>2. /\ rows \in [Event -> Row]
      /\ rows[e].status = "absent"
      /\ rows' = [rows EXCEPT ![e] = NewRow]
      /\ UNCHANGED <<received, pc, batch, entity>>
  BY DEF SoloInv, IInv, TypeOK, Capture, drain
<1>3. \A f \in Event : f # e => rows'[f] = rows[f]
  BY <1>2
<1>4. rows'[e] = NewRow
  BY <1>2
<1>5. ASSUME NEW r \in Relay
      PROVE  TodoOK(r)' /\ IdleOK(r)'
  <2>1. TodoOK(r) /\ IdleOK(r) /\ Range(batch[r]) \subseteq Event
    BY DEF SoloInv, IInv, TypeOK, Range
  <2>2. \A f \in Event : Marked(r, f)' = Marked(r, f)
    BY <1>2 DEF Marked, Current
  <2>3. TodoOK(r)'
    BY <1>2, <1>3, <2>1, <2>2 DEF TodoOK
  <2>. QED  BY <1>2, <2>1, <2>3 DEF IdleOK
<1>6. TableStep
  BY <1>2, <1>3, <1>4 DEF TableStep
<1>7. DeliveryStep
  BY <1>2 DEF DeliveryStep
<1>. QED  BY <1>1, <1>5, <1>6, <1>7, CountStep DEF SoloInv

\* Outside a drain nothing is held.
LEMMA SoloLeave ==
    ASSUME SoloInv, IInv', OnePoller, NEW r \in Relay, LeaveDrain(r),
           UNCHANGED <<rows, received>>
    PROVE  SoloInv' /\ TableStep /\ DeliveryStep
<1>1. \A q \in Relay : q = r
  BY DEF OnePoller
<1>2. batch'[r] = <<>>
  BY DEF SoloInv, IInv, TypeOK, LeaveDrain
<1>3. TodoOK(r)' /\ IdleOK(r)'
  BY <1>2 DEF TodoOK, IdleOK, IsInjective, Range
<1>4. TableStep /\ DeliveryStep
  BY DEF TableStep, DeliveryStep
<1>. QED  BY <1>1, <1>3, <1>4, CountStep DEF SoloInv

LEMMA SoloLife ==
    ASSUME SoloInv, OnePoller, NEW r \in Relay, Start(r) \/ Stop(r) \/ Stopped(r) \/ Crash(r)
    PROVE  SoloInv' /\ TableStep /\ DeliveryStep
<1>1. IInv'
  BY LifeInv DEF SoloInv
<1>2. rows' = rows /\ received' = received
  BY DEF Start, Stop, Stopped, Crash
<1>3. CASE Crash(r)
  BY <1>1, <1>2, <1>3, SoloLeave DEF Crash
<1>4. CASE Start(r) \/ Stop(r) \/ Stopped(r)
  <2>1. UNCHANGED <<pc, batch, entity>>
    BY <1>4 DEF Start, Stop, Stopped, drain
  <2>2. \A q \in Relay : TodoOK(q)' /\ IdleOK(q)'
    BY <1>2, <2>1 DEF SoloInv, TodoOK, IdleOK, Marked, Current
  <2>3. TableStep /\ DeliveryStep
    BY <1>2 DEF TableStep, DeliveryStep
  <2>. QED  BY <1>1, <2>2, <2>3, CountStep DEF SoloInv
<1>. QED  BY <1>3, <1>4

LEMMA SoloLoad ==
    ASSUME SoloInv, OnePoller, NEW r \in Relay, Load(r)
    PROVE  SoloInv' /\ TableStep /\ DeliveryStep
<1>1. IInv'
  BY LoadInv DEF SoloInv
<1>2. rows' = rows /\ received' = received /\ pc'[r] = "sending"
  BY DEF Load, SoloInv, IInv, TypeOK
<1>3. TableStep /\ DeliveryStep
  BY <1>2 DEF TableStep, DeliveryStep
<1>4. PICK b \in Batches(rows) :
         /\ batch' = [batch EXCEPT ![r] = b]
         /\ entity' = [entity EXCEPT ![r] = Snapshot(b, rows)]
  BY DEF Load
<1>5. /\ batch'[r] = b /\ entity'[r] = Snapshot(b, rows)
      /\ rows \in [Event -> Row]
  BY <1>4 DEF SoloInv, IInv, TypeOK
<1>6. /\ b \in Seq(Event) /\ IsInjective(b)
      /\ \A i \in DOMAIN b : rows[b[i]].status = "pending"
  BY <1>5, BatchFacts
<1>7. TodoOK(r)' /\ IdleOK(r)'
  <2>1. \A e \in Range(b) : e \in Event /\ rows[e].status = "pending"
    BY <1>6 DEF Range
  <2>2. \A e \in Range(b) : Snapshot(b, rows)[e] = rows[e]
    BY <2>1 DEF Snapshot
  <2>. QED  BY <1>2, <1>5, <1>6, <2>1, <2>2 DEF TodoOK, IdleOK, Marked
<1>8. \A q \in Relay : q = r
  BY DEF OnePoller
<1>. QED  BY <1>1, <1>3, <1>7, <1>8, CountStep DEF SoloInv

\* A call delivers a pending event, the head of the batch, whose struct is its
\* row.
LEMMA SoloCall ==
    ASSUME SoloInv, NEW r \in Relay, CallDestination(r),
           CalleeReceives(r) \/ UNCHANGED received
    PROVE  /\ Current(r) \in Event /\ Current(r) \in Range(batch[r])
           /\ rows[Current(r)] \in Row /\ rows[Current(r)].status = "pending"
           /\ rows[Current(r)].attempts < MaxAttempts
           /\ entity[r][Current(r)] = rows[Current(r)]
           /\ TableStep /\ DeliveryStep
<1>1. /\ Current(r) \in Event
      /\ \A e \in Event : received[e] \subseteq received'[e]
  BY CallFacts DEF SoloInv
<1>2. batch[r] \in Seq(Event) /\ batch[r] # <<>> /\ pc[r] = "sending"
  BY DEF CallDestination, SoloInv, IInv, TypeOK
<1>3. Current(r) \in Range(batch[r])
  BY <1>2 DEF Current, Range
<1>4. rows[Current(r)].status = "pending" /\ entity[r][Current(r)] = rows[Current(r)]
  BY <1>2, <1>3 DEF SoloInv, TodoOK, Marked
<1>5. rows[Current(r)] \in Row /\ rows[Current(r)].attempts < MaxAttempts
  BY <1>1, <1>4 DEF SoloInv, CountOK, IInv, TypeOK
<1>6. TableStep
  BY DEF TableStep, CallDestination
<1>7. \A e \in Event : received'[e] # received[e] => e = Current(r)
  BY DEF CalleeReceives, SoloInv, IInv, TypeOK
<1>8. DeliveryStep
  BY <1>1, <1>4, <1>7 DEF DeliveryStep
<1>. QED  BY <1>1, <1>3, <1>4, <1>5, <1>6, <1>8

\* An attempt that ends leaves its outcome in the struct.
LEMMA SoloOutcome ==
    ASSUME SoloInv, IInv', OnePoller, NEW r \in Relay, CallDestination(r),
           CalleeReceives(r) \/ UNCHANGED received,
           NEW row, Outcome(r, row),
           row \in {Succeeded(rows[Current(r)]), CountFailure(rows[Current(r)])}
    PROVE  SoloInv'
<1>. DEFINE cur == Current(r)
<1>1. cur \in Event /\ TableStep
  BY SoloCall
<1>2. /\ rows' = rows /\ pc'[r] = "marking" /\ pc[r] = "sending"
      /\ batch' = batch /\ batch[r] \in Seq(Event)
      /\ entity'[r] = [entity[r] EXCEPT ![cur] = row]
      /\ entity[r] \in [Event -> Row]
  BY DEF SoloInv, IInv, TypeOK, CallDestination, Outcome
<1>3. Range(batch[r]) \subseteq Event
  BY <1>2 DEF Range
<1>4. entity'[r][cur] = row /\ \A e \in Event : e # cur => entity'[r][e] = entity[r][e]
  BY <1>1, <1>2
<1>5. \A e \in Event : ~Marked(r, e) /\ (Marked(r, e)' <=> e = cur)
  BY <1>2 DEF Marked, Current
<1>6. TodoOK(r)' /\ IdleOK(r)'
  BY <1>2, <1>3, <1>4, <1>5 DEF SoloInv, TodoOK, IdleOK
<1>7. \A q \in Relay : q = r
  BY DEF OnePoller
<1>. QED  BY <1>1, <1>6, <1>7, CountStep DEF SoloInv

LEMMA SoloSend ==
    ASSUME SoloInv, OnePoller, NEW r \in Relay, SendOk(r) \/ SendFails(r)
    PROVE  SoloInv' /\ TableStep /\ DeliveryStep
<1>1. CallDestination(r) /\ (CalleeReceives(r) \/ UNCHANGED received)
  BY DEF SendOk, SendFails
<1>2. IInv'
  BY SendOkInv, SendFailsInv DEF SoloInv
<1>3. /\ entity[r][Current(r)] = rows[Current(r)]
      /\ TableStep /\ DeliveryStep
  BY <1>1, SoloCall
<1>4. CASE UNCHANGED <<pc, entity>>
  <2>1. UNCHANGED <<rows, pc, batch, entity>>
    BY <1>1, <1>4 DEF CallDestination
  <2>2. \A q \in Relay : TodoOK(q)' /\ IdleOK(q)'
    BY <2>1 DEF SoloInv, TodoOK, IdleOK, Marked, Current
  <2>. QED  BY <1>2, <1>3, <2>2, CountStep DEF SoloInv
<1>5. CASE \/ Outcome(r, Succeeded(rows[Current(r)]))
           \/ Outcome(r, CountFailure(rows[Current(r)]))
  BY <1>1, <1>2, <1>3, <1>5, SoloOutcome
<1>. QED  BY <1>3, <1>4, <1>5 DEF SendOk, SendFails

\* What writing the outcome of a marked event makes of its row.
LEMMA MarkFacts ==
    ASSUME SoloInv, NEW r \in Relay, Mark(r) \/ MarkLost(r) \/ MarkCancelled(r)
    PROVE  /\ Current(r) \in Event /\ Current(r) \in Range(batch[r])
           /\ batch[r] \in Seq(Event) /\ batch[r] # <<>>
           /\ rows[Current(r)].status = "pending"
           /\ rows[Current(r)].attempts \in Nat
           /\ \A e \in Event : e # Current(r) => rows'[e] = rows[e]
           /\ WriteOutcome(r) =>
                \/ /\ Destination \subseteq received[Current(r)]
                   /\ rows'[Current(r)].status = "published"
                   /\ rows'[Current(r)].attempts = rows[Current(r)].attempts
                \/ /\ rows'[Current(r)].attempts = rows[Current(r)].attempts + 1
                   /\ rows'[Current(r)].status =
                        IF rows[Current(r)].attempts + 1 < MaxAttempts
                        THEN "pending" ELSE "failed"
<1>. DEFINE cur == Current(r)
            new == ColumnUpdate(rows[cur], entity[r][cur])
<1>1. pc[r] = "marking" /\ (UNCHANGED rows \/ WriteOutcome(r))
  BY DEF Mark, MarkLost, MarkCancelled
<1>2. /\ cur \in Event /\ batch[r] \in Seq(Event) /\ batch[r] # <<>>
      /\ rows \in [Event -> Row]
  BY <1>1, CurrentType DEF SoloInv, IInv, StageOK, TypeOK
<1>3. cur \in Range(batch[r])
  BY <1>2 DEF Current, Range
<1>4. /\ rows[cur].status = "pending"
      /\ entity[r][cur] \in {Succeeded(rows[cur]), CountFailure(rows[cur])}
  BY <1>1, <1>3 DEF SoloInv, TodoOK, Marked
<1>5. rows[cur] \in Row /\ rows[cur].attempts < MaxAttempts /\ rows[cur].attempts \in Nat
  BY <1>2, <1>4 DEF SoloInv, CountOK, Row
<1>6. WriteOutcome(r) => rows' = [rows EXCEPT ![cur] = new]
  BY DEF WriteOutcome
<1>7. \/ /\ Destination \subseteq received[cur]
         /\ new.status = "published" /\ new.attempts = rows[cur].attempts
      \/ /\ new.attempts = rows[cur].attempts + 1
         /\ new.status = IF rows[cur].attempts + 1 < MaxAttempts THEN "pending" ELSE "failed"
  <2>1. CASE entity[r][cur] = Succeeded(rows[cur])
    <3>1. Destination \subseteq received[cur]
      BY <1>2, <1>5, <2>1, RowUpdates DEF SoloInv, IInv, CopiesBacked, Backed
    <3>. QED  BY <1>4, <1>5, <2>1, <3>1, UpdateOfOutcome
  <2>2. CASE entity[r][cur] = CountFailure(rows[cur])
    BY <1>4, <1>5, <2>2, UpdateOfOutcome
  <2>. QED  BY <1>4, <2>1, <2>2
<1>. HIDE DEF new
<1>8. \A e \in Event : e # cur => rows'[e] = rows[e]
  BY <1>1, <1>2, <1>6
<1>9. WriteOutcome(r) => rows'[cur] = new
  BY <1>2, <1>6
<1>. QED  BY <1>2, <1>3, <1>4, <1>5, <1>7, <1>8, <1>9

\* The row takes the outcome or stays as it was; the next event is untouched.
LEMMA SoloMark ==
    ASSUME SoloInv, OnePoller, NEW r \in Relay, Mark(r) \/ MarkLost(r) \/ MarkCancelled(r)
    PROVE  SoloInv' /\ TableStep /\ DeliveryStep
<1>. DEFINE cur == Current(r)
<1>1. /\ NextEvent(r) /\ received' = received /\ pc[r] = "marking"
      /\ UNCHANGED rows \/ WriteOutcome(r)
  BY DEF Mark, MarkLost, MarkCancelled, NextEvent
<1>2. IInv'
  BY MarkInv DEF SoloInv
<1>3. DeliveryStep
  BY <1>1 DEF DeliveryStep
<1>4. TableStep
  <2>1. CASE UNCHANGED rows
    BY <2>1 DEF TableStep
  <2>2. CASE WriteOutcome(r)
    BY <2>2, MarkFacts DEF TableStep
  <2>. QED  BY <1>1, <2>1, <2>2
<1>5. /\ pc'[r] = "sending" /\ batch'[r] = Tail(batch[r]) /\ entity' = entity
      /\ batch[r] \in Seq(Event) /\ batch[r] # <<>> /\ IsInjective(batch[r])
  BY <1>1, MarkFacts DEF NextEvent, SoloInv, IInv, TypeOK, TodoOK
<1>6. IsInjective(batch'[r]) /\ Range(batch'[r]) = Range(batch[r]) \ {cur}
  BY <1>5, TailOfInjective DEF Current
<1>7. \A e \in Range(batch'[r]) : e \in Event /\ rows'[e] = rows[e] /\ ~Marked(r, e)
  <2>1. Range(batch[r]) \subseteq Event
    BY <1>5 DEF Range
  <2>. QED  BY <1>6, <2>1, MarkFacts DEF Marked
<1>8. TodoOK(r)' /\ IdleOK(r)'
  BY <1>5, <1>6, <1>7 DEF SoloInv, TodoOK, IdleOK, Marked
<1>9. \A q \in Relay : q = r
  BY DEF OnePoller
<1>. QED  BY <1>2, <1>3, <1>4, <1>8, <1>9, CountStep DEF SoloInv

LEMMA SoloStep == SoloInv /\ OnePoller /\ [Next]_vars => SoloInv' /\ TableStep /\ DeliveryStep
<1>. SUFFICES ASSUME SoloInv, OnePoller, [Next]_vars
              PROVE  SoloInv' /\ TableStep /\ DeliveryStep
  OBVIOUS
<1>0. IInv'
  BY InvStep DEF SoloInv
<1>1. CASE UNCHANGED vars
  BY <1>0, <1>1
     DEF vars, SoloInv, TodoOK, IdleOK, Marked, Current, CountOK, TableStep, DeliveryStep
<1>2. ASSUME NEW r \in Relay, DrainDone(r)
      PROVE  SoloInv' /\ TableStep /\ DeliveryStep
  BY <1>0, <1>2, SoloLeave DEF DrainDone
<1>3. CASE Next
  BY <1>2, <1>3, SoloCapture, SoloLife, SoloLoad, SoloSend, SoloMark DEF Next, DrainStep
<1>. QED  BY <1>1, <1>3

-----------------------------------------------------------------------------
\* What the table and the copies do is a step of the contract or leaves it.
LEMMA ContractStep ==
    ASSUME SoloInv, TableStep, DeliveryStep
    PROVE  Contract!Next
<1>. DEFINE status == [e \in Event |-> rows[e].status]
            attempts == [e \in Event |-> rows[e].attempts]
<1>1. Contract!Deliver
  BY DEF Contract!Deliver, DeliveryStep
<1>2. ASSUME NEW e \in Event
      PROVE  \/ Contract!Same(e) \/ Contract!Capture(e)
             \/ Contract!Publish(e) \/ Contract!CountFailure(e)
  <2>1. /\ status[e] = rows[e].status /\ status'[e] = rows'[e].status
        /\ attempts[e] = rows[e].attempts /\ attempts'[e] = rows'[e].attempts
    OBVIOUS
  <2>2. rows[e].status = "pending" => rows[e].attempts < MaxAttempts
    BY DEF SoloInv, CountOK
  <2>3. CASE rows'[e] = rows[e]
    BY <2>1, <2>3 DEF Contract!Same
  <2>4. CASE rows[e].status = "absent" /\ rows'[e] = NewRow
    BY <2>1, <2>4 DEF Contract!Capture, NewRow
  <2>5. CASE /\ rows[e].status = "pending"
             /\ Destination \subseteq received[e]
             /\ rows'[e].status = "published"
             /\ rows'[e].attempts = rows[e].attempts
    BY <2>1, <2>2, <2>5 DEF Contract!Publish
  <2>6. CASE /\ rows[e].status = "pending"
             /\ rows'[e].attempts = rows[e].attempts + 1
             /\ rows'[e].status =
                    IF rows[e].attempts + 1 < MaxAttempts THEN "pending" ELSE "failed"
    BY <2>1, <2>6 DEF Contract!CountFailure
  <2>. QED  BY <2>3, <2>4, <2>5, <2>6 DEF TableStep
<1>. QED  BY <1>1, <1>2 DEF Contract!Next

\* A single poller implements the outbox contract, whatever UPDATEs are lost or
\* applied without a reply and wherever it is stopped or crashes.
THEOREM SoloImplementsContract ==
    ASSUME OnePoller
    PROVE  Spec => ImplementsContract
<1>1. Init => Contract!Init
  BY DEF Init, Contract!Init, AbsentRows, AbsentRow
<1>2. SoloInv /\ [Next]_vars => SoloInv' /\ [Contract!Next]_(Contract!vars)
  BY SoloStep, ContractStep
<1>. QED  BY <1>1, <1>2, SoloInit, PTL DEF Spec, Contract!Spec, ImplementsContract

-----------------------------------------------------------------------------
(* How often a destination was called for an event.                        *)

\* The call the table does not count yet: the attempt under way is past the
\* destination, or its outcome is about to be written.
Uncounted(r, e, d) ==
    /\ batch[r] # <<>> /\ e = Current(r)
    /\ pc[r] = "marking" \/ \E i \in 1..(step[r] - 1) : Order[i] = d

\* A shutdown counts as a disruption when it begins: what the drain still does
\* under the cancelled context is paid for in advance.
BudgetOK(e, d) ==
    /\ sent[e][d] <= rows[e].attempts + 1 + disruptions
    /\ (rows[e].status # "published" /\ \A r \in Relay : ~Uncounted(r, e, d)) =>
            sent[e][d] <= rows[e].attempts + disruptions
    /\ \A r \in Relay : life[r] = "stopping" /\ rows[e].status # "published" =>
            sent[e][d] <= rows[e].attempts + disruptions
    /\ \A r \in Relay :
            life[r] = "stopping" /\ e \in Range(batch[r]) /\ ~Uncounted(r, e, d) =>
                sent[e][d] + 1 <= rows[e].attempts + disruptions

BudgetInv == SoloInv /\ \A e \in Event, d \in Destination : BudgetOK(e, d)

LEMMA BudgetInit == Init => BudgetInv
<1>. SUFFICES ASSUME Init PROVE BudgetInv
  OBVIOUS
<1>1. \A e \in Event, d \in Destination : BudgetOK(e, d)
  BY DEF Init, BudgetOK, AbsentRows, AbsentRow
<1>. QED  BY <1>1, SoloInit DEF BudgetInv

\* The numbers the budget is about.
LEMMA BudgetTypes ==
    ASSUME SoloInv, NEW e \in Event, NEW d \in Destination
    PROVE  /\ sent[e][d] \in Nat /\ rows[e].attempts \in Nat
           /\ disruptions \in Nat
BY GoRelayAssumption DEF SoloInv, IInv, TypeOK, Row

\* A step of a drain, or of nobody's, that calls nobody and writes no row.
LEMMA BudgetSame ==
    ASSUME BudgetInv, SoloInv', OnePoller,
           UNCHANGED <<sent, disruptions>>,
           \A e \in Event : rows'[e].attempts = rows[e].attempts
                         /\ (rows[e].status = "published" => rows'[e].status = "published"),
           \A r \in Relay : life'[r] = "stopping" =>
                life[r] = "stopping" /\ Range(batch'[r]) \subseteq Range(batch[r]),
           \A r \in Relay, e \in Event, d \in Destination :
                Uncounted(r, e, d) => Uncounted(r, e, d)'
    PROVE  BudgetInv'
<1>1. ASSUME NEW e \in Event, NEW d \in Destination
      PROVE  BudgetOK(e, d)'
  <2>1. BudgetOK(e, d)
    BY DEF BudgetInv
  <2>. QED  BY <2>1 DEF BudgetOK
<1>. QED  BY <1>1 DEF BudgetInv

\* A disruption pays for the call under way.
LEMMA BudgetDisrupted ==
    ASSUME BudgetInv, SoloInv', OnePoller, UNCHANGED <<sent, rows>>, Disrupted,
           \A r \in Relay : life'[r] = "stopping" => UNCHANGED <<pc, batch, step>>
    PROVE  BudgetInv'
<1>1. ASSUME NEW e \in Event, NEW d \in Destination
      PROVE  BudgetOK(e, d)'
  <2>1. BudgetOK(e, d) /\ SoloInv
    BY DEF BudgetInv
  <2>2. /\ sent[e][d] \in Nat /\ rows[e].attempts \in Nat /\ disruptions \in Nat
        /\ disruptions' = disruptions + 1
    BY <2>1, BudgetTypes DEF Disrupted
  <2>3. sent'[e][d] <= rows'[e].attempts + disruptions'
    BY <2>1, <2>2 DEF BudgetOK
  <2>4. ASSUME NEW r \in Relay, life'[r] = "stopping", e \in Range(batch'[r]),
               ~Uncounted(r, e, d)'
        PROVE  sent'[e][d] + 1 <= rows'[e].attempts + disruptions'
    <3>1. UNCHANGED <<pc, batch, step>>
      BY <2>4
    <3>2. \A q \in Relay : ~Uncounted(q, e, d)
      BY <2>4, <3>1 DEF OnePoller, Uncounted, Current
    <3>3. rows[e].status # "published"
      BY <2>1, <2>4, <3>1 DEF SoloInv, TodoOK
    <3>4. sent[e][d] <= rows[e].attempts + disruptions
      BY <2>1, <3>2, <3>3 DEF BudgetOK
    <3>. QED  BY <2>2, <3>4
  <2>5. sent'[e][d] <= rows'[e].attempts + 1 + disruptions'
    BY <2>2, <2>3
  <2>. QED  BY <2>3, <2>4, <2>5 DEF BudgetOK
<1>. QED  BY <1>1 DEF BudgetInv

\* Capture, the life of the service, and the ends of a drain call nobody.
LEMMA BudgetOutside ==
    ASSUME BudgetInv, SoloInv', OnePoller,
           \/ \E e \in Event : Capture(e)
           \/ \E r \in Relay : \/ Start(r) \/ Stop(r) \/ Stopped(r) \/ Crash(r)
                               \/ Load(r) \/ DrainDone(r)
    PROVE  BudgetInv'
<1>0. SoloInv /\ TypeOK /\ \A q, r \in Relay : q = r
  BY DEF BudgetInv, SoloInv, IInv, OnePoller
<1>1. CASE \E r \in Relay : Stop(r) \/ Crash(r)
  <2>1. PICK r \in Relay : Stop(r) \/ Crash(r)
    BY <1>1
  <2>2. UNCHANGED <<sent, rows>> /\ Disrupted
    BY <2>1 DEF Stop, Crash
  <2>3. \A q \in Relay : life'[q] = "stopping" => UNCHANGED <<pc, batch, step>>
    BY <1>0, <2>1 DEF Stop, Crash, TypeOK, drain
  <2>. QED  BY <2>2, <2>3, BudgetDisrupted
<1>2. CASE \E e \in Event : Capture(e)
  <2>1. PICK e \in Event : Capture(e)
    BY <1>2
  <2>2. UNCHANGED <<sent, disruptions, life, pc, batch, step>>
    BY <2>1 DEF Capture, drain
  <2>3. /\ rows[e].status = "absent" /\ rows[e].attempts = 0
        /\ rows'[e].attempts = 0
        /\ \A f \in Event : f # e => rows'[f] = rows[f]
    BY <1>0, <2>1 DEF Capture, NewRow, SoloInv, CountOK, TypeOK
  <2>. QED  BY <2>2, <2>3, BudgetSame DEF Uncounted, Current
<1>3. CASE \E r \in Relay : Start(r) \/ Stopped(r)
  <2>1. PICK r \in Relay : Start(r) \/ Stopped(r)
    BY <1>3
  <2>2. UNCHANGED <<sent, disruptions, rows, pc, batch, step>>
    BY <2>1 DEF Start, Stopped, drain
  <2>3. life'[r] # "stopping"
    BY <1>0, <2>1 DEF Start, Stopped, TypeOK
  <2>. QED  BY <1>0, <2>2, <2>3, BudgetSame DEF Uncounted, Current
<1>4. CASE \E r \in Relay : Load(r) \/ DrainDone(r)
  <2>1. PICK r \in Relay : Load(r) \/ DrainDone(r)
    BY <1>4
  <2>2. UNCHANGED <<sent, disruptions, rows, life>>
    BY <2>1 DEF Load, DrainDone
  <2>3. batch[r] = <<>>
    BY <1>0, <2>1 DEF Load, DrainDone, SoloInv, IdleOK
  <2>4. \A q \in Relay, e \in Event, d \in Destination : ~Uncounted(q, e, d)
    BY <1>0, <2>3 DEF Uncounted
  <2>5. life'[r] = "stopping" => batch'[r] = <<>>
    BY <1>0, <2>1, <2>2 DEF Load, DrainDone, LeaveDrain, TypeOK
  <2>6. \A q \in Relay : life'[q] = "stopping" =>
            life[q] = "stopping" /\ Range(batch'[q]) \subseteq Range(batch[q])
    BY <1>0, <2>2, <2>5 DEF Range
  <2>. QED  BY <2>2, <2>4, <2>6, BudgetSame
<1>. QED  BY <1>1, <1>2, <1>3, <1>4

\* A destination is called only while its call is counted, and the call then
\* stays uncounted until the outcome is written.
LEMMA BudgetSend ==
    ASSUME BudgetInv, SoloInv', OnePoller, DistinctOrder,
           NEW r \in Relay, SendOk(r) \/ SendFails(r)
    PROVE  BudgetInv'
<1>. DEFINE cur == Current(r)
            dest == Callee(r)
<1>1. /\ CallDestination(r) /\ (CalleeReceives(r) \/ UNCHANGED received)
      /\ SoloInv /\ IInv
  BY DEF SendOk, SendFails, BudgetInv, SoloInv
<1>2. /\ cur \in Event /\ cur \in Range(batch[r]) /\ step[r] \in 1..Len(Order)
      /\ dest \in Destination
      /\ rows[cur].status = "pending"
  BY <1>1, CallFacts, SoloCall
<1>3. /\ rows' = rows /\ disruptions' = disruptions /\ life' = life /\ batch' = batch
      /\ sent' = [sent EXCEPT ![cur][dest] = sent[cur][dest] + 1]
      /\ sent \in [Event -> [Destination -> Nat]]
      /\ batch[r] # <<>> /\ pc[r] = "sending"
  BY <1>1 DEF CallDestination, IInv, TypeOK
<1>4. \A q \in Relay : q = r
  BY DEF OnePoller
<1>5. ~Uncounted(r, cur, dest)
  <2>1. Order \in Seq(Destination) /\ step[r] \in DOMAIN Order
    BY <1>2, GoRelayAssumption
  <2>2. \A i \in 1..(step[r] - 1) : i \in DOMAIN Order /\ i # step[r]
    BY <1>2, <2>1
  <2>3. \A i \in 1..(step[r] - 1) : Order[i] # Order[step[r]]
    BY <2>1, <2>2 DEF DistinctOrder, IsInjective
  <2>. QED  BY <1>3, <2>3 DEF Uncounted, Callee
<1>6. pc'[r] = "marking" \/ (pc' = pc /\ step'[r] = step[r] + 1)
  BY <1>1 DEF SendOk, SendFails, Outcome, IInv, TypeOK
<1>7. ASSUME NEW e \in Event, NEW d \in Destination,
             Uncounted(r, e, d) \/ (e = cur /\ d = dest)
      PROVE  Uncounted(r, e, d)'
  <2>0. e = cur
    BY <1>7 DEF Uncounted
  <2>1. CASE pc'[r] = "marking"
    BY <1>3, <2>0, <2>1 DEF Uncounted, Current
  <2>2. CASE pc' = pc /\ step'[r] = step[r] + 1
    <3>1. /\ step[r] \in 1..(step'[r] - 1)
          /\ \A i \in 1..(step[r] - 1) : i \in 1..(step'[r] - 1)
      BY <1>2, <2>2
    <3>. QED  BY <1>3, <1>7, <2>0, <2>2, <3>1 DEF Uncounted, Current, Callee
  <2>. QED  BY <1>6, <2>1, <2>2
<1>8. ASSUME NEW e \in Event, NEW d \in Destination
      PROVE  BudgetOK(e, d)'
  <2>1. /\ BudgetOK(e, d) /\ rows[e].attempts \in Nat /\ disruptions \in Nat
        /\ sent[e][d] \in Nat
    BY <1>1, BudgetTypes DEF BudgetInv
  <2>2. CASE e = cur /\ d = dest
    <3>1. /\ sent[e][d] <= rows[e].attempts + disruptions
          /\ life[r] = "stopping" => sent[e][d] + 1 <= rows[e].attempts + disruptions
      BY <1>2, <1>4, <1>5, <2>1, <2>2 DEF BudgetOK
    <3>2. sent'[e][d] = sent[e][d] + 1
      BY <1>3, <2>2
    <3>3. /\ sent'[e][d] <= rows'[e].attempts + 1 + disruptions'
          /\ life'[r] = "stopping" => sent'[e][d] <= rows'[e].attempts + disruptions'
      BY <1>3, <2>1, <3>1, <3>2
    <3>. QED  BY <1>4, <1>7, <2>2, <3>3 DEF BudgetOK
  <2>3. CASE ~(e = cur /\ d = dest)
    <3>1. sent'[e][d] = sent[e][d]
      BY <1>3, <2>3
    <3>. QED  BY <1>3, <1>4, <1>7, <2>1, <3>1 DEF BudgetOK
  <2>. QED  BY <2>2, <2>3
<1>. QED  BY <1>8 DEF BudgetInv

\* An UPDATE counts the calls of its attempt.  A lost one is a disruption, and
\* one under a cancelled context was paid for when the shutdown began.
LEMMA BudgetMark ==
    ASSUME BudgetInv, SoloInv', OnePoller,
           NEW r \in Relay, Mark(r) \/ MarkLost(r) \/ MarkCancelled(r)
    PROVE  BudgetInv'
<1>. DEFINE cur == Current(r)
<1>1. /\ SoloInv /\ TypeOK /\ NextEvent(r) /\ life' = life /\ pc[r] = "marking"
      /\ UNCHANGED rows \/ WriteOutcome(r)
      /\ UNCHANGED sent
  BY DEF Mark, MarkLost, MarkCancelled, BudgetInv, SoloInv, IInv, NextEvent
<1>2. /\ cur \in Event /\ rows[cur].status = "pending"
      /\ batch[r] \in Seq(Event) /\ batch[r] # <<>>
      /\ \A e \in Event : e # cur => rows'[e] = rows[e]
  BY <1>1, MarkFacts
<1>3. /\ batch'[r] = Tail(batch[r]) /\ IsInjective(batch[r])
      /\ step'[r] = 1 /\ pc'[r] = "sending"
  BY <1>1 DEF NextEvent, SoloInv, TypeOK, TodoOK, IInv, StageOK
<1>4. Range(batch'[r]) = Range(batch[r]) \ {cur}
  BY <1>2, <1>3, TailOfInjective DEF Current
<1>5. \A q \in Relay : q = r
  BY DEF OnePoller
<1>6. \/ /\ life[r] = "up" /\ disruptions' = disruptions /\ WriteOutcome(r)
      \/ /\ life[r] = "up" /\ disruptions' = disruptions + 1
      \/ /\ life[r] = "stopping" /\ disruptions' = disruptions /\ UNCHANGED rows
  BY DEF Mark, MarkLost, MarkCancelled, Disrupted
<1>7. rows'[cur].attempts \in Nat /\ rows[cur].attempts <= rows'[cur].attempts
  BY <1>1, <1>2, MarkFacts
<1>8. ASSUME NEW e \in Event, NEW d \in Destination
      PROVE  BudgetOK(e, d)'
  <2>1. /\ BudgetOK(e, d) /\ rows[e].attempts \in Nat /\ disruptions \in Nat
        /\ disruptions' \in {disruptions, disruptions + 1}
        /\ sent[e][d] \in Nat /\ sent'[e][d] = sent[e][d]
    BY <1>1, <1>6, BudgetTypes DEF BudgetInv
  <2>2. CASE e # cur
    <3>1. ~Uncounted(r, e, d) /\ rows'[e] = rows[e]
      BY <1>2, <2>2 DEF Uncounted
    <3>. QED  BY <1>1, <1>4, <1>5, <2>1, <3>1 DEF BudgetOK
  <2>3. CASE e = cur
    <3>1. e \notin Range(batch'[r])
      BY <1>4, <2>3
    <3>2. sent'[e][d] <= rows'[e].attempts + 1 + disruptions'
      BY <1>7, <2>1, <2>3 DEF BudgetOK
    <3>3. \/ rows'[e].status = "published"
          \/ sent'[e][d] <= rows'[e].attempts + disruptions'
      <4>1. CASE life[r] = "up" /\ disruptions' = disruptions /\ WriteOutcome(r)
        <5>1. \/ rows'[e].status = "published"
              \/ rows'[e].attempts = rows[e].attempts + 1
          BY <1>1, <2>3, <4>1, MarkFacts
        <5>. QED  BY <2>1, <4>1, <5>1 DEF BudgetOK
      <4>2. CASE life[r] = "up" /\ disruptions' = disruptions + 1
        BY <1>7, <2>1, <2>3, <4>2 DEF BudgetOK
      <4>3. CASE life[r] = "stopping" /\ disruptions' = disruptions /\ UNCHANGED rows
        BY <1>2, <2>1, <2>3, <4>3 DEF BudgetOK
      <4>. QED  BY <1>6, <4>1, <4>2, <4>3
    <3>. QED  BY <1>5, <3>1, <3>2, <3>3 DEF BudgetOK
  <2>. QED  BY <2>2, <2>3
<1>. QED  BY <1>8 DEF BudgetInv

LEMMA BudgetStep ==
    ASSUME OnePoller, DistinctOrder
    PROVE  BudgetInv /\ [Next]_vars => BudgetInv'
<1>. SUFFICES ASSUME BudgetInv, [Next]_vars PROVE BudgetInv'
  OBVIOUS
<1>1. SoloInv'
  BY SoloStep DEF BudgetInv
<1>2. CASE UNCHANGED vars
  BY <1>1, <1>2 DEF vars, BudgetInv, BudgetOK, Uncounted, Current
<1>3. CASE Next
  BY <1>1, <1>3, BudgetOutside, BudgetSend, BudgetMark DEF Next, DrainStep
<1>. QED  BY <1>2, <1>3

\* A single poller calls a destination at most once per counted attempt, once
\* for the attempt that succeeds or is under way, and once per disruption.
THEOREM SoloSendsWithinBudget ==
    ASSUME OnePoller, DistinctOrder
    PROVE  Spec => []SendsWithinBudget
<1>1. BudgetInv => SendsWithinBudget
  BY DEF BudgetInv, BudgetOK, SendsWithinBudget
<1>. QED  BY <1>1, BudgetInit, BudgetStep, PTL DEF Spec
=============================================================================
