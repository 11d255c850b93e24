------------------------- MODULE EventTableProofs -------------------------
(***************************************************************************)
(* Lemmas about the operators of EventTable, cited by the proofs about the *)
(* three relays.                                                           *)
(***************************************************************************)
EXTENDS EventTable, TLAPS

\* A query answer is a sequence of distinct pending events.
LEMMA BatchFacts ==
    ASSUME NEW table \in [Event -> Row], NEW b \in Batches(table)
    PROVE  /\ b \in Seq(Event)
           /\ IsInjective(b)
           /\ \A i \in DOMAIN b : table[b[i]].status = "pending"
<1>1. PICK n \in 0..Limit : b \in [1..n -> PendingEvents(table)]
  BY DEF Batches
<1>2. n \in Nat
  BY EventTableAssumption
<1>3. PendingEvents(table) \subseteq Event
  BY DEF PendingEvents
<1>4. b \in Seq(Event)
  BY <1>1, <1>2, <1>3
<1>5. IsInjective(b)
  BY DEF Batches
<1>6. \A i \in DOMAIN b : table[b[i]].status = "pending"
  BY <1>1 DEF PendingEvents
<1>. QED  BY <1>4, <1>5, <1>6

\* The copies a drain holds are rows of the table, or absent.
LEMMA SnapshotFacts ==
    ASSUME NEW table \in [Event -> Row], NEW b
    PROVE  /\ Snapshot(b, table) \in [Event -> Row]
           /\ \A e \in Event : \/ Snapshot(b, table)[e] = table[e]
                               \/ Snapshot(b, table)[e] = AbsentRow
           /\ \A i \in DOMAIN b :
                b[i] \in Event => Snapshot(b, table)[b[i]] = table[b[i]]
BY DEF Snapshot, AbsentRow, Row, Status, Range

\* The constant rows are rows.
LEMMA RowConstants ==
    AbsentRow \in Row /\ NewRow \in Row /\ AbsentRows \in [Event -> Row]
BY DEF AbsentRow, NewRow, AbsentRows, Row, Status

\* The effect of an attempt on a row is a row.
LEMMA RowUpdates ==
    ASSUME NEW row \in Row
    PROVE  /\ Succeeded(row) \in Row
           /\ Succeeded(row).status = "published"
           /\ Succeeded(row).attempts = row.attempts
           /\ CountFailure(row) \in Row
           /\ CountFailure(row).attempts = row.attempts + 1
           /\ CountFailure(row).status =
                IF row.attempts + 1 >= MaxAttempts THEN "failed" ELSE row.status
<1>1. /\ Succeeded(row) \in Row
      /\ Succeeded(row).status = "published"
      /\ Succeeded(row).attempts = row.attempts
  BY DEF Succeeded, Row, Status
<1>2. row.attempts + 1 \in Nat /\ row.status \in Status
  BY DEF Row
<1>3. PICK s \in Status :
         s = IF row.attempts + 1 >= MaxAttempts THEN "failed" ELSE row.status
  BY <1>2 DEF Status
<1>4. CountFailure(row) = [row EXCEPT !.attempts = row.attempts + 1, !.status = s]
  BY <1>3 DEF CountFailure
<1>5. /\ CountFailure(row) \in Row
      /\ CountFailure(row).attempts = row.attempts + 1
      /\ CountFailure(row).status = s
  BY <1>2, <1>4 DEF Row
<1>. QED  BY <1>1, <1>3, <1>5

\* An UPDATE leaves a row, and publishes only from a published copy.
LEMMA ColumnUpdateFacts ==
    ASSUME NEW row \in Row, NEW copy \in Row
    PROVE  /\ ColumnUpdate(row, copy) \in Row
           /\ ColumnUpdate(row, copy).status = "published" =>
                row.status = "published" \/ copy.status = "published"
<1>1. CASE copy.status = "published"
  BY <1>1 DEF ColumnUpdate, Row, Status
<1>2. CASE copy.status # "published"
  <2>1. copy.attempts \in Nat /\ row.status \in Status
    BY DEF Row
  <2>2. PICK s \in Status :
           s = IF copy.status = "failed" THEN "failed" ELSE row.status
    BY <2>1 DEF Status
  <2>3. ColumnUpdate(row, copy) =
           [row EXCEPT !.attempts = copy.attempts, !.status = s]
    BY <1>2, <2>2 DEF ColumnUpdate
  <2>. QED  BY <2>1, <2>2, <2>3 DEF Row
<1>. QED  BY <1>1, <1>2

\* What an UPDATE makes of a row and its copy one attempt on.
LEMMA UpdateOfOutcome ==
    ASSUME NEW row \in Row, row.status = "pending", row.attempts < MaxAttempts
    PROVE  /\ ColumnUpdate(row, Succeeded(row)).status = "published"
           /\ ColumnUpdate(row, Succeeded(row)).attempts = row.attempts
           /\ ColumnUpdate(row, CountFailure(row)).attempts = row.attempts + 1
           /\ ColumnUpdate(row, CountFailure(row)).status =
                IF row.attempts + 1 < MaxAttempts THEN "pending" ELSE "failed"
           /\ ColumnUpdate(row, Succeeded(row)) \in Row
           /\ ColumnUpdate(row, CountFailure(row)) \in Row
<1>. DEFINE s == Succeeded(row)
            f == CountFailure(row)
<1>1. s \in Row /\ s.status = "published" /\ s.attempts = row.attempts
  BY RowUpdates
<1>2. /\ f \in Row
      /\ f.attempts = row.attempts + 1
      /\ f.status = IF row.attempts + 1 >= MaxAttempts THEN "failed" ELSE "pending"
  BY RowUpdates
<1>. HIDE DEF s, f
<1>3. ColumnUpdate(row, s) \in Row /\ ColumnUpdate(row, f) \in Row
  BY <1>1, <1>2, ColumnUpdateFacts
<1>4. ColumnUpdate(row, s).status = "published" /\ ColumnUpdate(row, s).attempts = row.attempts
  BY <1>1 DEF ColumnUpdate, Row
<1>5. /\ ColumnUpdate(row, f).attempts = row.attempts + 1
      /\ ColumnUpdate(row, f).status =
            IF row.attempts + 1 < MaxAttempts THEN "pending" ELSE "failed"
  <2>1. f.status # "published"
    BY <1>2
  <2>2. row.attempts \in Nat /\ MaxAttempts \in Nat
    BY EventTableAssumption DEF Row
  <2>3. f.status = "failed" <=> ~(row.attempts + 1 < MaxAttempts)
    BY <1>2, <2>2
  <2>4. ColumnUpdate(row, f) = [row EXCEPT !.attempts = f.attempts,
                    !.status = IF f.status = "failed" THEN "failed" ELSE row.status]
    BY <2>1 DEF ColumnUpdate
  <2>. QED  BY <1>2, <2>3, <2>4 DEF Row
<1>. QED  BY <1>1, <1>3, <1>4, <1>5 DEF s, f

\* Without its head, an injective sequence has the other elements.
LEMMA TailOfInjective ==
    ASSUME NEW S, NEW b \in Seq(S), b # <<>>, IsInjective(b)
    PROVE  IsInjective(Tail(b)) /\ Range(Tail(b)) = Range(b) \ {Head(b)}
<1>1. /\ Len(b) \in Nat /\ Len(b) >= 1 /\ DOMAIN b = 1..Len(b)
      /\ DOMAIN Tail(b) = 1..(Len(b) - 1)
      /\ \A i \in DOMAIN Tail(b) : i + 1 \in DOMAIN b /\ Tail(b)[i] = b[i + 1]
      /\ Head(b) = b[1]
  OBVIOUS
<1>2. IsInjective(Tail(b))
  BY <1>1 DEF IsInjective
<1>3. \A i \in DOMAIN b : i # 1 => i - 1 \in DOMAIN Tail(b) /\ b[i] = Tail(b)[i - 1]
  BY <1>1
<1>4. ASSUME NEW x \in Range(b) \ {Head(b)} PROVE x \in Range(Tail(b))
  <2>1. PICK k \in DOMAIN b : b[k] = x
    BY DEF Range
  <2>2. k - 1 \in DOMAIN Tail(b) /\ x = Tail(b)[k - 1]
    BY <1>1, <1>3, <2>1
  <2>. QED  BY <2>2 DEF Range
<1>5. ASSUME NEW x \in Range(Tail(b)) PROVE x \in Range(b) /\ x # Head(b)
  <2>1. PICK k \in DOMAIN Tail(b) : Tail(b)[k] = x
    BY DEF Range
  <2>2. k + 1 \in DOMAIN b /\ x = b[k + 1]
    BY <1>1, <2>1
  <2>3. 1 \in DOMAIN b /\ k + 1 # 1
    BY <1>1
  <2>4. b[k + 1] # b[1]
    BY <2>2, <2>3 DEF IsInjective
  <2>. QED  BY <1>1, <2>2, <2>4 DEF Range
<1>. QED  BY <1>2, <1>4, <1>5
=============================================================================
