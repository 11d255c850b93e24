-------------------------- MODULE SchemaToolsProofs --------------------------
(***************************************************************************)
(* Proof that edits and fixes keep a schema a schema, that no fix removes  *)
(* more than fixSchema says, that the rules report an error exactly on the *)
(* schemas that do not compile, but for three faults no rule sees, and     *)
(* that a renamed entity takes its references along, for any schema, edits *)
(* and passes.                                                             *)
(***************************************************************************)
EXTENDS SchemaTools, FiniteSetTheorems, SequenceTheorems, NaturalsInduction, TLAPS

-----------------------------------------------------------------------------
(* What the rules look at.                                                 *)

\* Ends exist, and no two relationships give a class members of one name.
RelationshipsApart(s) ==
    /\ \A r \in Range(s.rels) :
        {r.from, r.to} \subseteq EntityNames(s) /\ r.type \in RelationshipType
    /\ \A d, c \in GeneratingSides(s) :
        d.entity = c.entity /\ d.rel # c.rel => GivenNames(d) \cap GivenNames(c) = {}

\* Indexes name columns, with the ones every row is taken to have.
IndexesKnown(s, i) ==
    \A c \in DOMAIN s.entities[i].indexes :
        LET columns == s.entities[i].indexes[c].fields
        IN  /\ columns # <<>>
            /\ Range(columns) \subseteq
                AssumedColumns \cup FieldNames(s, i) \cup GivenMembers(s, s.entities[i].name)

RulesHold(s) ==
    /\ EntitiesCompile(s)
    /\ RelationshipsApart(s)
    /\ \A i \in DOMAIN s.entities : FieldsCompile(s, i) /\ IndexesKnown(s, i)
    /\ Insertable(s)

-----------------------------------------------------------------------------
(* Positions and sequences.                                                *)

LEMMA ClimbsForever ==
    ASSUME NEW S, 0 \in S, \A n \in Nat : n \in S => n + 1 \in S
    PROVE  Nat \subseteq S
<1>. SUFFICES ASSUME Nat \ S # {} PROVE FALSE
  OBVIOUS
<1>. DEFINE R == {pair \in Nat \X Nat : pair[1] < pair[2]}
<1>1. IsWellFoundedOn(R, Nat)
  BY NatLessThanWellFounded DEF OpToRel
<1>2. \A x, y \in Nat : x < y => <<x, y>> \in R
  OBVIOUS
<1>. HIDE DEF R
<1>3. PICK m \in Nat \ S : \A n \in Nat \ S : ~(<<n, m>> \in R)
  BY <1>1, WFMin
<1>4. m # 0 /\ m - 1 \in Nat
  BY <1>3
<1>5. m - 1 \in S
  <2>1. <<m - 1, m>> \in R
    BY <1>2, <1>4
  <2>. QED  BY <1>3, <1>4, <2>1
<1>6. (m - 1) + 1 \in S
  BY <1>4, <1>5
<1>. QED  BY <1>3, <1>4, <1>6

LEMMA LeastOf ==
    ASSUME NEW P, P # {}, P \subseteq Nat
    PROVE  \E i \in P : \A j \in P : i <= j
<1>. DEFINE R == {pair \in Nat \X Nat : pair[1] < pair[2]}
<1>1. IsWellFoundedOn(R, Nat)
  BY NatLessThanWellFounded DEF OpToRel
<1>2. \A x, y \in Nat : x < y => <<x, y>> \in R
  OBVIOUS
<1>. HIDE DEF R
<1>3. PICK i \in P : \A j \in P : ~(<<j, i>> \in R)
  BY <1>1, WFMin
<1>4. ASSUME NEW j \in P PROVE i <= j
  <2>1. i \in Nat /\ j \in Nat
    OBVIOUS
  <2>2. ~(j < i)
    BY <1>2, <1>3, <2>1
  <2>. QED  BY <2>1, <2>2
<1>. QED  BY <1>4

\* Every place has a rank, and every rank up to their number is some place's.
LEMMA InOrderCounts ==
    ASSUME NEW P, IsFiniteSet(P), P \subseteq Int
    PROVE  LET upto(i) == {j \in P : j <= i}
               n == Cardinality(P)
           IN  /\ n \in Nat
               /\ \A i \in P : Cardinality(upto(i)) \in 1..n
               /\ \A i, j \in P : Cardinality(upto(i)) = Cardinality(upto(j)) => i = j
               /\ \A m \in 1..n : \E i \in P : Cardinality(upto(i)) = m
<1>. DEFINE upto(i) == {j \in P : j <= i}
            rank == [i \in P |-> Cardinality(upto(i))]
            n == Cardinality(P)
<1>1. n \in Nat
  BY FS_CardinalityType
<1>2. ASSUME NEW i \in P PROVE IsFiniteSet(upto(i)) /\ Cardinality(upto(i)) \in 1..n
  <2>1. upto(i) \in SUBSET P
    OBVIOUS
  <2>2. IsFiniteSet(upto(i)) /\ Cardinality(upto(i)) <= n
    BY <2>1, FS_Subset
  <2>3. i \in upto(i)
    OBVIOUS
  <2>4. Cardinality(upto(i)) \in Nat /\ Cardinality(upto(i)) # 0
    BY <2>2, <2>3, FS_CardinalityType, FS_EmptySet
  <2>. QED  BY <1>1, <2>2, <2>4
<1>3. ASSUME NEW i \in P, NEW j \in P, i < j PROVE Cardinality(upto(i)) # Cardinality(upto(j))
  <2>1. \A k \in P : k <= i => k <= j
    <3>1. \A k \in P : k \in Int
      OBVIOUS
    <3>. QED  BY <1>3, <3>1
  <2>3. upto(i) \in SUBSET upto(j)
    BY <2>1
  <2>2. j \in upto(j) /\ j \notin upto(i)
    BY <1>3
  <2>. QED  BY <1>2, <2>2, <2>3, FS_Subset
<1>4. rank \in Injection(P, 1..n)
  <2>1. rank \in [P -> 1..n]
    BY <1>2
  <2>2. \A i, j \in P : rank[i] = rank[j] => i = j
    <3>. SUFFICES ASSUME NEW i \in P, NEW j \in P, i # j PROVE rank[i] # rank[j]
      OBVIOUS
    <3>1. i < j \/ j < i
      OBVIOUS
    <3>. QED  BY <1>3, <3>1
  <2>. QED  BY <2>1, <2>2 DEF Injection, IsInjective
<1>5. rank \in Surjection(P, 1..n)
  <2>1. IsFiniteSet(1..n) /\ Cardinality(1..n) = n
    BY <1>1, FS_Interval
  <2>. QED  BY <1>4, <2>1, FS_Injection
<1>6. \A m \in 1..n : \E i \in P : Cardinality(upto(i)) = m
  BY <1>5 DEF Surjection
<1>. QED  BY <1>1, <1>2, <1>4, <1>6 DEF Injection, IsInjective

LEMMA InOrderType ==
    ASSUME NEW P, IsFiniteSet(P), P \subseteq Int
    PROVE  /\ InOrder(P) \in [1..Cardinality(P) -> P] /\ Cardinality(P) \in Nat
           /\ Range(InOrder(P)) = P
<1>. DEFINE upto(i) == {j \in P : j <= i}
            n == Cardinality(P)
<1>1. n \in Nat
  BY InOrderCounts
<1>2. \A i \in P : Cardinality(upto(i)) \in 1..n
  BY InOrderCounts
<1>3. \A i, j \in P : Cardinality(upto(i)) = Cardinality(upto(j)) => i = j
  BY InOrderCounts
<1>4. \A m \in 1..n : \E i \in P : Cardinality(upto(i)) = m
  BY InOrderCounts
<1>. HIDE DEF n
<1>5. \A m \in 1..n : (CHOOSE i \in P : Cardinality(upto(i)) = m) \in P
  BY <1>4
<1>6. InOrder(P) = [m \in 1..n |-> CHOOSE i \in P : Cardinality(upto(i)) = m]
  BY DEF InOrder, n
<1>7. InOrder(P) \in [1..n -> P]
  BY <1>5, <1>6
<1>8. ASSUME NEW i \in P PROVE InOrder(P)[Cardinality(upto(i))] = i
  <2>1. InOrder(P)[Cardinality(upto(i))]
            = CHOOSE j \in P : Cardinality(upto(j)) = Cardinality(upto(i))
    BY <1>2, <1>6 DEF n
  <2>2. \A j \in P : Cardinality(upto(j)) = Cardinality(upto(i)) => j = i
    BY <1>3
  <2>. HIDE DEF upto
  <2>. QED  BY <2>1, <2>2
<1>9. \A i \in P : \E m \in DOMAIN InOrder(P) : InOrder(P)[m] = i
  BY <1>2, <1>7, <1>8 DEF n
<1>10. Range(InOrder(P)) = P
  BY <1>7, <1>9 DEF Range
<1>. QED  BY <1>1, <1>7, <1>10 DEF n

LEMMA AtPositionsType ==
    ASSUME NEW S, NEW s \in Seq(S), NEW P, P \subseteq DOMAIN s
    PROVE  AtPositions(s, P) \in Seq(S)
<1>1. IsFiniteSet(P) /\ P \subseteq Int
  <2>1. DOMAIN s = 1..Len(s) /\ Len(s) \in Nat
    OBVIOUS
  <2>2. IsFiniteSet(1..Len(s))
    BY <2>1, FS_Interval
  <2>. QED  BY <2>1, <2>2, FS_Subset
<1>2. InOrder(P) \in [1..Cardinality(P) -> P] /\ Cardinality(P) \in Nat
  BY <1>1, InOrderType
<1>3. AtPositions(s, P) \in [1..Cardinality(P) -> S]
  BY <1>2 DEF AtPositions
<1>. QED  BY <1>2, <1>3

LEMMA AtPositionsRange ==
    ASSUME NEW S, NEW s \in Seq(S), NEW P, P \subseteq DOMAIN s
    PROVE  Range(AtPositions(s, P)) = {s[i] : i \in P}
<1>1. IsFiniteSet(P) /\ P \subseteq Int
  <2>1. DOMAIN s = 1..Len(s) /\ Len(s) \in Nat
    OBVIOUS
  <2>2. IsFiniteSet(1..Len(s))
    BY <2>1, FS_Interval
  <2>. QED  BY <2>1, <2>2, FS_Subset
<1>2. Range(InOrder(P)) = P
  BY <1>1, InOrderType
<1>. QED  BY <1>2 DEF AtPositions, Range

\* What is in two sequences, and nothing else, is in the one after the other.
LEMMA ConcatRange ==
    ASSUME NEW S, NEW f \in Seq(S), NEW g \in Seq(S)
    PROVE  Range(f \o g) = Range(f) \cup Range(g)
<1>1. \A k \in DOMAIN f : k \in DOMAIN (f \o g) /\ (f \o g)[k] = f[k]
  OBVIOUS
<1>2. \A k \in DOMAIN g : k + Len(f) \in DOMAIN (f \o g) /\ (f \o g)[k + Len(f)] = g[k]
  OBVIOUS
<1>3. \A k \in DOMAIN (f \o g) :
        \/ k \in DOMAIN f /\ (f \o g)[k] = f[k]
        \/ k - Len(f) \in DOMAIN g /\ (f \o g)[k] = g[k - Len(f)]
  OBVIOUS
<1>. DEFINE h == f \o g
<1>. HIDE DEF h
<1>4. Range(f) \subseteq Range(h)
  BY <1>1 DEF Range, h
<1>5. Range(g) \subseteq Range(h)
  <2>. SUFFICES ASSUME NEW k \in DOMAIN g PROVE g[k] \in Range(h)
    BY DEF Range
  <2>. QED  BY <1>2 DEF Range, h
<1>6. Range(h) \subseteq Range(f) \cup Range(g)
  <2>. SUFFICES ASSUME NEW k \in DOMAIN h PROVE h[k] \in Range(f) \cup Range(g)
    BY DEF Range
  <2>. QED  BY <1>3 DEF Range, h
<1>. QED  BY <1>4, <1>5, <1>6 DEF h

\* FlattenSeq appends the sequences one after the other.
Joins(flat, seqs, n) ==
    \A i \in 1..n : flat[i] = IF i = 1 THEN seqs[i] ELSE flat[i - 1] \o seqs[i]

LEMMA FlattenIs ==
    ASSUME NEW S, NEW n \in Nat, n # 0, NEW seqs \in [1..n -> Seq(S)]
    PROVE  \E flat : Joins(flat, seqs, n) /\ flat \in [1..n -> Seq(S)] /\ FlattenSeq(seqs) = flat[n]
<1>1. seqs \in Seq(Seq(S)) /\ Len(seqs) = n
  OBVIOUS
<1>. DEFINE Joined(m) == \E f \in [1..m -> Seq(S)] : Joins(f, seqs, m)
            H == {m \in Nat : m \in 1..n => Joined(m)}
<1>2. 0 \in H
  OBVIOUS
<1>3. ASSUME NEW m \in Nat, m \in 1..n => Joined(m), m + 1 \in 1..n PROVE Joined(m + 1)
  <2>1. CASE m = 0
    <3>. DEFINE f == [i \in 1..1 |-> seqs[i]]
    <3>1. f \in [1..1 -> Seq(S)]
      BY <1>3
    <3>2. Joins(f, seqs, 1)
      BY DEF Joins
    <3>3. m + 1 = 1
      BY <2>1
    <3>. QED  BY <3>1, <3>2, <3>3
  <2>2. CASE m # 0
    <3>0. m \in 1..n
      BY <1>3, <2>2
    <3>1. PICK f \in [1..m -> Seq(S)] : Joins(f, seqs, m)
      BY <1>3, <3>0
    <3>. DEFINE g == [i \in 1..m + 1 |-> IF i <= m THEN f[i] ELSE f[m] \o seqs[i]]
    <3>2. m \in 1..m /\ f[m] \in Seq(S) /\ \A i \in 1..m + 1 : seqs[i] \in Seq(S)
      BY <1>3, <2>2
    <3>3. ASSUME NEW i \in 1..m + 1
          PROVE  /\ g[i] \in Seq(S)
                 /\ g[i] = IF i = 1 THEN seqs[i] ELSE g[i - 1] \o seqs[i]
      <4>1. CASE i <= m
        <5>1. i \in 1..m /\ g[i] = f[i] /\ (i # 1 => g[i - 1] = f[i - 1])
          BY <4>1
        <5>2. f[i] = IF i = 1 THEN seqs[i] ELSE f[i - 1] \o seqs[i]
          BY <3>1, <5>1 DEF Joins
        <5>. QED  BY <5>1, <5>2
      <4>2. CASE i = m + 1
        <5>1. g[i] = f[m] \o seqs[i]
          <6>1. ~(i <= m)
            BY <4>2
          <6>. QED  BY <6>1
        <5>2. i - 1 = m /\ i # 1 /\ m \in 1..m + 1 /\ m <= m
          BY <2>2, <4>2
        <5>3. g[i - 1] = f[m]
          BY <5>2
        <5>. HIDE DEF g
        <5>4. f[m] \o seqs[i] \in Seq(S)
          BY <3>2
        <5>. QED  BY <5>1, <5>2, <5>3, <5>4
      <4>. QED  BY <4>1, <4>2
    <3>. HIDE DEF g
    <3>4. g = [i \in 1..m + 1 |-> g[i]]
      BY DEF g
    <3>5. g \in [1..m + 1 -> Seq(S)] /\ Joins(g, seqs, m + 1)
      BY <3>3, <3>4 DEF Joins
    <3>. QED  BY <3>5
  <2>. QED  BY <2>1, <2>2
<1>. HIDE DEF Joined
<1>4. Nat \subseteq H
  <2>1. ASSUME NEW m \in Nat, m \in H PROVE m + 1 \in H
    <3>1. m \in 1..n => Joined(m)
      BY <2>1
    <3>2. m + 1 \in 1..n => Joined(m + 1)
      <4>. HIDE DEF H
      <4>. QED  BY <1>3, <3>1
    <3>3. m + 1 \in Nat
      OBVIOUS
    <3>. QED  BY <3>2, <3>3
  <2>. HIDE DEF H
  <2>. QED  BY <1>2, <2>1, ClimbsForever
<1>5. PICK f \in [1..n -> Seq(S)] : Joins(f, seqs, n)
  <2>1. n \in 1..n
    OBVIOUS
  <2>. QED  BY <1>4, <2>1 DEF Joined
<1>. DEFINE Defines(h) == h = [i \in 1..n |-> IF i = 1 THEN seqs[i] ELSE h[i - 1] \o seqs[i]]
            flat == CHOOSE h : Defines(h)
<1>6. Defines(f)
  <2>1. f = [i \in 1..n |-> f[i]]
    OBVIOUS
  <2>. QED  BY <1>5, <2>1 DEF Joins
<1>7. Defines(flat)
  BY <1>6
<1>8. FlattenSeq(seqs) = flat[n]
  BY <1>1, Zenon DEF FlattenSeq
<1>. HIDE DEF flat, H
<1>9. Joins(flat, seqs, n) /\ flat = [i \in 1..n |-> flat[i]]
  BY <1>7 DEF Joins
<1>. HIDE DEF Defines
<1>. DEFINE G == {i \in Nat : i \in 1..n => flat[i] \in Seq(S)}
<1>10. ASSUME NEW i \in Nat, i \in 1..n => flat[i] \in Seq(S), i + 1 \in 1..n
       PROVE  flat[i + 1] \in Seq(S)
  <2>1. seqs[i + 1] \in Seq(S)
    BY <1>10
  <2>2. CASE i = 0
    <3>1. 1 \in 1..n
      OBVIOUS
    <3>2. flat[1] = seqs[1]
      BY <1>9, <3>1 DEF Joins
    <3>. QED  BY <2>1, <2>2, <3>2
  <2>3. CASE i # 0
    <3>1. i \in 1..n /\ i + 1 # 1 /\ (i + 1) - 1 = i
      BY <1>10, <2>3
    <3>2. flat[i + 1] = flat[i] \o seqs[i + 1]
      BY <1>9, <1>10, <3>1 DEF Joins
    <3>. QED  BY <1>10, <2>1, <3>1, <3>2
  <2>. QED  BY <2>2, <2>3
<1>11. Nat \subseteq G
  <2>1. 0 \in G /\ \A i \in Nat : i \in G => i + 1 \in G
    BY <1>10
  <2>. HIDE DEF G
  <2>. QED  BY <2>1, ClimbsForever
<1>12. \A i \in 1..n : flat[i] \in Seq(S)
  BY <1>11
<1>13. flat \in [1..n -> Seq(S)]
  BY <1>9, <1>12
<1>. QED  BY <1>8, <1>9, <1>13

\* FlattenSeq joins sequences.
LEMMA FlattenType ==
    ASSUME NEW S, NEW n \in Nat, NEW seqs \in [1..n -> Seq(S)]
    PROVE  FlattenSeq(seqs) \in Seq(S)
<1>1. CASE n = 0
  <2>1. seqs \in Seq(Seq(S)) /\ Len(seqs) = 0
    BY <1>1
  <2>2. FlattenSeq(seqs) = seqs
    BY <1>1, <2>1 DEF FlattenSeq
  <2>3. seqs = <<>>
    BY <1>1
  <2>. QED  BY <2>2, <2>3
<1>2. CASE n # 0
  <2>1. PICK flat : Joins(flat, seqs, n) /\ flat \in [1..n -> Seq(S)] /\ FlattenSeq(seqs) = flat[n]
    BY <1>2, FlattenIs
  <2>. QED  BY <1>2, <2>1
<1>. QED  BY <1>1, <1>2

\* What is in the sequences, and nothing else, is in the joined one.
LEMMA FlattenRange ==
    ASSUME NEW S, NEW n \in Nat, NEW seqs \in [1..n -> Seq(S)]
    PROVE  Range(FlattenSeq(seqs)) = UNION {Range(seqs[i]) : i \in 1..n}
<1>1. CASE n = 0
  <2>1. seqs \in Seq(Seq(S)) /\ Len(seqs) = 0 /\ DOMAIN seqs = {}
    BY <1>1
  <2>2. FlattenSeq(seqs) = seqs
    BY <2>1 DEF FlattenSeq
  <2>. QED  BY <1>1, <2>1, <2>2 DEF Range
<1>2. CASE n # 0
  <2>1. PICK flat : Joins(flat, seqs, n) /\ flat \in [1..n -> Seq(S)] /\ FlattenSeq(seqs) = flat[n]
    BY <1>2, FlattenIs
  <2>. DEFINE Done(i) == Range(flat[i]) = UNION {Range(seqs[j]) : j \in 1..i}
              G == {i \in Nat : i \in 1..n => Done(i)}
  <2>3. ASSUME NEW i \in Nat, i \in 1..n => Done(i), i + 1 \in 1..n PROVE Done(i + 1)
    <3>1. CASE i = 0
      <4>1. flat[1] = seqs[1] /\ i + 1 = 1 /\ 1..1 = {1}
        BY <2>1, <2>3, <3>1 DEF Joins
      <4>. QED  BY <4>1
    <3>2. CASE i # 0
      <4>1. i \in 1..n /\ i + 1 # 1 /\ (i + 1) - 1 = i
        BY <2>3, <3>2
      <4>2. flat[i + 1] = flat[i] \o seqs[i + 1]
        BY <2>1, <2>3, <4>1 DEF Joins
      <4>3. Range(flat[i + 1]) = Range(flat[i]) \cup Range(seqs[i + 1])
        <5>1. flat[i] \in Seq(S) /\ seqs[i + 1] \in Seq(S)
          BY <2>1, <2>3, <4>1
        <5>. HIDE DEF Done
        <5>. QED  BY ConcatRange, <4>2, <5>1
      <4>4. 1..(i + 1) = 1..i \cup {i + 1}
        OBVIOUS
      <4>. QED  BY <2>3, <4>1, <4>3, <4>4
    <3>. QED  BY <3>1, <3>2
  <2>4. Nat \subseteq G
    <3>. HIDE DEF Done
    <3>1. 0 \in G
      OBVIOUS
    <3>2. ASSUME NEW i \in Nat, i \in G PROVE i + 1 \in G
      BY <2>3, <3>2
    <3>. HIDE DEF G
    <3>. QED  BY <3>1, <3>2, ClimbsForever
  <2>5. n \in 1..n
    BY <1>2
  <2>. QED  BY <2>1, <2>4, <2>5
<1>. QED  BY <1>1, <1>2

\* Rules look at the parts of entities: a place is an entity's and a part's.
LEMMA NestedType ==
    ASSUME NEW n \in Nat, NEW parts, DOMAIN parts = 1..n,
           \A i \in 1..n : IsFiniteSet(parts[i]) /\ parts[i] \subseteq Int
    PROVE  Nested(parts) \in Seq({p \in (1..n) \X Int : p[2] \in parts[p[1]]})
<1>. DEFINE P == {p \in (1..n) \X Int : p[2] \in parts[p[1]]}
            row(i) == [k \in 1..Cardinality(parts[i]) |-> <<i, InOrder(parts[i])[k]>>]
<1>1. ASSUME NEW i \in 1..n PROVE row(i) \in Seq(P)
  <2>1. InOrder(parts[i]) \in [1..Cardinality(parts[i]) -> parts[i]] /\ Cardinality(parts[i]) \in Nat
    BY InOrderType
  <2>2. \A k \in 1..Cardinality(parts[i]) : <<i, InOrder(parts[i])[k]>> \in P
    BY <2>1
  <2>. HIDE DEF P
  <2>3. row(i) \in [1..Cardinality(parts[i]) -> P]
    BY <2>2
  <2>. HIDE DEF row
  <2>. QED  BY <2>1, <2>3
<1>. HIDE DEF P, row
<1>2. [i \in 1..n |-> row(i)] \in [1..n -> Seq(P)]
  BY <1>1
<1>3. Nested(parts) = FlattenSeq([i \in 1..n |-> row(i)])
  BY DEF Nested, row
<1>4. Nested(parts) \in Seq(P)
  BY <1>2, <1>3, FlattenType
<1>. QED  BY <1>4 DEF P

LEMMA NestedRange ==
    ASSUME NEW n \in Nat, NEW parts, DOMAIN parts = 1..n,
           \A i \in 1..n : IsFiniteSet(parts[i]) /\ parts[i] \subseteq Int
    PROVE  Range(Nested(parts)) = {p \in (1..n) \X Int : p[2] \in parts[p[1]]}
<1>. DEFINE P == {p \in (1..n) \X Int : p[2] \in parts[p[1]]}
            row(i) == [k \in 1..Cardinality(parts[i]) |-> <<i, InOrder(parts[i])[k]>>]
<1>1. ASSUME NEW i \in 1..n
      PROVE  row(i) \in Seq((1..n) \X Int) /\ Range(row(i)) = {<<i, j>> : j \in parts[i]}
  <2>1. InOrder(parts[i]) \in [1..Cardinality(parts[i]) -> parts[i]] /\ Cardinality(parts[i]) \in Nat
    BY InOrderType
  <2>2. \A k \in 1..Cardinality(parts[i]) : <<i, InOrder(parts[i])[k]>> \in (1..n) \X Int
    BY <2>1
  <2>3. Range(InOrder(parts[i])) = parts[i]
    BY InOrderType
  <2>4. row(i) \in Seq((1..n) \X Int)
    BY <2>1, <2>2
  <2>5. Range(row(i)) = {<<i, j>> : j \in parts[i]}
    BY <2>1, <2>3 DEF Range
  <2>. QED  BY <2>4, <2>5
<1>. DEFINE rows == [i \in 1..n |-> row(i)]
<1>2. Nested(parts) = FlattenSeq(rows)
  BY DEF Nested
<1>. HIDE DEF row
<1>3. rows \in [1..n -> Seq((1..n) \X Int)] /\ \A i \in 1..n : rows[i] = row(i)
  BY <1>1
<1>. HIDE DEF rows
<1>4. Range(Nested(parts)) = UNION {Range(rows[i]) : i \in 1..n}
  BY <1>2, <1>3, FlattenRange
<1>5. Range(Nested(parts)) = UNION {{<<i, j>> : j \in parts[i]} : i \in 1..n}
  BY <1>1, <1>3, <1>4
<1>. QED  BY <1>5

LEMMA RemoveAtType ==
    ASSUME NEW S, NEW s \in Seq(S), NEW i \in DOMAIN s
    PROVE  /\ RemoveAt(s, i) \in Seq(S)
           /\ \A k \in DOMAIN RemoveAt(s, i) : \E j \in DOMAIN s : RemoveAt(s, i)[k] = s[j]
<1>1. Len(s) \in Nat /\ DOMAIN s = 1..Len(s) /\ i \in 1..Len(s)
  OBVIOUS
<1>. DEFINE T == {s[j] : j \in DOMAIN s}
            before == SubSeq(s, 1, i - 1)
            after == SubSeq(s, i + 1, Len(s))
<1>2. s \in Seq(T)
  BY <1>1
<1>3. T \subseteq S
  BY <1>1
<1>. HIDE DEF T
<1>4. before \in Seq(T) /\ after \in Seq(T)
  BY <1>1, <1>2
<1>. HIDE DEF before, after
<1>5. RemoveAt(s, i) = before \o after
  BY DEF RemoveAt, before, after
<1>6. RemoveAt(s, i) \in Seq(T)
  BY <1>4, <1>5
<1>7. \A k \in DOMAIN RemoveAt(s, i) : RemoveAt(s, i)[k] \in T
  BY <1>6
<1>8. RemoveAt(s, i) \in Seq(S)
  BY <1>3, <1>6
<1>. QED  BY <1>7, <1>8 DEF T

LEMMA FirstOf ==
    ASSUME NEW P, P # {}, P \subseteq Nat
    PROVE  Min(P) \in P
<1>1. \E i \in P : \A j \in P : i <= j
  BY LeastOf
<1>. QED  BY <1>1 DEF Min

-----------------------------------------------------------------------------
(* Names stay names.                                                       *)

LEMMA LowerTokenType ==
    ASSUME NEW t \in Token
    PROVE  LowerToken(t) \in Token
<1>1. CASE t \in Range(Capital)
  <2>1. \E w \in Word : Capital[w] = t
    BY <1>1, NamingAssumption DEF Range
  <2>2. (CHOOSE w \in Word : Capital[w] = t) \in Word
    BY <2>1
  <2>. QED  BY <1>1, <2>2, NamingAssumption DEF LowerToken
<1>. QED  BY <1>1 DEF LowerToken

LEMMA CamelCaseType ==
    ASSUME NEW name \in Name
    PROVE  CamelCase(name) \in Name
<1>1. \A i \in DOMAIN name : LowerToken(name[i]) \in Token
  BY LowerTokenType DEF Name
<1>2. CamelCase(name) = [i \in DOMAIN name |-> IF i = 1 THEN LowerToken(name[1]) ELSE name[i]]
  BY DEF CamelCase
<1>3. name \in Seq(Token)
  BY DEF Name
<1>4. CamelCase(name) \in [1..Len(name) -> Token] /\ Len(name) \in Nat
  BY <1>1, <1>2, <1>3
<1>. QED  BY <1>4 DEF Name

LEMMA PascalCaseType ==
    ASSUME NEW name \in Name
    PROVE  PascalCase(name) \in Name
<1>1. \A w \in Word : Capital[w] \in Token
  BY NamingAssumption
<1>. DEFINE capital(t) == IF t \in Word THEN Capital[t] ELSE t
<1>2. PascalCase(name) = [i \in DOMAIN name |-> IF i = 1 THEN capital(name[1]) ELSE name[i]]
  BY DEF PascalCase
<1>3. name \in Seq(Token)
  BY DEF Name
<1>4. PascalCase(name) \in [1..Len(name) -> Token] /\ Len(name) \in Nat
  BY <1>1, <1>2, <1>3
<1>. QED  BY <1>4 DEF Name

LEMMA SuffixType ==
    ASSUME NEW name \in Name, NEW token \in Token
    PROVE  Append(name, token) \in Name
BY DEF Name

LEMMA PluralizeType ==
    ASSUME NEW name \in Name
    PROVE  Pluralize(name) \in Name
BY NamingAssumption, SuffixType DEF Pluralize

LEMMA ForeignKeyType ==
    ASSUME NEW name \in Name
    PROVE  ForeignKey(name) \in Name
BY NamingAssumption, SuffixType DEF ForeignKey

LEMMA FreeNameType ==
    ASSUME NEW base \in Name, NEW taken
    PROVE  FreeName(base, taken) \in Name
<1>. DEFINE free == {n \in DOMAIN Numeral : Append(base, Numeral[n]) \notin taken}
<1>1. CASE free # {}
  <2>1. free \subseteq Nat
    BY NamingAssumption
  <2>2. Min(free) \in free
    BY <1>1, <2>1, FirstOf
  <2>3. Numeral[Min(free)] \in Token
    BY <2>2, NamingAssumption
  <2>. HIDE DEF free
  <2>4. Append(base, Numeral[Min(free)]) \in Name
    BY <2>3, SuffixType
  <2>. QED  BY <2>4 DEF FreeName, free
<1>2. CASE free = {}
  BY <1>2 DEF FreeName
<1>. QED  BY <1>1, <1>2

-----------------------------------------------------------------------------
(* What a fix keeps.                                                       *)

\* t has lost a relationship of s only if it was redundant.
DropsRedundant(s, t) ==
    Len(t.rels) # Len(s.rels) =>
        \E i \in DOMAIN s.rels :
            LET two == {s.rels[i].from, s.rels[i].to}
            IN  /\ s.rels[i].type = "ManyToMany"
                /\ t.rels = RemoveAt(s.rels, i)
                /\ \E child \in Ends(s) \ two :
                    \A parent \in two : HasParent(s, child, parent)

Keeps(s, t) ==
    /\ t \in Schema
    /\ Len(t.entities) = Len(s.entities)
    /\ Ends(s) \subseteq EntityNames(s) => Ends(t) \subseteq EntityNames(t)
    /\ DropsRedundant(s, t)

Sound(s, found) ==
    /\ found \in Seq(Range(found))
    /\ \A f \in Range(found) : \A t \in f.fixed : Keeps(s, t)

LEMMA SchemaParts ==
    ASSUME NEW s \in Schema
    PROVE  /\ s.entities \in Seq(EntityRecord)
           /\ s.rels \in Seq(RelRecord)
           /\ Len(s.entities) \in Nat /\ DOMAIN s.entities = 1..Len(s.entities)
           /\ Len(s.rels) \in Nat /\ DOMAIN s.rels = 1..Len(s.rels)
           /\ \A i \in DOMAIN s.entities : s.entities[i] \in EntityRecord
           /\ \A i \in DOMAIN s.rels : s.rels[i] \in RelRecord
BY DEF Schema

LEMMA EntityParts ==
    ASSUME NEW e \in EntityRecord
    PROVE  /\ e.name \in Name
           /\ e.fields \in Seq(FieldRecord)
           /\ e.indexes \in Seq(IndexRecord)
           /\ Len(e.fields) \in Nat /\ DOMAIN e.fields = 1..Len(e.fields)
           /\ Len(e.indexes) \in Nat /\ DOMAIN e.indexes = 1..Len(e.indexes)
           /\ \A j \in DOMAIN e.fields : e.fields[j] \in FieldRecord
           /\ \A c \in DOMAIN e.indexes : e.indexes[c] \in IndexRecord
BY DEF EntityRecord

LEMMA RelParts ==
    ASSUME NEW r \in RelRecord
    PROVE  /\ r.from \in Name /\ r.to \in Name /\ r.toName \in Name
           /\ r.type \in Token /\ r.nullable \in BOOLEAN /\ r.bi \in {"unset", "yes", "no"}
BY DEF RelRecord

LEMMA EntityWithFields ==
    ASSUME NEW e \in EntityRecord, NEW fields \in Seq(FieldRecord)
    PROVE  /\ [e EXCEPT !.fields = fields] \in EntityRecord
           /\ [e EXCEPT !.fields = fields].name = e.name
BY DEF EntityRecord

LEMMA EntityWithIndexes ==
    ASSUME NEW e \in EntityRecord, NEW indexes \in Seq(IndexRecord)
    PROVE  /\ [e EXCEPT !.indexes = indexes] \in EntityRecord
           /\ [e EXCEPT !.indexes = indexes].name = e.name
BY DEF EntityRecord

LEMMA ReplacedType ==
    ASSUME NEW S, NEW s \in Seq(S), NEW i \in DOMAIN s, NEW x \in S
    PROVE  [s EXCEPT ![i] = x] \in Seq(S)
OBVIOUS

LEMMA EntityReplaced ==
    ASSUME NEW s \in Schema, NEW i \in DOMAIN s.entities, NEW e \in EntityRecord
    PROVE  [s EXCEPT !.entities[i] = e] \in Schema
<1>1. [s.entities EXCEPT ![i] = e] \in Seq(EntityRecord)
  BY SchemaParts, ReplacedType
<1>. QED  BY <1>1 DEF Schema

\* An entity that keeps its name keeps every relationship.
LEMMA EntityKept ==
    ASSUME NEW s \in Schema, NEW i \in DOMAIN s.entities, NEW e \in EntityRecord,
           e.name = s.entities[i].name
    PROVE  Keeps(s, [s EXCEPT !.entities[i] = e])
<1>. DEFINE t == [s EXCEPT !.entities[i] = e]
<1>1. t \in Schema
  BY EntityReplaced
<1>2. t.rels = s.rels /\ t.entities = [s.entities EXCEPT ![i] = e]
  BY DEF Schema
<1>3. Len(t.entities) = Len(s.entities) /\ DOMAIN t.entities = DOMAIN s.entities
  BY <1>2, SchemaParts
<1>4. \A j \in DOMAIN s.entities : t.entities[j].name = s.entities[j].name
  BY <1>2, SchemaParts
<1>. HIDE DEF t
<1>5. EntityNames(t) = EntityNames(s)
  BY <1>3, <1>4 DEF EntityNames
<1>6. Ends(t) = Ends(s)
  BY <1>2 DEF Ends
<1>7. DropsRedundant(s, t)
  BY <1>2 DEF DropsRedundant
<1>8. Keeps(s, t)
  BY <1>1, <1>3, <1>5, <1>6, <1>7 DEF Keeps
<1>. QED  BY <1>8 DEF t

\* A relationship may be changed as long as its ends stay entities.
LEMMA RelKept ==
    ASSUME NEW s \in Schema, NEW i \in DOMAIN s.rels, NEW r \in RelRecord,
           {r.from, r.to} \subseteq Ends(s) \cup EntityNames(s)
    PROVE  Keeps(s, [s EXCEPT !.rels[i] = r])
<1>. DEFINE t == [s EXCEPT !.rels[i] = r]
<1>1. [s.rels EXCEPT ![i] = r] \in Seq(RelRecord)
  BY SchemaParts, ReplacedType
<1>2. t \in Schema
  BY <1>1 DEF Schema
<1>3. t.entities = s.entities /\ t.rels = [s.rels EXCEPT ![i] = r]
  BY DEF Schema
<1>4. Len(t.rels) = Len(s.rels) /\ DOMAIN t.rels = DOMAIN s.rels
  BY <1>3, SchemaParts
<1>5. \A j \in DOMAIN s.rels : t.rels[j] = IF j = i THEN r ELSE s.rels[j]
  BY <1>3, SchemaParts
<1>. HIDE DEF t
<1>6. EntityNames(t) = EntityNames(s)
  BY <1>3 DEF EntityNames
<1>7. Ends(t) \subseteq Ends(s) \cup EntityNames(s)
  <2>1. \A j \in DOMAIN s.rels : {s.rels[j].from, s.rels[j].to} \subseteq Ends(s)
    BY DEF Ends, Range
  <2>2. \A j \in DOMAIN t.rels : {t.rels[j].from, t.rels[j].to} \subseteq Ends(s) \cup EntityNames(s)
    <3>. TAKE j \in DOMAIN t.rels
    <3>1. CASE j = i
      BY <1>4, <1>5, <3>1
    <3>2. CASE j # i
      BY <1>4, <1>5, <2>1, <3>2
    <3>. QED  BY <3>1, <3>2
  <2>. QED  BY <2>2 DEF Ends, Range
<1>8. DropsRedundant(s, t)
  BY <1>4 DEF DropsRedundant
<1>9. Keeps(s, t)
  BY <1>2, <1>3, <1>6, <1>7, <1>8 DEF Keeps
<1>. QED  BY <1>9 DEF t

LEMMA EndsOf ==
    ASSUME NEW s \in Schema, NEW i \in DOMAIN s.rels
    PROVE  {s.rels[i].from, s.rels[i].to} \subseteq Ends(s)
BY DEF Ends, Range

LEMMA FollowType ==
    ASSUME NEW r \in RelRecord, NEW from \in Name, NEW to \in Name
    PROVE  [r EXCEPT !.from = from, !.to = to] \in RelRecord
BY DEF RelRecord

LEMMA RenamedEntityKept ==
    ASSUME NEW s \in Schema, NEW i \in DOMAIN s.entities, NEW to \in Name
    PROVE  Keeps(s, RenamedEntity(s, i, to))
<1>. DEFINE from == s.entities[i].name
            follow(n) == IF n = from THEN to ELSE n
            t == RenamedEntity(s, i, to)
            moved(r) == [r EXCEPT !.from = follow(r.from), !.to = follow(r.to)]
            e == [s.entities[i] EXCEPT !.name = to]
<1>1. /\ t.entities = [s.entities EXCEPT ![i] = e]
      /\ t.rels = [k \in DOMAIN s.rels |-> moved(s.rels[k])]
      /\ t = [entities |-> t.entities, rels |-> t.rels]
  BY DEF RenamedEntity, Each
<1>2. e \in EntityRecord /\ e.name = to
  BY SchemaParts DEF EntityRecord
<1>. HIDE DEF t, e
<1>3. /\ t.entities \in Seq(EntityRecord)
      /\ DOMAIN t.entities = DOMAIN s.entities /\ Len(t.entities) = Len(s.entities)
  <2>1. s.entities \in Seq(EntityRecord)
    BY SchemaParts
  <2>2. [s.entities EXCEPT ![i] = e] \in Seq(EntityRecord)
    BY <1>2, <2>1, ReplacedType
  <2>3. /\ DOMAIN [s.entities EXCEPT ![i] = e] = DOMAIN s.entities
        /\ Len([s.entities EXCEPT ![i] = e]) = Len(s.entities)
    BY <2>1
  <2>. QED  BY <1>1, <2>2, <2>3
<1>4. ASSUME NEW k \in DOMAIN s.rels PROVE moved(s.rels[k]) \in RelRecord
  <2>1. s.rels[k].from \in Name /\ s.rels[k].to \in Name /\ s.rels[k] \in RelRecord
    BY SchemaParts, RelParts
  <2>2. follow(s.rels[k].from) \in Name /\ follow(s.rels[k].to) \in Name
    BY <2>1
  <2>. HIDE DEF follow
  <2>. QED  BY <2>1, <2>2, FollowType
<1>5. ASSUME NEW k \in DOMAIN s.rels
      PROVE  /\ t.rels[k].from = follow(s.rels[k].from)
             /\ t.rels[k].to = follow(s.rels[k].to)
  <2>1. s.rels[k] \in RelRecord /\ t.rels[k] = moved(s.rels[k])
    BY <1>1, SchemaParts
  <2>. QED  BY <2>1 DEF RelRecord
<1>6. DOMAIN t.rels = DOMAIN s.rels /\ t.rels \in [1..Len(s.rels) -> RelRecord] /\ Len(s.rels) \in Nat
  <2>. HIDE DEF moved
  <2>. QED  BY <1>1, <1>4, SchemaParts
<1>8. ASSUME NEW j \in DOMAIN s.entities
      PROVE  t.entities[j].name = IF j = i THEN to ELSE s.entities[j].name
  <2>1. s.entities \in Seq(EntityRecord)
    BY SchemaParts
  <2>2. t.entities[j] = IF j = i THEN e ELSE s.entities[j]
    BY <1>1, <2>1
  <2>. QED  BY <1>2, <2>2
<1>. HIDE DEF follow
<1>7. t.rels \in Seq(RelRecord) /\ Len(t.rels) = Len(s.rels)
  BY <1>6
<1>9. t \in Schema
  <2>1. [entities |-> t.entities, rels |-> t.rels] \in Schema
    BY <1>3, <1>7 DEF Schema
  <2>. QED  BY <1>1, <2>1
<1>10. ASSUME NEW n \in EntityNames(s) PROVE follow(n) \in EntityNames(t)
  <2>1. PICK j \in DOMAIN s.entities : n = s.entities[j].name
    BY DEF EntityNames
  <2>2. CASE n = s.entities[i].name
    <3>1. follow(n) = t.entities[i].name
      BY <1>8, <2>2 DEF follow
    <3>. QED  BY <1>3, <3>1 DEF EntityNames
  <2>3. CASE n # s.entities[i].name
    <3>1. follow(n) = t.entities[j].name
      BY <1>8, <2>1, <2>3 DEF follow
    <3>. QED  BY <1>3, <2>1, <3>1 DEF EntityNames
  <2>. QED  BY <2>2, <2>3
<1>11. ASSUME Ends(s) \subseteq EntityNames(s) PROVE Ends(t) \subseteq EntityNames(t)
  <2>1. \A k \in DOMAIN t.rels : {t.rels[k].from, t.rels[k].to} \subseteq EntityNames(t)
    <3>. TAKE k \in DOMAIN t.rels
    <3>1. k \in DOMAIN s.rels /\ s.rels[k].from \in EntityNames(s) /\ s.rels[k].to \in EntityNames(s)
      BY <1>6, <1>11, EndsOf
    <3>. QED  BY <1>5, <1>10, <3>1
  <2>. QED  BY <2>1 DEF Ends, Range
<1>12. Keeps(s, t)
  BY <1>3, <1>7, <1>9, <1>11 DEF Keeps, DropsRedundant
<1>. QED  BY <1>12 DEF t

\* What the last rule removes was redundant.
LEMMA RelDropped ==
    ASSUME NEW s \in Schema, NEW i \in DOMAIN s.rels, s.rels[i].type = "ManyToMany",
           JoinsOf(s, s.rels[i]) # {}
    PROVE  Keeps(s, [s EXCEPT !.rels = RemoveAt(s.rels, i)])
<1>. DEFINE t == [s EXCEPT !.rels = RemoveAt(s.rels, i)]
            two == {s.rels[i].from, s.rels[i].to}
<1>1. RemoveAt(s.rels, i) \in Seq(RelRecord)
  BY SchemaParts, RemoveAtType
<1>2. t \in Schema /\ t.entities = s.entities /\ t.rels = RemoveAt(s.rels, i)
  BY <1>1 DEF Schema
<1>. HIDE DEF t
<1>3. EntityNames(t) = EntityNames(s)
  BY <1>2 DEF EntityNames
<1>4. Ends(t) \subseteq Ends(s)
  <2>1. \A k \in DOMAIN t.rels : \E j \in DOMAIN s.rels : t.rels[k] = s.rels[j]
    BY <1>2, SchemaParts, RemoveAtType
  <2>2. \A k \in DOMAIN t.rels : {t.rels[k].from, t.rels[k].to} \subseteq Ends(s)
    BY <2>1, EndsOf
  <2>. QED  BY <2>2 DEF Ends, Range
<1>5. PICK child : child \in JoinsOf(s, s.rels[i])
  OBVIOUS
<1>6. child \in Ends(s) \ two /\ two \subseteq ParentsOf(s, child)
  BY <1>5 DEF JoinsOf, Ends
<1>7. \A parent \in ParentsOf(s, child) : HasParent(s, child, parent)
  BY DEF ParentsOf, HasParent
<1>8. DropsRedundant(s, t)
  BY <1>2, <1>6, <1>7 DEF DropsRedundant
<1>9. Keeps(s, t)
  BY <1>2, <1>3, <1>4, <1>8 DEF Keeps
<1>. QED  BY <1>9 DEF t

-----------------------------------------------------------------------------
(* Edits of one entity.                                                    *)

LEMMA FieldKept ==
    ASSUME NEW e \in EntityRecord, NEW j \in DOMAIN e.fields, NEW f \in FieldRecord
    PROVE  /\ [e EXCEPT !.fields[j] = f] \in EntityRecord
           /\ [e EXCEPT !.fields[j] = f].name = e.name
<1>1. [e.fields EXCEPT ![j] = f] \in Seq(FieldRecord)
  BY EntityParts, ReplacedType
<1>. QED  BY <1>1 DEF EntityRecord

LEMMA ColumnsMapped ==
    ASSUME NEW e \in EntityRecord, NEW from \in Name, NEW to \in Name
    PROVE  LET mapped == MapColumns(e, LAMBDA n : IF n = from THEN to ELSE n)
           IN  mapped \in EntityRecord /\ mapped.name = e.name
<1>. DEFINE follow(n) == IF n = from THEN to ELSE n
            moved(c) == [c EXCEPT !.fields = [k \in DOMAIN c.fields |-> follow(c.fields[k])]]
            indexes == [c \in DOMAIN e.indexes |-> moved(e.indexes[c])]
<1>1. ASSUME NEW c \in IndexRecord PROVE moved(c) \in IndexRecord
  <2>1. c.fields \in Seq(Name) /\ Len(c.fields) \in Nat /\ DOMAIN c.fields = 1..Len(c.fields)
    BY DEF IndexRecord
  <2>2. [k \in DOMAIN c.fields |-> follow(c.fields[k])] \in [1..Len(c.fields) -> Name]
    BY <2>1
  <2>3. [k \in DOMAIN c.fields |-> follow(c.fields[k])] \in Seq(Name)
    BY <2>1, <2>2
  <2>. HIDE DEF follow
  <2>. QED  BY <2>3 DEF IndexRecord
<1>2. MapColumns(e, LAMBDA n : IF n = from THEN to ELSE n) = [e EXCEPT !.indexes = indexes]
  BY DEF MapColumns, Each
<1>. HIDE DEF moved
<1>3. indexes \in [1..Len(e.indexes) -> IndexRecord] /\ Len(e.indexes) \in Nat
  BY <1>1, EntityParts
<1>4. indexes \in Seq(IndexRecord)
  BY <1>3
<1>. HIDE DEF indexes
<1>. QED  BY <1>2, <1>4, EntityWithIndexes

LEMMA RenamedFieldKept ==
    ASSUME NEW s \in Schema, NEW i \in DOMAIN s.entities, NEW j \in DOMAIN s.entities[i].fields,
           NEW to \in Name
    PROVE  Keeps(s, RenamedField(s, <<i, j>>, to))
<1>. DEFINE e == s.entities[i]
            from == e.fields[j].name
            renamed == [e EXCEPT !.fields[j] = [e.fields[j] EXCEPT !.name = to]]
<1>1. e \in EntityRecord /\ e.fields[j] \in FieldRecord
  BY SchemaParts, EntityParts
<1>2. from \in Name /\ [e.fields[j] EXCEPT !.name = to] \in FieldRecord
  BY <1>1 DEF FieldRecord
<1>3. renamed \in EntityRecord /\ renamed.name = e.name
  BY <1>1, <1>2, FieldKept
<1>. DEFINE mapped == MapColumns(renamed, LAMBDA n : IF n = from THEN to ELSE n)
<1>4. RenamedField(s, <<i, j>>, to) = [s EXCEPT !.entities[i] = mapped]
  BY DEF RenamedField, Field
<1>. HIDE DEF renamed, from
<1>5. mapped \in EntityRecord /\ mapped.name = renamed.name
  BY <1>2, <1>3, ColumnsMapped
<1>. HIDE DEF mapped
<1>. QED  BY <1>3, <1>4, <1>5, EntityKept

LEMMA WithoutFieldKept ==
    ASSUME NEW s \in Schema, NEW i \in DOMAIN s.entities, NEW j \in DOMAIN s.entities[i].fields
    PROVE  Keeps(s, WithoutField(s, <<i, j>>))
<1>. DEFINE e == s.entities[i]
            fields == RemoveAt(e.fields, j)
<1>1. e \in EntityRecord
  BY SchemaParts
<1>2. fields \in Seq(FieldRecord)
  BY <1>1, EntityParts, RemoveAtType
<1>3. WithoutField(s, <<i, j>>) = [s EXCEPT !.entities[i] = [e EXCEPT !.fields = fields]]
  BY DEF WithoutField
<1>. HIDE DEF fields
<1>4. [e EXCEPT !.fields = fields] \in EntityRecord /\ [e EXCEPT !.fields = fields].name = e.name
  BY <1>1, <1>2, EntityWithFields
<1>. QED  BY <1>3, <1>4, EntityKept

-----------------------------------------------------------------------------
(* Findings whose fixes keep what a fix has to keep.                       *)

LEMMA Unfixed ==
    ASSUME NEW rule, NEW entity, NEW field, NEW rel
    PROVE  Error(rule, entity, field, rel).fixed = {}
BY DEF Error, Finding

LEMMA FixedParts ==
    ASSUME NEW rule, NEW entity, NEW field, NEW rel, NEW t
    PROVE  /\ FixedBy(Error(rule, entity, field, rel), t).fixed = {t}
           /\ FixedBy(Warning(rule, entity, field, rel), t).fixed = {t}
BY DEF Error, Warning, Finding, FixedBy

LEMMA SoundEach ==
    ASSUME NEW s, NEW P, NEW places \in Seq(P), NEW found,
           found = [k \in DOMAIN places |-> found[k]],
           \A k \in DOMAIN places : \A t \in found[k].fixed : Keeps(s, t)
    PROVE  Sound(s, found)
<1>1. Len(places) \in Nat /\ DOMAIN places = 1..Len(places)
  OBVIOUS
<1>. DEFINE S == {found[k] : k \in DOMAIN places}
<1>2. Range(found) = S
  BY DEF Range
<1>3. found \in [1..Len(places) -> S]
  BY <1>1
<1>4. \A f \in S : \A t \in f.fixed : Keeps(s, t)
  OBVIOUS
<1>. HIDE DEF S
<1>5. found \in Seq(S)
  BY <1>1, <1>3
<1>. QED  BY <1>2, <1>4, <1>5 DEF Sound

LEMMA SoundConcat ==
    ASSUME NEW s, NEW f, NEW g, Sound(s, f), Sound(s, g)
    PROVE  Sound(s, f \o g)
<1>. DEFINE S == Range(f) \cup Range(g)
<1>1. f \in Seq(Range(f)) /\ g \in Seq(Range(g))
  BY DEF Sound
<1>2. \A x \in S : \A t \in x.fixed : Keeps(s, t)
  BY DEF Sound
<1>3. Range(f) \subseteq S /\ Range(g) \subseteq S
  OBVIOUS
<1>. HIDE DEF S
<1>4. f \in Seq(S) /\ g \in Seq(S)
  BY <1>1, <1>3
<1>. DEFINE both == f \o g
<1>5. both \in Seq(S)
  BY <1>4
<1>. HIDE DEF both
<1>6. Range(both) \subseteq S /\ both \in Seq(Range(both))
  BY <1>5 DEF Range
<1>7. Sound(s, both)
  BY <1>2, <1>6 DEF Sound
<1>. QED  BY <1>7 DEF both

LEMMA SoundFlatten ==
    ASSUME NEW s, NEW n \in Nat, NEW rows, rows = [i \in 1..n |-> rows[i]],
           \A i \in 1..n : Sound(s, rows[i])
    PROVE  Sound(s, FlattenSeq(rows))
<1>. DEFINE S == UNION {Range(rows[i]) : i \in 1..n}
<1>1. \A x \in S : \A t \in x.fixed : Keeps(s, t)
  BY DEF Sound
<1>2. ASSUME NEW i \in 1..n PROVE rows[i] \in Seq(S)
  <2>1. Range(rows[i]) \subseteq S /\ rows[i] \in Seq(Range(rows[i]))
    BY DEF Sound
  <2>. HIDE DEF S
  <2>. QED  BY <2>1
<1>. HIDE DEF S
<1>3. rows \in [1..n -> Seq(S)]
  BY <1>2
<1>4. FlattenSeq(rows) \in Seq(S)
  BY <1>3, FlattenType
<1>. DEFINE flat == FlattenSeq(rows)
<1>. HIDE DEF flat
<1>5. flat \in Seq(S)
  BY <1>4 DEF flat
<1>6. Range(flat) \subseteq S /\ flat \in Seq(Range(flat))
  BY <1>5 DEF Range
<1>7. Sound(s, flat)
  BY <1>1, <1>6 DEF Sound
<1>. QED  BY <1>7 DEF flat

LEMMA InOrderSeq ==
    ASSUME NEW n \in Nat, NEW P \in SUBSET (1..n)
    PROVE  InOrder(P) \in Seq(P)
<1>1. IsFiniteSet(1..n) /\ 1..n \subseteq Int
  BY FS_Interval
<1>2. IsFiniteSet(P) /\ P \subseteq Int
  <2>1. IsFiniteSet(P)
    BY <1>1, FS_Subset
  <2>. QED  BY <1>1, <2>1
<1>3. InOrder(P) \in [1..Cardinality(P) -> P] /\ Cardinality(P) \in Nat
  BY <1>2, InOrderType
<1>. QED  BY <1>3

FieldPlaces(s) ==
    {p \in (DOMAIN s.entities) \X Nat : p[2] \in DOMAIN s.entities[p[1]].fields}

LEMMA FieldPlacesType ==
    ASSUME NEW s \in Schema, NEW parts, DOMAIN parts = DOMAIN s.entities,
           \A i \in DOMAIN s.entities : parts[i] \subseteq DOMAIN s.entities[i].fields
    PROVE  Nested(parts) \in Seq(FieldPlaces(s))
<1>. DEFINE n == Len(s.entities)
            P == {p \in (1..n) \X Int : p[2] \in parts[p[1]]}
<1>1. n \in Nat /\ DOMAIN s.entities = 1..n
  BY SchemaParts
<1>2. ASSUME NEW i \in 1..n
      PROVE  IsFiniteSet(parts[i]) /\ parts[i] \subseteq Int
  <2>1. s.entities[i] \in EntityRecord
    BY <1>1, SchemaParts
  <2>. DEFINE m == Len(s.entities[i].fields)
  <2>2. m \in Nat /\ DOMAIN s.entities[i].fields = 1..m
    BY <2>1, EntityParts
  <2>3. parts[i] \subseteq 1..m
    BY <1>1, <2>2
  <2>. HIDE DEF m
  <2>4. IsFiniteSet(1..m) /\ 1..m \subseteq Int
    BY <2>2, FS_Interval
  <2>5. IsFiniteSet(parts[i])
    BY <2>3, <2>4, FS_Subset
  <2>. QED  BY <2>3, <2>4, <2>5
<1>. HIDE DEF n
<1>3. Nested(parts) \in Seq(P)
  BY <1>1, <1>2, NestedType
<1>4. P \subseteq FieldPlaces(s)
  <2>. SUFFICES ASSUME NEW p \in P PROVE p \in FieldPlaces(s)
    OBVIOUS
  <2>1. p[1] \in DOMAIN s.entities /\ p[2] \in DOMAIN s.entities[p[1]].fields /\ p = <<p[1], p[2]>>
    BY <1>1
  <2>2. DOMAIN s.entities[p[1]].fields \subseteq Nat
    BY <2>1, SchemaParts, EntityParts
  <2>. QED  BY <2>1, <2>2 DEF FieldPlaces
<1>. HIDE DEF P
<1>. QED  BY <1>3, <1>4

LEMMA PlaceParts ==
    ASSUME NEW s \in Schema, NEW p \in FieldPlaces(s)
    PROVE  /\ p[1] \in DOMAIN s.entities /\ p[2] \in DOMAIN s.entities[p[1]].fields
           /\ p = <<p[1], p[2]>>
           /\ s.entities[p[1]] \in EntityRecord
           /\ Field(s, p) = s.entities[p[1]].fields[p[2]]
           /\ Field(s, p) \in FieldRecord
<1>1. p[1] \in DOMAIN s.entities /\ p[2] \in DOMAIN s.entities[p[1]].fields /\ p = <<p[1], p[2]>>
  BY DEF FieldPlaces
<1>2. s.entities[p[1]] \in EntityRecord
  BY <1>1, SchemaParts
<1>3. s.entities[p[1]].fields[p[2]] \in FieldRecord
  BY <1>1, <1>2, EntityParts
<1>. QED  BY <1>1, <1>2, <1>3 DEF Field

-----------------------------------------------------------------------------
(* Every rule, in the order of FindingsGiven.                              *)

LEMMA DuplicateEntityNamesSound ==
    ASSUME NEW s \in Schema
    PROVE  Sound(s, DuplicateEntityNames(s))
<1>. DEFINE P == {i \in DOMAIN s.entities :
                    Cardinality({j \in 1..(i - 1) : s.entities[j].name = s.entities[i].name}) = 1}
            found == DuplicateEntityNames(s)
<1>1. InOrder(P) \in Seq(P)
  BY SchemaParts, InOrderSeq
<1>2. found = [k \in DOMAIN InOrder(P) |->
        Error("DUPLICATE_ENTITY_NAME", s.entities[InOrder(P)[k]].name, NoName, <<>>)]
  BY DEF DuplicateEntityNames, Each
<1>. HIDE DEF P, found
<1>3. \A k \in DOMAIN InOrder(P) : found[k].fixed = {}
  BY <1>2, Unfixed
<1>4. found = [k \in DOMAIN InOrder(P) |-> found[k]]
  BY <1>2
<1>5. Sound(s, found)
  BY <1>1, <1>3, <1>4, SoundEach
<1>. QED  BY <1>5 DEF found

LEMMA ReservedEntityNamesSound ==
    ASSUME NEW s \in Schema
    PROVE  Sound(s, ReservedEntityNames(s))
<1>. DEFINE P == {i \in DOMAIN s.entities : s.entities[i].name \in Reserved}
            safe(name) == FreeName(Append(PascalCase(name), "Record"), EntityNames(s))
            places == InOrder(P)
            found == ReservedEntityNames(s)
<1>1. places \in Seq(P)
  BY SchemaParts, InOrderSeq
<1>2. found = [k \in DOMAIN places |->
        FixedBy(Error("RESERVED_ENTITY_NAME", s.entities[places[k]].name, NoName, <<>>),
                RenamedEntity(s, places[k], safe(s.entities[places[k]].name)))]
  BY DEF ReservedEntityNames, Each
<1>3. ASSUME NEW i \in P PROVE safe(s.entities[i].name) \in Name
  <2>1. s.entities[i].name \in Name
    BY SchemaParts, EntityParts
  <2>2. Append(PascalCase(s.entities[i].name), "Record") \in Name
    BY <2>1, PascalCaseType, SuffixType, RulesAssumption
  <2>. QED  BY <2>2, FreeNameType
<1>4. P \subseteq DOMAIN s.entities
  OBVIOUS
<1>. HIDE DEF places, found, P, safe
<1>5. ASSUME NEW k \in DOMAIN places, NEW t \in found[k].fixed PROVE Keeps(s, t)
  <2>1. places[k] \in P /\ places[k] \in DOMAIN s.entities
    BY <1>1, <1>4
  <2>2. t = RenamedEntity(s, places[k], safe(s.entities[places[k]].name))
    BY <1>2, <1>5, FixedParts
  <2>. QED  BY <1>3, <2>1, <2>2, RenamedEntityKept
<1>6. found = [k \in DOMAIN places |-> found[k]]
  BY <1>2
<1>7. Sound(s, found)
  BY <1>1, <1>5, <1>6, SoundEach
<1>. QED  BY <1>7 DEF found

LEMMA DuplicateFieldNamesSound ==
    ASSUME NEW s \in Schema
    PROVE  Sound(s, DuplicateFieldNames(s))
<1>. DEFINE fields(i) == s.entities[i].fields
            earlier(i, j) == {k \in 1..(j - 1) : fields(i)[k].name = fields(i)[j].name}
            kept(i, name) == {j \in DOMAIN fields(i) :
                                fields(i)[j].name # name \/ earlier(i, j) = {}}
            parts == [i \in DOMAIN s.entities |->
                        {j \in DOMAIN s.entities[i].fields : Cardinality(earlier(i, j)) = 1}]
            places == Nested(parts)
            found == DuplicateFieldNames(s)
            fixed(p) == [s EXCEPT !.entities[p[1]].fields =
                            AtPositions(fields(p[1]), kept(p[1], Field(s, p).name))]
<1>1. places \in Seq(FieldPlaces(s))
  BY FieldPlacesType
<1>2. found = [k \in DOMAIN places |->
        FixedBy(Error("DUPLICATE_FIELD_NAME", s.entities[places[k][1]].name,
                      Field(s, places[k]).name, <<>>), fixed(places[k]))]
  BY DEF DuplicateFieldNames, Each, FieldsWhere
<1>3. ASSUME NEW p \in FieldPlaces(s) PROVE Keeps(s, fixed(p))
  <2>. DEFINE e == s.entities[p[1]]
              new == AtPositions(e.fields, kept(p[1], Field(s, p).name))
  <2>1. p[1] \in DOMAIN s.entities /\ e \in EntityRecord
    BY PlaceParts
  <2>2. new \in Seq(FieldRecord)
    BY <2>1, EntityParts, AtPositionsType
  <2>3. fixed(p) = [s EXCEPT !.entities[p[1]] = [e EXCEPT !.fields = new]]
    OBVIOUS
  <2>. HIDE DEF fixed, new
  <2>4. [e EXCEPT !.fields = new] \in EntityRecord /\ [e EXCEPT !.fields = new].name = e.name
    BY <2>1, <2>2, EntityWithFields
  <2>. QED  BY <2>1, <2>3, <2>4, EntityKept
<1>. HIDE DEF places, found, fixed
<1>4. ASSUME NEW k \in DOMAIN places, NEW t \in found[k].fixed PROVE Keeps(s, t)
  <2>1. places[k] \in FieldPlaces(s)
    BY <1>1
  <2>2. t = fixed(places[k])
    BY <1>2, <1>4, FixedParts
  <2>. QED  BY <1>3, <2>1, <2>2
<1>5. found = [k \in DOMAIN places |-> found[k]]
  BY <1>2
<1>6. Sound(s, found)
  BY <1>1, <1>4, <1>5, SoundEach
<1>. QED  BY <1>6 DEF found

LEMMA UnknownFieldTypesSound ==
    ASSUME NEW s \in Schema
    PROVE  Sound(s, UnknownFieldTypes(s))
<1>. DEFINE parts == [i \in DOMAIN s.entities |->
                        {j \in DOMAIN s.entities[i].fields :
                            s.entities[i].fields[j].type \notin FieldType}]
            places == Nested(parts)
            found == UnknownFieldTypes(s)
            error(p) == Error("UNKNOWN_FIELD_TYPE", s.entities[p[1]].name, Field(s, p).name, <<>>)
            fixed(p) == [s EXCEPT !.entities[p[1]].fields[p[2]].type = TypeAlias[Field(s, p).type]]
<1>1. places \in Seq(FieldPlaces(s))
  BY FieldPlacesType
<1>2. found = [k \in DOMAIN places |->
        IF Field(s, places[k]).type \in DOMAIN TypeAlias
        THEN FixedBy(error(places[k]), fixed(places[k])) ELSE error(places[k])]
  BY DEF UnknownFieldTypes, Each, FieldsWhere
<1>3. ASSUME NEW p \in FieldPlaces(s), Field(s, p).type \in DOMAIN TypeAlias
      PROVE  Keeps(s, fixed(p))
  <2>. DEFINE e == s.entities[p[1]]
              f == [e.fields[p[2]] EXCEPT !.type = TypeAlias[Field(s, p).type]]
              new == [e EXCEPT !.fields[p[2]] = f]
  <2>1. /\ p[1] \in DOMAIN s.entities /\ p[2] \in DOMAIN e.fields
        /\ e \in EntityRecord /\ e.fields[p[2]] \in FieldRecord
    BY PlaceParts
  <2>2. TypeAlias[Field(s, p).type] \in Token
    BY <1>3, RulesAssumption DEF TypeAlias, FieldType
  <2>3. f \in FieldRecord
    BY <2>1, <2>2 DEF FieldRecord
  <2>4. fixed(p) = [s EXCEPT !.entities[p[1]] = new]
    OBVIOUS
  <2>. HIDE DEF fixed, f
  <2>5. new \in EntityRecord /\ new.name = e.name
    BY <2>1, <2>3, FieldKept
  <2>. HIDE DEF new
  <2>. QED  BY <2>1, <2>4, <2>5, EntityKept
<1>. HIDE DEF places, found, fixed
<1>4. ASSUME NEW k \in DOMAIN places, NEW t \in found[k].fixed PROVE Keeps(s, t)
  <2>1. places[k] \in FieldPlaces(s)
    BY <1>1
  <2>2. CASE Field(s, places[k]).type \in DOMAIN TypeAlias
    <3>1. found[k] = FixedBy(error(places[k]), fixed(places[k]))
      BY <1>2, <2>2
    <3>2. t = fixed(places[k])
      BY <1>4, <3>1, FixedParts
    <3>. QED  BY <1>3, <2>1, <2>2, <3>2
  <2>3. CASE ~(Field(s, places[k]).type \in DOMAIN TypeAlias)
    <3>1. found[k] = error(places[k])
      BY <1>2, <2>3
    <3>2. found[k].fixed = {}
      BY <3>1, Unfixed
    <3>. QED  BY <1>4, <3>2
  <2>. QED  BY <2>2, <2>3
<1>5. found = [k \in DOMAIN places |-> found[k]]
  BY <1>2
<1>6. Sound(s, found)
  BY <1>1, <1>4, <1>5, SoundEach
<1>. QED  BY <1>6 DEF found

LEMMA EnumsWithoutValuesSound ==
    ASSUME NEW s \in Schema
    PROVE  Sound(s, EnumsWithoutValues(s))
<1>. DEFINE parts == [i \in DOMAIN s.entities |->
                        {j \in DOMAIN s.entities[i].fields :
                            s.entities[i].fields[j].type = "enum"
                            /\ ~s.entities[i].fields[j].values}]
            places == Nested(parts)
            found == EnumsWithoutValues(s)
            fixed(p) == [s EXCEPT !.entities[p[1]].fields[p[2]].type = "text"]
<1>1. places \in Seq(FieldPlaces(s))
  BY FieldPlacesType
<1>2. found = [k \in DOMAIN places |->
        FixedBy(Error("ENUM_WITHOUT_VALUES", s.entities[places[k][1]].name,
                      Field(s, places[k]).name, <<>>), fixed(places[k]))]
  BY DEF EnumsWithoutValues, Each, FieldsWhere
<1>3. ASSUME NEW p \in FieldPlaces(s) PROVE Keeps(s, fixed(p))
  <2>. DEFINE e == s.entities[p[1]]
              f == [e.fields[p[2]] EXCEPT !.type = "text"]
              new == [e EXCEPT !.fields[p[2]] = f]
  <2>1. /\ p[1] \in DOMAIN s.entities /\ p[2] \in DOMAIN e.fields
        /\ e \in EntityRecord /\ e.fields[p[2]] \in FieldRecord
    BY PlaceParts
  <2>2. "text" \in Token
    BY RulesAssumption DEF FieldType
  <2>3. f \in FieldRecord
    BY <2>1, <2>2 DEF FieldRecord
  <2>4. fixed(p) = [s EXCEPT !.entities[p[1]] = new]
    OBVIOUS
  <2>. HIDE DEF fixed, f
  <2>5. new \in EntityRecord /\ new.name = e.name
    BY <2>1, <2>3, FieldKept
  <2>. HIDE DEF new
  <2>. QED  BY <2>1, <2>4, <2>5, EntityKept
<1>. HIDE DEF places, found, fixed
<1>4. ASSUME NEW k \in DOMAIN places, NEW t \in found[k].fixed PROVE Keeps(s, t)
  <2>1. places[k] \in FieldPlaces(s)
    BY <1>1
  <2>2. t = fixed(places[k])
    BY <1>2, <1>4, FixedParts
  <2>. QED  BY <1>3, <2>1, <2>2
<1>5. found = [k \in DOMAIN places |-> found[k]]
  BY <1>2
<1>6. Sound(s, found)
  BY <1>1, <1>4, <1>5, SoundEach
<1>. QED  BY <1>6 DEF found

LEMMA InvalidRelationshipTypesSound ==
    ASSUME NEW s \in Schema
    PROVE  Sound(s, InvalidRelationshipTypes(s))
<1>. DEFINE P == {i \in DOMAIN s.rels : s.rels[i].type \notin RelationshipType}
            places == InOrder(P)
            found == InvalidRelationshipTypes(s)
            error(i) == Error("RELATIONSHIP_INVALID_TYPE", NoName, NoName, Describe(s.rels[i]))
            changed(i) == [s.rels[i] EXCEPT !.type = RelationshipAlias[s.rels[i].type]]
            fixed(i) == [s EXCEPT !.rels[i] = changed(i)]
<1>1. places \in Seq(P) /\ P \subseteq DOMAIN s.rels
  BY SchemaParts, InOrderSeq
<1>2. found = [k \in DOMAIN places |->
        IF s.rels[places[k]].type \in DOMAIN RelationshipAlias
        THEN FixedBy(error(places[k]), fixed(places[k])) ELSE error(places[k])]
  BY DEF InvalidRelationshipTypes, Each
<1>3. ASSUME NEW i \in P, s.rels[i].type \in DOMAIN RelationshipAlias PROVE Keeps(s, fixed(i))
  <2>1. i \in DOMAIN s.rels /\ s.rels[i] \in RelRecord
    BY SchemaParts
  <2>2. RelationshipAlias[s.rels[i].type] \in Token
    BY <1>3, RulesAssumption DEF RelationshipAlias, RelationshipType
  <2>3. /\ changed(i) \in RelRecord
        /\ changed(i).from = s.rels[i].from /\ changed(i).to = s.rels[i].to
    BY <2>1, <2>2 DEF RelRecord
  <2>4. {changed(i).from, changed(i).to} \subseteq Ends(s)
    BY <2>1, <2>3, EndsOf
  <2>. HIDE DEF changed
  <2>. QED  BY <2>1, <2>3, <2>4, RelKept
<1>. HIDE DEF P, places, found, fixed
<1>4. ASSUME NEW k \in DOMAIN places, NEW t \in found[k].fixed PROVE Keeps(s, t)
  <2>1. places[k] \in P
    BY <1>1
  <2>2. CASE s.rels[places[k]].type \in DOMAIN RelationshipAlias
    <3>1. found[k] = FixedBy(error(places[k]), fixed(places[k]))
      BY <1>2, <2>2
    <3>2. t = fixed(places[k])
      BY <1>4, <3>1, FixedParts
    <3>. QED  BY <1>3, <2>1, <2>2, <3>2
  <2>3. CASE ~(s.rels[places[k]].type \in DOMAIN RelationshipAlias)
    <3>1. found[k] = error(places[k])
      BY <1>2, <2>3
    <3>2. found[k].fixed = {}
      BY <3>1, Unfixed
    <3>. QED  BY <1>4, <3>2
  <2>. QED  BY <2>2, <2>3
<1>5. found = [k \in DOMAIN places |-> found[k]]
  BY <1>2
<1>6. Sound(s, found)
  BY <1>1, <1>4, <1>5, SoundEach
<1>. QED  BY <1>6 DEF found

LEMMA SelectType ==
    ASSUME NEW s \in Schema, NEW Q \in SUBSET (DOMAIN s.entities), Q # {}
    PROVE  Min(Q) \in DOMAIN s.entities
<1>1. Q \subseteq Nat
  BY SchemaParts
<1>. QED  BY <1>1, FirstOf

LEMMA MissingEntitiesSound ==
    ASSUME NEW s \in Schema
    PROVE  Sound(s, MissingEntities(s))
<1>. DEFINE Q(name) == {i \in 1..Len(s.entities) : SameIgnoringCase(s.entities[i].name, name)}
            similar(name) == IF Q(name) # {} THEN Min(Q(name)) ELSE 0
            error(i, name) ==
                Error("RELATIONSHIP_MISSING_ENTITY", name, NoName, Describe(s.rels[i]))
            from(i) == [s.rels[i] EXCEPT !.from = s.entities[similar(s.rels[i].from)].name]
            to(i) == [s.rels[i] EXCEPT !.to = s.entities[similar(s.rels[i].to)].name]
            ofFrom(i) == IF similar(s.rels[i].from) = 0 THEN error(i, s.rels[i].from)
                         ELSE FixedBy(error(i, s.rels[i].from), [s EXCEPT !.rels[i] = from(i)])
            ofTo(i) == IF similar(s.rels[i].to) = 0 THEN error(i, s.rels[i].to)
                       ELSE FixedBy(error(i, s.rels[i].to), [s EXCEPT !.rels[i] = to(i)])
            row(i) == (IF s.rels[i].from \notin EntityNames(s) THEN <<ofFrom(i)>> ELSE <<>>)
                      \o (IF s.rels[i].to \notin EntityNames(s) THEN <<ofTo(i)>> ELSE <<>>)
            rows == [i \in DOMAIN s.rels |-> row(i)]
<1>1. MissingEntities(s) = FlattenSeq(rows)
  BY DEF MissingEntities, SelectInSeq
<1>2. ASSUME NEW name, similar(name) # 0
      PROVE  s.entities[similar(name)].name \in EntityNames(s) /\ s.entities[similar(name)].name \in Name
  <2>1. Q(name) # {} /\ similar(name) = Min(Q(name))
    BY <1>2
  <2>2. Q(name) \in SUBSET (DOMAIN s.entities)
    BY SchemaParts
  <2>3. similar(name) \in DOMAIN s.entities
    BY <2>1, <2>2, SelectType
  <2>. HIDE DEF similar
  <2>. QED  BY <2>3, SchemaParts, EntityParts DEF EntityNames
<1>. HIDE DEF similar
<1>3. ASSUME NEW i \in DOMAIN s.rels, NEW t \in ofFrom(i).fixed PROVE Keeps(s, t)
  <2>1. s.rels[i] \in RelRecord
    BY SchemaParts
  <2>2. CASE similar(s.rels[i].from) = 0
    <3>1. ofFrom(i).fixed = {}
      BY <2>2, Unfixed
    <3>. QED  BY <1>3, <3>1
  <2>3. CASE similar(s.rels[i].from) # 0
    <3>1. ofFrom(i).fixed = {[s EXCEPT !.rels[i] = from(i)]}
      BY <2>3, FixedParts
    <3>2. /\ from(i) \in RelRecord
          /\ from(i).from \in EntityNames(s) /\ from(i).to = s.rels[i].to
      BY <1>2, <2>1, <2>3 DEF RelRecord
    <3>3. {from(i).from, from(i).to} \subseteq Ends(s) \cup EntityNames(s)
      BY <3>2, EndsOf
    <3>. HIDE DEF from, ofFrom
    <3>. QED  BY <1>3, <3>1, <3>2, <3>3, RelKept
  <2>. QED  BY <2>2, <2>3
<1>4. ASSUME NEW i \in DOMAIN s.rels, NEW t \in ofTo(i).fixed PROVE Keeps(s, t)
  <2>1. s.rels[i] \in RelRecord
    BY SchemaParts
  <2>2. CASE similar(s.rels[i].to) = 0
    <3>1. ofTo(i).fixed = {}
      BY <2>2, Unfixed
    <3>. QED  BY <1>4, <3>1
  <2>3. CASE similar(s.rels[i].to) # 0
    <3>1. ofTo(i).fixed = {[s EXCEPT !.rels[i] = to(i)]}
      BY <2>3, FixedParts
    <3>2. /\ to(i) \in RelRecord
          /\ to(i).to \in EntityNames(s) /\ to(i).from = s.rels[i].from
      BY <1>2, <2>1, <2>3 DEF RelRecord
    <3>3. {to(i).from, to(i).to} \subseteq Ends(s) \cup EntityNames(s)
      BY <3>2, EndsOf
    <3>. HIDE DEF to, ofTo
    <3>. QED  BY <1>4, <3>1, <3>2, <3>3, RelKept
  <2>. QED  BY <2>2, <2>3
<1>. HIDE DEF ofFrom, ofTo
<1>5. ASSUME NEW x, \A t \in x.fixed : Keeps(s, t)
      PROVE  Sound(s, <<x>>)
  <2>1. <<x>> \in Seq({x}) /\ Range(<<x>>) = {x}
    BY DEF Range
  <2>. QED  BY <1>5, <2>1 DEF Sound
<1>6. Sound(s, <<>>)
  <2>1. <<>> \in Seq(Range(<<>>)) /\ Range(<<>>) = {}
    BY DEF Range
  <2>. QED  BY <2>1 DEF Sound
<1>7. ASSUME NEW i \in DOMAIN s.rels PROVE Sound(s, row(i))
  <2>. DEFINE a == IF s.rels[i].from \notin EntityNames(s) THEN <<ofFrom(i)>> ELSE <<>>
              b == IF s.rels[i].to \notin EntityNames(s) THEN <<ofTo(i)>> ELSE <<>>
  <2>1. Sound(s, <<ofFrom(i)>>) /\ Sound(s, <<ofTo(i)>>)
    BY <1>3, <1>4, <1>5
  <2>2. Sound(s, a)
    BY <1>6, <2>1
  <2>3. Sound(s, b)
    BY <1>6, <2>1
  <2>. HIDE DEF a, b
  <2>4. Sound(s, a \o b)
    BY <2>2, <2>3, SoundConcat
  <2>. QED  BY <2>4 DEF a, b
<1>. HIDE DEF row
<1>8. rows = [i \in 1..Len(s.rels) |-> rows[i]] /\ \A i \in 1..Len(s.rels) : Sound(s, rows[i])
  BY <1>7, SchemaParts
<1>9. Len(s.rels) \in Nat
  BY SchemaParts
<1>. HIDE DEF rows
<1>10. Sound(s, FlattenSeq(rows))
  BY <1>8, <1>9, SoundFlatten
<1>. QED  BY <1>1, <1>10

LEMMA ForeignKeyFieldDuplicatesSound ==
    ASSUME NEW s \in Schema, NEW props
    PROVE  Sound(s, ForeignKeyFieldDuplicates(s, props))
<1>. DEFINE generated(i, j) == Claimant(props, s.entities[i].name, s.entities[i].fields[j].name)
            parts == [i \in DOMAIN s.entities |->
                        {j \in DOMAIN s.entities[i].fields :
                            generated(i, j) # 0 /\ props[generated(i, j)].foreignKey = TRUE}]
            places == Nested(parts)
            found == ForeignKeyFieldDuplicates(s, props)
            entity(p) == s.entities[p[1]].name
            prop(p) == props[Claimant(props, entity(p), Field(s, p).name)]
<1>1. places \in Seq(FieldPlaces(s))
  BY FieldPlacesType
<1>2. found = [k \in DOMAIN places |->
        FixedBy(Error("FOREIGN_KEY_FIELD_DUPLICATE", entity(places[k]), Field(s, places[k]).name,
                      Describe(s.rels[prop(places[k]).side.rel])),
                WithoutField(s, places[k]))]
  BY DEF ForeignKeyFieldDuplicates, CollidingFields, Each, FieldsWhere
<1>. HIDE DEF places, found, prop
<1>3. ASSUME NEW k \in DOMAIN places, NEW t \in found[k].fixed PROVE Keeps(s, t)
  <2>1. places[k] \in FieldPlaces(s)
    BY <1>1
  <2>2. t = WithoutField(s, places[k])
    BY <1>2, <1>3, FixedParts
  <2>3. /\ places[k][1] \in DOMAIN s.entities
        /\ places[k][2] \in DOMAIN s.entities[places[k][1]].fields
        /\ places[k] = <<places[k][1], places[k][2]>>
    BY <2>1, PlaceParts
  <2>. QED  BY <2>2, <2>3, WithoutFieldKept
<1>4. found = [k \in DOMAIN places |-> found[k]]
  BY <1>2
<1>5. Sound(s, found)
  BY <1>1, <1>3, <1>4, SoundEach
<1>. QED  BY <1>5 DEF found

LEMMA FieldRelationshipCollisionsSound ==
    ASSUME NEW s \in Schema, NEW props
    PROVE  Sound(s, FieldRelationshipCollisions(s, props))
<1>. DEFINE generated(i, j) == Claimant(props, s.entities[i].name, s.entities[i].fields[j].name)
            parts == [i \in DOMAIN s.entities |->
                        {j \in DOMAIN s.entities[i].fields :
                            generated(i, j) # 0 /\ props[generated(i, j)].foreignKey = FALSE}]
            places == Nested(parts)
            found == FieldRelationshipCollisions(s, props)
            entity(p) == s.entities[p[1]].name
            prop(p) == props[Claimant(props, entity(p), Field(s, p).name)]
            suffix(p) == IF Field(s, p).type = "text" THEN "_text" ELSE "_value"
            renamed(p) == FreeName(Append(Field(s, p).name, suffix(p)),
                                   FieldNames(s, p[1]) \cup NamesOn(props, entity(p)))
<1>1. places \in Seq(FieldPlaces(s))
  BY FieldPlacesType
<1>2. found = [k \in DOMAIN places |->
        FixedBy(Error("FIELD_RELATIONSHIP_COLLISION", entity(places[k]), Field(s, places[k]).name,
                      Describe(s.rels[prop(places[k]).side.rel])),
                RenamedField(s, places[k], renamed(places[k])))]
  BY DEF FieldRelationshipCollisions, CollidingFields, Each, FieldsWhere
<1>3. ASSUME NEW p \in FieldPlaces(s) PROVE renamed(p) \in Name
  <2>1. Field(s, p).name \in Name
    BY PlaceParts DEF FieldRecord
  <2>2. suffix(p) \in Token
    BY RulesAssumption
  <2>. HIDE DEF suffix
  <2>3. Append(Field(s, p).name, suffix(p)) \in Name
    BY <2>1, <2>2, SuffixType
  <2>. QED  BY <2>3, FreeNameType
<1>. HIDE DEF places, found, prop, renamed
<1>4. ASSUME NEW k \in DOMAIN places, NEW t \in found[k].fixed PROVE Keeps(s, t)
  <2>1. places[k] \in FieldPlaces(s)
    BY <1>1
  <2>2. t = RenamedField(s, places[k], renamed(places[k]))
    BY <1>2, <1>4, FixedParts
  <2>3. /\ places[k][1] \in DOMAIN s.entities
        /\ places[k][2] \in DOMAIN s.entities[places[k][1]].fields
        /\ places[k] = <<places[k][1], places[k][2]>>
    BY <2>1, PlaceParts
  <2>4. renamed(places[k]) \in Name
    BY <1>3, <2>1
  <2>. QED  BY <2>2, <2>3, <2>4, RenamedFieldKept
<1>5. found = [k \in DOMAIN places |-> found[k]]
  BY <1>2
<1>6. Sound(s, found)
  BY <1>1, <1>4, <1>5, SoundEach
<1>. QED  BY <1>6 DEF found

\* What a generated property says of the relationship it is generated for.
SideRecord(s) ==
    [entity : Name, other : Name, type : Token, ref : Name, rel : DOMAIN s.rels,
     isFrom : BOOLEAN]

PropertyRecord(s) ==
    [entity : Name, name : Name, foreignKey : BOOLEAN, side : SideRecord(s)]

LEMMA SidesOfType ==
    ASSUME NEW s \in Schema, NEW i \in DOMAIN s.rels
    PROVE  SidesOf(i, s.rels[i], InverseOf(s.rels, s.rels[i])) \in Seq(SideRecord(s))
<1>. DEFINE rel == s.rels[i]
            inverse == InverseOf(s.rels, s.rels[i])
            S == SideRecord(s)
            here == [entity |-> rel.from, other |-> rel.to, type |-> rel.type,
                     ref |-> RefOf(rel), rel |-> i, isFrom |-> TRUE]
            there(type, ref) ==
                [entity |-> rel.to, other |-> rel.from, type |-> type,
                 ref |-> ref, rel |-> i, isFrom |-> FALSE]
            names == {d.toName : d \in inverse} \ {NoName}
            ref == IF names # {} THEN CHOOSE n \in names : TRUE ELSE rel.from
<1>1. rel \in RelRecord
  BY SchemaParts
<1>2. inverse \subseteq RelRecord
  <2>. DEFINE Q == {j \in 1..Len(s.rels) :
                s.rels[j].from = rel.to /\ s.rels[j].to = rel.from /\ s.rels[j].type = rel.type}
              first == IF Q # {} THEN Min(Q) ELSE 0
  <2>1. inverse = IF first = 0 THEN {} ELSE {s.rels[first]}
    BY DEF InverseOf, SelectInSeq
  <2>2. Q \subseteq DOMAIN s.rels /\ Q \subseteq Nat
    BY SchemaParts
  <2>3. first # 0 => first \in DOMAIN s.rels
    BY <2>2, FirstOf
  <2>. HIDE DEF first, inverse
  <2>. QED  BY <2>1, <2>3, SchemaParts
<1>3. here \in S
  <2>1. RefOf(rel) \in Name
    BY <1>1, RelParts DEF RefOf
  <2>. QED  BY <1>1, <2>1, RelParts DEF SideRecord
<1>4. ASSUME NEW type \in Token, NEW n \in Name PROVE there(type, n) \in S
  BY <1>1, RelParts DEF SideRecord
<1>5. ref \in Name /\ rel.from \in Name
  <2>1. names \subseteq Name
    BY <1>2, RelParts
  <2>. QED  BY <1>1, <2>1, RelParts
<1>6. rel.type \in Token /\ "OneToMany" \in Token /\ "ManyToOne" \in Token
  BY <1>1, RelParts, RulesAssumption DEF RelationshipType
<1>7. there("OneToMany", rel.from) \in S /\ there("ManyToOne", rel.from) \in S
      /\ there(rel.type, ref) \in S
  <2>. HIDE DEF ref, S, rel, there
  <2>. QED  BY <1>4, <1>5, <1>6
<1>8. \/ SidesOf(i, rel, inverse) = <<here, there("OneToMany", rel.from)>>
      \/ SidesOf(i, rel, inverse) = <<here, there("ManyToOne", rel.from)>>
      \/ SidesOf(i, rel, inverse) = <<here, there(rel.type, ref)>>
      \/ SidesOf(i, rel, inverse) = <<here>>
      \/ SidesOf(i, rel, inverse) = <<>>
  <2>. HIDE DEF inverse, rel
  <2>. QED  BY DEF SidesOf
<1>. HIDE DEF S, here, there, ref, rel, inverse
<1>9. SidesOf(i, rel, inverse) \in Seq(S)
  <2>1. \A side \in S : <<here, side>> \in Seq(S)
    BY <1>3
  <2>2. <<here>> \in Seq(S) /\ <<>> \in Seq(S)
    BY <1>3
  <2>. QED  BY <1>7, <1>8, <2>1, <2>2
<1>. QED  BY <1>9 DEF S, rel, inverse

LEMMA GeneratedType ==
    ASSUME NEW s \in Schema
    PROVE  Generated(s.rels) \in Seq(PropertyRecord(s))
<1>. DEFINE n == Len(s.rels)
            rows == [i \in DOMAIN s.rels |-> SidesOf(i, s.rels[i], InverseOf(s.rels, s.rels[i]))]
            S == SideRecord(s)
            P == PropertyRecord(s)
            all == Sides(s.rels)
<1>1. n \in Nat /\ rows \in [1..n -> Seq(S)]
  BY SchemaParts, SidesOfType
<1>2. all \in Seq(S)
  <2>. HIDE DEF n, S
  <2>1. all = FlattenSeq(rows)
    BY DEF Sides
  <2>. HIDE DEF rows, all
  <2>. QED  BY <1>1, <2>1, FlattenType
<1>. HIDE DEF all, S
<1>. DEFINE key(k) == <<all[k].entity, all[k].other, all[k].ref>>
            first == {k \in DOMAIN all : \A i \in 1..(k - 1) : key(i) # key(k)}
            sides == Distinct(all)
<1>3. sides \in Seq(S)
  <2>1. sides = AtPositions(all, first)
    BY DEF Distinct
  <2>. HIDE DEF sides
  <2>. QED  BY <1>2, <2>1, AtPositionsType
<1>. HIDE DEF sides
<1>4. ASSUME NEW side \in S PROVE GeneratedBy(side) \in Seq(P)
  <2>1. side.ref \in Name /\ side.entity \in Name /\ side \in SideRecord(s)
    BY DEF SideRecord, S
  <2>2. BaseName(side) \in Name
    BY <2>1, CamelCaseType, PluralizeType DEF BaseName
  <2>3. ForeignKey(BaseName(side)) \in Name
    BY <2>2, ForeignKeyType
  <2>. DEFINE own == Property(BaseName(side), FALSE, side)
              key2 == Property(ForeignKey(BaseName(side)), TRUE, side)
  <2>4. own \in P /\ key2 \in P
    BY <2>1, <2>2, <2>3 DEF Property, PropertyRecord
  <2>5. GeneratedBy(side) = <<own>> \o IF side.type = "ManyToOne" THEN <<key2>> ELSE <<>>
    BY DEF GeneratedBy
  <2>. HIDE DEF own, key2, P
  <2>6. <<own>> \in Seq(P) /\ <<key2>> \in Seq(P) /\ <<>> \in Seq(P)
    BY <2>4
  <2>7. (IF side.type = "ManyToOne" THEN <<key2>> ELSE <<>>) \in Seq(P)
    BY <2>6
  <2>. QED  BY <2>5, <2>6, <2>7
<1>. HIDE DEF P
<1>5. Len(sides) \in Nat /\ [k \in DOMAIN sides |-> GeneratedBy(sides[k])] \in [1..Len(sides) -> Seq(P)]
  BY <1>3, <1>4
<1>6. FlattenSeq([k \in DOMAIN sides |-> GeneratedBy(sides[k])]) \in Seq(P)
  BY <1>5, FlattenType
<1>. QED  BY <1>6 DEF Generated, GeneratedFor, sides, all, P

LEMMA RelationshipPropertyClashesSound ==
    ASSUME NEW s \in Schema, NEW props \in Seq(PropertyRecord(s))
    PROVE  Sound(s, RelationshipPropertyClashes(s, props))
<1>. DEFINE first(k) == props[Claimant(props, props[k].entity, props[k].name)]
            P == {k \in Clashes(props) : first(k).side.rel # props[k].side.rel}
            places == InOrder(P)
            found == RelationshipPropertyClashes(s, props)
            r(k) == props[k].side.rel
            error(k) == Error("RELATIONSHIP_PROPERTY_CLASH", props[k].entity, props[k].name,
                              Describe(s.rels[r(k)]))
            toName(k) == FreeName(CamelCase(props[k].side.ref) \o PascalCase(s.rels[r(k)].to),
                                  NamesOn(props, props[k].entity))
            renamed(k) == [s.rels[r(k)] EXCEPT !.toName = toName(k)]
            oneWay(k) == [s.rels[r(k)] EXCEPT !.bi = "no"]
            result(k) == CASE props[k].side.isFrom ->
                                FixedBy(error(k), [s EXCEPT !.rels[r(k)].toName = toName(k)])
                           [] ~props[k].side.isFrom /\ s.rels[r(k)].type = "ManyToOne" ->
                                FixedBy(error(k), [s EXCEPT !.rels[r(k)].bi = "no"])
                           [] OTHER -> error(k)
<1>1. Len(props) \in Nat /\ DOMAIN props = 1..Len(props)
  OBVIOUS
<1>2. places \in Seq(P) /\ P \subseteq DOMAIN props
  <2>1. P \in SUBSET (1..Len(props))
    BY DEF Clashes
  <2>. HIDE DEF P
  <2>. QED  BY <1>1, <2>1, InOrderSeq
<1>3. found = [k \in DOMAIN places |-> result(places[k])]
  BY DEF RelationshipPropertyClashes, Each
<1>. HIDE DEF places, found, P
<1>4. ASSUME NEW k \in DOMAIN props, NEW t \in result(k).fixed PROVE Keeps(s, t)
  <2>1. props[k] \in PropertyRecord(s)
    OBVIOUS
  <2>2. props[k].side \in SideRecord(s)
    BY <2>1 DEF PropertyRecord
  <2>3. props[k].side.ref \in Name /\ r(k) \in DOMAIN s.rels
    BY <2>2 DEF SideRecord
  <2>4. s.rels[r(k)] \in RelRecord /\ s.rels[r(k)].to \in Name
    BY <2>3, SchemaParts, RelParts
  <2>5. toName(k) \in Name
    <3>1. CamelCase(props[k].side.ref) \in Name /\ PascalCase(s.rels[r(k)].to) \in Name
      BY <2>3, <2>4, CamelCaseType, PascalCaseType
    <3>. DEFINE a == CamelCase(props[k].side.ref)
                b == PascalCase(s.rels[r(k)].to)
    <3>. HIDE DEF a, b
    <3>2. a \in Name /\ b \in Name
      BY <3>1 DEF a, b
    <3>3. a \o b \in Name
      BY <3>2 DEF Name
    <3>4. FreeName(a \o b, NamesOn(props, props[k].entity)) \in Name
      BY <3>3, FreeNameType
    <3>. QED  BY <3>4 DEF a, b
  <2>. HIDE DEF toName, r
  <2>6. /\ renamed(k) \in RelRecord
        /\ renamed(k).from = s.rels[r(k)].from /\ renamed(k).to = s.rels[r(k)].to
        /\ oneWay(k) \in RelRecord
        /\ oneWay(k).from = s.rels[r(k)].from /\ oneWay(k).to = s.rels[r(k)].to
    BY <2>4, <2>5 DEF RelRecord
  <2>. HIDE DEF renamed, oneWay
  <2>7. Keeps(s, [s EXCEPT !.rels[r(k)] = renamed(k)])
    <3>1. {renamed(k).from, renamed(k).to} \subseteq Ends(s)
      BY <2>3, <2>6, EndsOf
    <3>. QED  BY <2>3, <2>6, <3>1, RelKept
  <2>8. Keeps(s, [s EXCEPT !.rels[r(k)] = oneWay(k)])
    <3>1. {oneWay(k).from, oneWay(k).to} \subseteq Ends(s)
      BY <2>3, <2>6, EndsOf
    <3>. QED  BY <2>3, <2>6, <3>1, RelKept
  <2>9. CASE props[k].side.isFrom
    <3>1. result(k) = FixedBy(error(k), [s EXCEPT !.rels[r(k)] = renamed(k)])
      BY <2>9 DEF renamed
    <3>. HIDE DEF result
    <3>2. t = [s EXCEPT !.rels[r(k)] = renamed(k)]
      BY <1>4, <3>1, FixedParts
    <3>. QED  BY <2>7, <3>2
  <2>10. CASE ~props[k].side.isFrom /\ s.rels[r(k)].type = "ManyToOne"
    <3>1. result(k) = FixedBy(error(k), [s EXCEPT !.rels[r(k)] = oneWay(k)])
      BY <2>10 DEF oneWay
    <3>. HIDE DEF result
    <3>2. t = [s EXCEPT !.rels[r(k)] = oneWay(k)]
      BY <1>4, <3>1, FixedParts
    <3>. QED  BY <2>8, <3>2
  <2>11. CASE ~props[k].side.isFrom /\ s.rels[r(k)].type # "ManyToOne"
    <3>1. result(k) = error(k)
      BY <2>11
    <3>. HIDE DEF result
    <3>2. result(k).fixed = {}
      BY <3>1, Unfixed
    <3>. QED  BY <1>4, <3>2
  <2>. QED  BY <2>9, <2>10, <2>11
<1>. HIDE DEF result
<1>5. \A k \in DOMAIN places : \A t \in found[k].fixed : Keeps(s, t)
  BY <1>2, <1>3, <1>4
<1>6. found = [k \in DOMAIN places |-> found[k]]
  BY <1>3
<1>7. Sound(s, found)
  BY <1>2, <1>5, <1>6, SoundEach
<1>. QED  BY <1>7 DEF found

LEMMA RequiredRelationshipCyclesSound ==
    ASSUME NEW s \in Schema
    PROVE  Sound(s, RequiredRelationshipCycles(s))
<1>. DEFINE edges == RequiredEdges(s)
            child(i) == edges[i][1]
            parent(i) == edges[i][2]
            cycleOf(i) ==
                {child(i)} \cup {n \in Reach(edges, child(i)) : child(i) \in Reach(edges, n)}
            onCycle == {i \in DOMAIN edges :
                            child(i) \in Reach(edges, parent(i)) \cup {parent(i)}}
            P == {i \in onCycle : \A j \in onCycle : j < i => cycleOf(j) # cycleOf(i)}
            places == InOrder(P)
            found == RequiredRelationshipCycles(s)
            optional(i) == [s.rels[i] EXCEPT !.nullable = TRUE]
            fixed(i) == [s EXCEPT !.rels[i] = optional(i)]
<1>1. P \subseteq DOMAIN s.rels
  <2>1. DOMAIN RequiredEdges(s) \subseteq DOMAIN s.rels
    BY DEF RequiredEdges
  <2>2. P \subseteq onCycle /\ onCycle \subseteq DOMAIN edges
    OBVIOUS
  <2>. QED  BY <2>1, <2>2
<1>2. found = [k \in DOMAIN places |->
        FixedBy(Error("REQUIRED_RELATIONSHIP_CYCLE", edges[places[k]][1], NoName,
                      Describe(s.rels[places[k]])), fixed(places[k]))]
  BY DEF RequiredRelationshipCycles, Each
<1>. HIDE DEF P, found, edges
<1>3. places \in Seq(P)
  BY <1>1, SchemaParts, InOrderSeq
<1>4. ASSUME NEW i \in P PROVE Keeps(s, fixed(i))
  <2>1. i \in DOMAIN s.rels /\ s.rels[i] \in RelRecord
    BY <1>1, SchemaParts
  <2>2. /\ optional(i) \in RelRecord
        /\ optional(i).from = s.rels[i].from /\ optional(i).to = s.rels[i].to
    BY <2>1 DEF RelRecord
  <2>3. {optional(i).from, optional(i).to} \subseteq Ends(s)
    BY <2>1, <2>2, EndsOf
  <2>. HIDE DEF optional
  <2>. QED  BY <2>1, <2>2, <2>3, RelKept
<1>. HIDE DEF places, fixed
<1>5. ASSUME NEW k \in DOMAIN places, NEW t \in found[k].fixed PROVE Keeps(s, t)
  <2>1. places[k] \in P
    BY <1>3
  <2>2. t = fixed(places[k])
    BY <1>2, <1>5, FixedParts
  <2>. QED  BY <1>4, <2>1, <2>2
<1>6. found = [k \in DOMAIN places |-> found[k]]
  BY <1>2
<1>7. Sound(s, found)
  BY <1>3, <1>5, <1>6, SoundEach
<1>. QED  BY <1>7 DEF found

IndexPlaces(s) ==
    {p \in (DOMAIN s.entities) \X Nat : p[2] \in DOMAIN s.entities[p[1]].indexes}

LEMMA IndexPlacesType ==
    ASSUME NEW s \in Schema, NEW parts, DOMAIN parts = DOMAIN s.entities,
           \A i \in DOMAIN s.entities : parts[i] \subseteq DOMAIN s.entities[i].indexes
    PROVE  Nested(parts) \in Seq(IndexPlaces(s))
<1>. DEFINE n == Len(s.entities)
            P == {p \in (1..n) \X Int : p[2] \in parts[p[1]]}
<1>1. n \in Nat /\ DOMAIN s.entities = 1..n
  BY SchemaParts
<1>2. ASSUME NEW i \in 1..n
      PROVE  IsFiniteSet(parts[i]) /\ parts[i] \subseteq Int
  <2>1. s.entities[i] \in EntityRecord
    BY <1>1, SchemaParts
  <2>. DEFINE m == Len(s.entities[i].indexes)
  <2>2. m \in Nat /\ DOMAIN s.entities[i].indexes = 1..m
    BY <2>1, EntityParts
  <2>3. parts[i] \subseteq 1..m
    BY <1>1, <2>2
  <2>. HIDE DEF m
  <2>4. IsFiniteSet(1..m) /\ 1..m \subseteq Int
    BY <2>2, FS_Interval
  <2>5. IsFiniteSet(parts[i])
    BY <2>3, <2>4, FS_Subset
  <2>. QED  BY <2>3, <2>4, <2>5
<1>. HIDE DEF n
<1>3. Nested(parts) \in Seq(P)
  BY <1>1, <1>2, NestedType
<1>4. P \subseteq IndexPlaces(s)
  <2>. SUFFICES ASSUME NEW p \in P PROVE p \in IndexPlaces(s)
    OBVIOUS
  <2>1. p[1] \in DOMAIN s.entities /\ p[2] \in DOMAIN s.entities[p[1]].indexes /\ p = <<p[1], p[2]>>
    BY <1>1
  <2>2. DOMAIN s.entities[p[1]].indexes \subseteq Nat
    BY <2>1, SchemaParts, EntityParts
  <2>. QED  BY <2>1, <2>2 DEF IndexPlaces
<1>. HIDE DEF P
<1>. QED  BY <1>3, <1>4

LEMMA UnknownIndexFieldsSound ==
    ASSUME NEW s \in Schema, NEW props
    PROVE  Sound(s, UnknownIndexFields(s, props))
<1>. DEFINE named(i, c) == s.entities[i].indexes[c].fields
            unknown(i, c) ==
                {k \in DOMAIN named(i, c) : named(i, c)[k] \notin Columns(s, props, i)}
            parts == [i \in DOMAIN s.entities |->
                {c \in DOMAIN s.entities[i].indexes : named(i, c) = <<>> \/ unknown(i, c) # {}}]
            places == Nested(parts)
            found == UnknownIndexFields(s, props)
            missing(p) ==
                IF unknown(p[1], p[2]) = {} THEN NoName
                ELSE named(p[1], p[2])[Min(unknown(p[1], p[2]))]
            error(p) == Error("INDEX_UNKNOWN_FIELD", s.entities[p[1]].name, missing(p), <<>>)
            known(p) ==
                AtPositions(named(p[1], p[2]), DOMAIN named(p[1], p[2]) \ unknown(p[1], p[2]))
            fixed(p) ==
                IF known(p) = <<>>
                THEN [s EXCEPT !.entities[p[1]].indexes = RemoveAt(s.entities[p[1]].indexes, p[2])]
                ELSE [s EXCEPT !.entities[p[1]].indexes[p[2]].fields = known(p)]
<1>1. places \in Seq(IndexPlaces(s))
  BY IndexPlacesType
<1>2. found = [k \in DOMAIN places |-> FixedBy(error(places[k]), fixed(places[k]))]
  BY DEF UnknownIndexFields, Each
<1>3. ASSUME NEW p \in IndexPlaces(s) PROVE Keeps(s, fixed(p))
  <2>. DEFINE e == s.entities[p[1]]
              shorter == [e EXCEPT !.indexes = RemoveAt(e.indexes, p[2])]
              index == [e.indexes[p[2]] EXCEPT !.fields = known(p)]
              indexes == [e.indexes EXCEPT ![p[2]] = index]
              repaired == [e EXCEPT !.indexes = indexes]
  <2>1. p[1] \in DOMAIN s.entities /\ p[2] \in DOMAIN e.indexes
    BY DEF IndexPlaces
  <2>2. e \in EntityRecord
    BY <2>1, SchemaParts
  <2>3. e.indexes \in Seq(IndexRecord) /\ e.indexes[p[2]] \in IndexRecord
    BY <2>1, <2>2, EntityParts
  <2>4. named(p[1], p[2]) \in Seq(Name)
    BY <2>3 DEF IndexRecord
  <2>5. known(p) \in Seq(Name)
    <3>. DEFINE P == DOMAIN named(p[1], p[2]) \ unknown(p[1], p[2])
    <3>1. P \subseteq DOMAIN named(p[1], p[2])
      OBVIOUS
    <3>. HIDE DEF P, named
    <3>2. AtPositions(named(p[1], p[2]), P) \in Seq(Name)
      BY <2>4, <3>1, AtPositionsType
    <3>. QED  BY <3>2 DEF P, named
  <2>6. \/ fixed(p) = [s EXCEPT !.entities[p[1]] = shorter]
        \/ fixed(p) = [s EXCEPT !.entities[p[1]] = repaired]
    OBVIOUS
  <2>. HIDE DEF fixed, known
  <2>7. shorter \in EntityRecord /\ shorter.name = e.name
    <3>1. RemoveAt(e.indexes, p[2]) \in Seq(IndexRecord)
      BY <2>1, <2>3, RemoveAtType
    <3>. QED  BY <2>2, <3>1, EntityWithIndexes
  <2>8. repaired \in EntityRecord /\ repaired.name = e.name
    <3>1. index \in IndexRecord
      BY <2>3, <2>5 DEF IndexRecord
    <3>. HIDE DEF index
    <3>2. indexes \in Seq(IndexRecord)
      BY <2>1, <2>3, <3>1, ReplacedType
    <3>. HIDE DEF indexes
    <3>. QED  BY <2>2, <3>2, EntityWithIndexes
  <2>. HIDE DEF shorter, repaired
  <2>9. Keeps(s, [s EXCEPT !.entities[p[1]] = shorter])
    BY <2>1, <2>7, EntityKept
  <2>10. Keeps(s, [s EXCEPT !.entities[p[1]] = repaired])
    BY <2>1, <2>8, EntityKept
  <2>. QED  BY <2>6, <2>9, <2>10
<1>. HIDE DEF places, found, fixed, missing
<1>4. ASSUME NEW k \in DOMAIN places, NEW t \in found[k].fixed PROVE Keeps(s, t)
  <2>1. places[k] \in IndexPlaces(s)
    BY <1>1
  <2>2. t = fixed(places[k])
    BY <1>2, <1>4, FixedParts
  <2>. QED  BY <1>3, <2>1, <2>2
<1>5. found = [k \in DOMAIN places |-> found[k]]
  BY <1>2
<1>6. Sound(s, found)
  BY <1>1, <1>4, <1>5, SoundEach
<1>. QED  BY <1>6 DEF found

LEMMA IdFieldsSound ==
    ASSUME NEW s \in Schema
    PROVE  Sound(s, IdFields(s))
<1>. DEFINE parts == [i \in DOMAIN s.entities |->
                        {j \in DOMAIN s.entities[i].fields :
                            /\ SameIgnoringCase(s.entities[i].fields[j].name, <<"id">>)
                            /\ ~s.entities[i].fields[j].primary}]
            places == Nested(parts)
            found == IdFields(s)
<1>1. places \in Seq(FieldPlaces(s))
  BY FieldPlacesType
<1>2. found = [k \in DOMAIN places |->
        FixedBy(Warning("ID_FIELD", s.entities[places[k][1]].name,
                        Field(s, places[k]).name, <<>>),
                WithoutField(s, places[k]))]
  BY DEF IdFields, Each, FieldsWhere
<1>. HIDE DEF places, found
<1>3. ASSUME NEW k \in DOMAIN places, NEW t \in found[k].fixed PROVE Keeps(s, t)
  <2>1. places[k] \in FieldPlaces(s)
    BY <1>1
  <2>2. t = WithoutField(s, places[k])
    BY <1>2, <1>3, FixedParts
  <2>3. /\ places[k][1] \in DOMAIN s.entities
        /\ places[k][2] \in DOMAIN s.entities[places[k][1]].fields
        /\ places[k] = <<places[k][1], places[k][2]>>
    BY <2>1, PlaceParts
  <2>. QED  BY <2>2, <2>3, WithoutFieldKept
<1>4. found = [k \in DOMAIN places |-> found[k]]
  BY <1>2
<1>5. Sound(s, found)
  BY <1>1, <1>3, <1>4, SoundEach
<1>. QED  BY <1>5 DEF found

LEMMA RedundantManyToManySound ==
    ASSUME NEW s \in Schema
    PROVE  Sound(s, RedundantManyToMany(s))
<1>. DEFINE P == {i \in DOMAIN s.rels :
                    /\ s.rels[i].type = "ManyToMany"
                    /\ s.rels[i].from # s.rels[i].to
                    /\ JoinsOf(s, s.rels[i]) # {}}
            places == InOrder(P)
            found == RedundantManyToMany(s)
<1>1. places \in Seq(P)
  BY SchemaParts, InOrderSeq
<1>2. found = [k \in DOMAIN places |->
        FixedBy(Warning("REDUNDANT_MANY_TO_MANY", s.rels[places[k]].from, NoName,
                        Describe(s.rels[places[k]])),
                [s EXCEPT !.rels = RemoveAt(s.rels, places[k])])]
  BY DEF RedundantManyToMany, Each
<1>3. ASSUME NEW i \in P PROVE Keeps(s, [s EXCEPT !.rels = RemoveAt(s.rels, i)])
  BY RelDropped
<1>. HIDE DEF P, places, found
<1>4. ASSUME NEW k \in DOMAIN places, NEW t \in found[k].fixed PROVE Keeps(s, t)
  <2>1. places[k] \in P
    BY <1>1
  <2>2. t = [s EXCEPT !.rels = RemoveAt(s.rels, places[k])]
    BY <1>2, <1>4, FixedParts
  <2>. QED  BY <1>3, <2>1, <2>2
<1>5. found = [k \in DOMAIN places |-> found[k]]
  BY <1>2
<1>6. Sound(s, found)
  BY <1>1, <1>4, <1>5, SoundEach
<1>. QED  BY <1>6 DEF found

LEMMA FindingsSound ==
    ASSUME NEW s \in Schema
    PROVE  Sound(s, Findings(s))
<1>. DEFINE props == Generated(s.rels)
<1>1. props \in Seq(PropertyRecord(s))
  BY GeneratedType
<1>. HIDE DEF props
<1>2. Sound(s, DuplicateEntityNames(s) \o ReservedEntityNames(s))
  BY DuplicateEntityNamesSound, ReservedEntityNamesSound, SoundConcat
<1>3. Sound(s, DuplicateEntityNames(s) \o ReservedEntityNames(s) \o DuplicateFieldNames(s))
  BY <1>2, DuplicateFieldNamesSound, SoundConcat
<1>4. Sound(s, DuplicateEntityNames(s) \o ReservedEntityNames(s) \o DuplicateFieldNames(s)
               \o UnknownFieldTypes(s))
  BY <1>3, UnknownFieldTypesSound, SoundConcat
<1>5. Sound(s, DuplicateEntityNames(s) \o ReservedEntityNames(s) \o DuplicateFieldNames(s)
               \o UnknownFieldTypes(s) \o EnumsWithoutValues(s))
  BY <1>4, EnumsWithoutValuesSound, SoundConcat
<1>. DEFINE a == DuplicateEntityNames(s) \o ReservedEntityNames(s) \o DuplicateFieldNames(s)
                 \o UnknownFieldTypes(s) \o EnumsWithoutValues(s)
            b == a \o InvalidRelationshipTypes(s) \o MissingEntities(s)
            c == b \o ForeignKeyFieldDuplicates(s, props) \o FieldRelationshipCollisions(s, props)
            d == c \o RelationshipPropertyClashes(s, props) \o UnknownIndexFields(s, props)
            e == d \o RequiredRelationshipCycles(s) \o IdFields(s)
<1>6. Findings(s) = e \o RedundantManyToMany(s)
  BY DEF Findings, FindingsGiven, props
<1>7. Sound(s, a)
  BY <1>5
<1>. HIDE DEF a
<1>8. Sound(s, b)
  <2>1. Sound(s, a \o InvalidRelationshipTypes(s))
    BY <1>7, InvalidRelationshipTypesSound, SoundConcat
  <2>. QED  BY <2>1, MissingEntitiesSound, SoundConcat
<1>. HIDE DEF b
<1>9. Sound(s, c)
  <2>1. Sound(s, b \o ForeignKeyFieldDuplicates(s, props))
    BY <1>8, ForeignKeyFieldDuplicatesSound, SoundConcat
  <2>. QED  BY <2>1, FieldRelationshipCollisionsSound, SoundConcat
<1>. HIDE DEF c
<1>10. Sound(s, d)
  <2>1. Sound(s, c \o RelationshipPropertyClashes(s, props))
    BY <1>1, <1>9, RelationshipPropertyClashesSound, SoundConcat
  <2>. QED  BY <2>1, UnknownIndexFieldsSound, SoundConcat
<1>. HIDE DEF d
<1>11. Sound(s, e)
  <2>1. Sound(s, d \o RequiredRelationshipCycles(s))
    BY <1>10, RequiredRelationshipCyclesSound, SoundConcat
  <2>. QED  BY <2>1, IdFieldsSound, SoundConcat
<1>. HIDE DEF e
<1>12. Sound(s, e \o RedundantManyToMany(s))
  BY <1>11, RedundantManyToManySound, SoundConcat
<1>. QED  BY <1>6, <1>12

-----------------------------------------------------------------------------
(* Edits make schemas of schemas.                                          *)

LEMMA FoundEntity ==
    ASSUME NEW s \in Schema, NEW name, FindEntity(s, name) # 0
    PROVE  FindEntity(s, name) \in DOMAIN s.entities
<1>. DEFINE A == {i \in 1..Len(s.entities) : s.entities[i].name = name}
            B == {i \in 1..Len(s.entities) : SameIgnoringCase(s.entities[i].name, name)}
<1>1. FindEntity(s, name) = IF A # {} /\ Min(A) # 0 THEN Min(A)
                            ELSE IF B # {} THEN Min(B) ELSE 0
  BY DEF FindEntity, SelectInSeq
<1>2. A \in SUBSET (DOMAIN s.entities) /\ B \in SUBSET (DOMAIN s.entities)
  BY SchemaParts
<1>. HIDE DEF A, B
<1>. QED  BY <1>1, <1>2, SelectType

LEMMA FoundField ==
    ASSUME NEW e \in EntityRecord, NEW name, FindField(e, name) # 0
    PROVE  FindField(e, name) \in DOMAIN e.fields
<1>. DEFINE Q == {j \in 1..Len(e.fields) : e.fields[j].name = name}
<1>1. FindField(e, name) = IF Q # {} THEN Min(Q) ELSE 0
  BY DEF FindField, SelectInSeq
<1>2. Q \subseteq DOMAIN e.fields /\ Q \subseteq Nat
  BY EntityParts
<1>. HIDE DEF Q
<1>. QED  BY <1>1, <1>2, FirstOf

LEMMA ColumnRenamed ==
    ASSUME NEW e \in EntityRecord, NEW from \in Name, NEW to \in Name
    PROVE  RenameColumn(e, from, to) \in EntityRecord /\ RenameColumn(e, from, to).name = e.name
<1>. DEFINE names(c) == [k \in DOMAIN c.fields |-> IF c.fields[k] = from THEN to ELSE c.fields[k]]
            kept(c) == {k \in DOMAIN names(c) : names(c)[k] # NoName}
            moved(c) == [c EXCEPT !.fields = AtPositions(names(c), kept(c))]
            mapped == [c \in DOMAIN e.indexes |-> moved(e.indexes[c])]
            some == {k \in DOMAIN mapped : mapped[k].fields # <<>>}
<1>1. ASSUME NEW c \in IndexRecord PROVE moved(c) \in IndexRecord
  <2>1. c.fields \in Seq(Name) /\ Len(c.fields) \in Nat /\ DOMAIN c.fields = 1..Len(c.fields)
    BY DEF IndexRecord
  <2>2. names(c) \in [1..Len(c.fields) -> Name]
    BY <2>1
  <2>3. names(c) \in Seq(Name) /\ kept(c) \subseteq DOMAIN names(c)
    BY <2>1, <2>2
  <2>. HIDE DEF names, kept
  <2>4. AtPositions(names(c), kept(c)) \in Seq(Name)
    BY <2>3, AtPositionsType
  <2>. QED  BY <2>4 DEF IndexRecord
<1>2. RenameColumn(e, from, to) = [e EXCEPT !.indexes = AtPositions(mapped, some)]
  BY DEF RenameColumn, Each
<1>. HIDE DEF moved
<1>3. mapped \in [1..Len(e.indexes) -> IndexRecord] /\ Len(e.indexes) \in Nat
  BY <1>1, EntityParts
<1>4. mapped \in Seq(IndexRecord)
  BY <1>3
<1>5. some \subseteq DOMAIN mapped
  OBVIOUS
<1>. HIDE DEF mapped, some
<1>6. AtPositions(mapped, some) \in Seq(IndexRecord)
  BY <1>4, <1>5, AtPositionsType
<1>. QED  BY <1>2, <1>6, EntityWithIndexes

LEMMA ColumnDropped ==
    ASSUME NEW e \in EntityRecord, NEW name \in Name
    PROVE  DropColumn(e, name) \in EntityRecord /\ DropColumn(e, name).name = e.name
<1>1. NoName \in Name
  BY DEF NoName, Name
<1>. QED  BY <1>1, ColumnRenamed DEF DropColumn

LEMMA ForeignKeyToType ==
    ASSUME NEW name \in Name
    PROVE  ForeignKeyTo(name) \in Name
BY CamelCaseType, ForeignKeyType DEF ForeignKeyTo

LEMMA EntityRenamedType ==
    ASSUME NEW s \in Schema, NEW i \in DOMAIN s.entities, NEW to \in Name
    PROVE  EntityRenamed(s, i, to) \in Schema
<1>. DEFINE old == s.entities[i].name
            follow(n) == IF n = old THEN to ELSE n
            column(e) == RenameColumn(e, ForeignKeyTo(old), ForeignKeyTo(to))
            entity(e) == [column(e) EXCEPT !.name = follow(column(e).name)]
            moved(r) == [r EXCEPT !.from = follow(r.from), !.to = follow(r.to)]
            entities == [k \in DOMAIN s.entities |-> entity(s.entities[k])]
            rels == [k \in DOMAIN s.rels |-> moved(s.rels[k])]
<1>1. EntityRenamed(s, i, to) = [entities |-> entities, rels |-> rels]
  BY DEF EntityRenamed, Each
<1>2. old \in Name /\ ForeignKeyTo(old) \in Name /\ ForeignKeyTo(to) \in Name
  BY SchemaParts, EntityParts, ForeignKeyToType
<1>3. \A n \in Name : follow(n) \in Name
  OBVIOUS
<1>. HIDE DEF old, follow
<1>4. ASSUME NEW e \in EntityRecord PROVE entity(e) \in EntityRecord
  <2>1. column(e) \in EntityRecord
    BY <1>2, ColumnRenamed
  <2>. HIDE DEF column
  <2>2. follow(column(e).name) \in Name
    BY <1>3, <2>1, EntityParts
  <2>. QED  BY <2>1, <2>2 DEF EntityRecord
<1>5. ASSUME NEW r \in RelRecord PROVE moved(r) \in RelRecord
  BY <1>3, RelParts, FollowType
<1>. HIDE DEF entity, moved
<1>6. entities \in [1..Len(s.entities) -> EntityRecord] /\ Len(s.entities) \in Nat
  BY <1>4, SchemaParts
<1>7. rels \in [1..Len(s.rels) -> RelRecord] /\ Len(s.rels) \in Nat
  BY <1>5, SchemaParts
<1>8. entities \in Seq(EntityRecord) /\ rels \in Seq(RelRecord)
  BY <1>6, <1>7
<1>. HIDE DEF entities, rels
<1>. QED  BY <1>1, <1>8 DEF Schema

\* The inductive invariant: an edit on its way to commit() counts already.
SchemaInv ==
    /\ TypeOK
    /\ mode = "committing" => passes = 0 /\ edits < MaxEdits

LEMMA Proposed ==
    ASSUME SchemaInv, NEW next \in Schema, Propose(next)
    PROVE  SchemaInv'
<1>1. mode = "editing" /\ edits < MaxEdits /\ passes = 0
  BY DEF Propose, SchemaInv, TypeOK
<1>2. mode' = "committing" /\ working' = next /\ UNCHANGED <<schema, passes, edits>>
  BY DEF Propose
<1>3. TypeOK'
  BY <1>1, <1>2 DEF SchemaInv, TypeOK
<1>. QED  BY <1>1, <1>2, <1>3 DEF SchemaInv

LEMMA EntitiesReplaced ==
    ASSUME NEW s \in Schema, NEW entities \in Seq(EntityRecord)
    PROVE  [s EXCEPT !.entities = entities] \in Schema
BY DEF Schema

LEMMA RelsReplaced ==
    ASSUME NEW s \in Schema, NEW rels \in Seq(RelRecord)
    PROVE  [s EXCEPT !.rels = rels] \in Schema
BY DEF Schema

LEMMA AddEntityType ==
    ASSUME SchemaInv, NEW name \in Name, NEW fields \in Seq(FieldRecord),
           NEW timestamps \in SUBSET Timestamps, AddEntity(name, fields, timestamps)
    PROVE  SchemaInv'
<1>. DEFINE e == [name |-> name, fields |-> fields, indexes |-> <<>>,
                  timestamps |-> timestamps]
            next == [schema EXCEPT !.entities = Append(schema.entities, e)]
<1>1. schema \in Schema
  BY DEF SchemaInv, TypeOK
<1>2. e \in EntityRecord
  BY DEF EntityRecord
<1>3. Propose(next)
  BY DEF AddEntity
<1>. HIDE DEF e
<1>4. Append(schema.entities, e) \in Seq(EntityRecord)
  BY <1>1, <1>2, SchemaParts
<1>5. next \in Schema
  BY <1>1, <1>4, EntitiesReplaced
<1>. HIDE DEF next
<1>. QED  BY <1>3, <1>5, Proposed

LEMMA RenameEntityType ==
    ASSUME SchemaInv, NEW i \in DOMAIN schema.entities, NEW to \in Name, RenameEntity(i, to)
    PROVE  SchemaInv'
<1>1. schema \in Schema
  BY DEF SchemaInv, TypeOK
<1>2. EntityRenamed(schema, i, to) \in Schema
  BY <1>1, EntityRenamedType
<1>. QED  BY <1>2, Proposed DEF RenameEntity

LEMMA RemoveEntityType ==
    ASSUME SchemaInv, NEW i \in DOMAIN schema.entities, RemoveEntity(i)
    PROVE  SchemaInv'
<1>. DEFINE name == schema.entities[i].name
            others == {k \in DOMAIN schema.entities : schema.entities[k].name # name}
            kept == AtPositions(schema.entities, others)
            far == {k \in DOMAIN schema.rels :
                        name \notin {schema.rels[k].from, schema.rels[k].to}}
            entities == [k \in DOMAIN kept |-> DropColumn(kept[k], ForeignKeyTo(name))]
            rels == AtPositions(schema.rels, far)
<1>1. schema \in Schema
  BY DEF SchemaInv, TypeOK
<1>2. Propose([entities |-> entities, rels |-> rels])
  BY DEF RemoveEntity, Each
<1>3. ForeignKeyTo(name) \in Name
  BY <1>1, SchemaParts, EntityParts, ForeignKeyToType
<1>4. others \subseteq DOMAIN schema.entities /\ far \subseteq DOMAIN schema.rels
  OBVIOUS
<1>. HIDE DEF name, others, far
<1>5. kept \in Seq(EntityRecord) /\ rels \in Seq(RelRecord)
  BY <1>1, <1>4, SchemaParts, AtPositionsType
<1>. HIDE DEF kept, rels
<1>6. entities \in [1..Len(kept) -> EntityRecord] /\ Len(kept) \in Nat
  BY <1>3, <1>5, ColumnDropped
<1>7. entities \in Seq(EntityRecord)
  BY <1>6
<1>. HIDE DEF entities
<1>8. [entities |-> entities, rels |-> rels] \in Schema
  BY <1>5, <1>7 DEF Schema
<1>. QED  BY <1>2, <1>8, Proposed

LEMMA AddFieldType ==
    ASSUME SchemaInv, NEW i \in DOMAIN schema.entities, NEW f \in FieldRecord, AddField(i, f)
    PROVE  SchemaInv'
<1>. DEFINE e == schema.entities[i]
            new == [e EXCEPT !.fields = Append(e.fields, f)]
<1>1. schema \in Schema
  BY DEF SchemaInv, TypeOK
<1>2. e \in EntityRecord
  BY <1>1, SchemaParts
<1>3. Append(e.fields, f) \in Seq(FieldRecord)
  BY <1>2, EntityParts
<1>4. Propose([schema EXCEPT !.entities[i] = new])
  BY DEF AddField
<1>5. new \in EntityRecord
  BY <1>2, <1>3, EntityWithFields
<1>. HIDE DEF new
<1>6. [schema EXCEPT !.entities[i] = new] \in Schema
  BY <1>1, <1>5, EntityReplaced
<1>. QED  BY <1>4, <1>6, Proposed

LEMMA UpdateFieldType ==
    ASSUME SchemaInv, NEW i \in DOMAIN schema.entities, NEW name,
           NEW type \in FieldType \cup DOMAIN TypeAlias,
           NEW values \in BOOLEAN, UpdateField(i, name, type, values)
    PROVE  SchemaInv'
<1>. DEFINE e == schema.entities[i]
            j == FindField(e, name)
            f == [e.fields[j] EXCEPT !.type = type, !.values = (type = "enum") /\ values]
            new == [e EXCEPT !.fields[j] = f]
<1>1. schema \in Schema
  BY DEF SchemaInv, TypeOK
<1>2. e \in EntityRecord
  BY <1>1, SchemaParts
<1>3. j # 0 /\ Propose([schema EXCEPT !.entities[i] = new])
  BY DEF UpdateField
<1>4. j \in DOMAIN e.fields /\ e.fields[j] \in FieldRecord
  BY <1>2, <1>3, FoundField, EntityParts
<1>. HIDE DEF j
<1>5. f \in FieldRecord
  <2>1. type \in Token
    BY RulesAssumption
  <2>. DEFINE v == (type = "enum") /\ values
  <2>2. v \in BOOLEAN
    OBVIOUS
  <2>. HIDE DEF v
  <2>3. [e.fields[j] EXCEPT !.type = type, !.values = v] \in FieldRecord
    BY <1>4, <2>1, <2>2 DEF FieldRecord
  <2>. QED  BY <2>3 DEF v
<1>. HIDE DEF f
<1>6. new \in EntityRecord
  BY <1>2, <1>4, <1>5, FieldKept
<1>. HIDE DEF new
<1>7. [schema EXCEPT !.entities[i] = new] \in Schema
  BY <1>1, <1>6, EntityReplaced
<1>. QED  BY <1>3, <1>7, Proposed

LEMMA RenameFieldType ==
    ASSUME SchemaInv, NEW i \in DOMAIN schema.entities, NEW name \in Name, NEW to \in Name,
           RenameField(i, name, to)
    PROVE  SchemaInv'
<1>. DEFINE e == schema.entities[i]
            j == FindField(e, name)
            f == [e.fields[j] EXCEPT !.name = to]
            renamed == [e EXCEPT !.fields[j] = f]
            new == RenameColumn(renamed, name, to)
<1>1. schema \in Schema
  BY DEF SchemaInv, TypeOK
<1>2. e \in EntityRecord
  BY <1>1, SchemaParts
<1>3. j # 0 /\ Propose([schema EXCEPT !.entities[i] = new])
  BY DEF RenameField
<1>4. j \in DOMAIN e.fields /\ e.fields[j] \in FieldRecord
  BY <1>2, <1>3, FoundField, EntityParts
<1>. HIDE DEF j
<1>5. f \in FieldRecord
  BY <1>4 DEF FieldRecord
<1>. HIDE DEF f
<1>6. renamed \in EntityRecord
  BY <1>2, <1>4, <1>5, FieldKept
<1>. HIDE DEF renamed
<1>7. new \in EntityRecord
  BY <1>6, ColumnRenamed
<1>. HIDE DEF new
<1>8. [schema EXCEPT !.entities[i] = new] \in Schema
  BY <1>1, <1>7, EntityReplaced
<1>. QED  BY <1>3, <1>8, Proposed

LEMMA RemoveFieldType ==
    ASSUME SchemaInv, NEW i \in DOMAIN schema.entities, NEW name \in Name, RemoveField(i, name)
    PROVE  SchemaInv'
<1>. DEFINE e == schema.entities[i]
            others == {k \in DOMAIN e.fields : e.fields[k].name # name}
            fields == AtPositions(e.fields, others)
            shorter == [e EXCEPT !.fields = fields]
            new == DropColumn(shorter, name)
<1>1. schema \in Schema
  BY DEF SchemaInv, TypeOK
<1>2. e \in EntityRecord
  BY <1>1, SchemaParts
<1>3. Propose([schema EXCEPT !.entities[i] = new])
  BY DEF RemoveField
<1>4. others \subseteq DOMAIN e.fields
  OBVIOUS
<1>. HIDE DEF others
<1>5. fields \in Seq(FieldRecord)
  BY <1>2, <1>4, EntityParts, AtPositionsType
<1>. HIDE DEF fields
<1>6. shorter \in EntityRecord
  BY <1>2, <1>5, EntityWithFields
<1>. HIDE DEF shorter
<1>7. new \in EntityRecord
  BY <1>6, ColumnDropped
<1>. HIDE DEF new
<1>8. [schema EXCEPT !.entities[i] = new] \in Schema
  BY <1>1, <1>7, EntityReplaced
<1>. QED  BY <1>3, <1>8, Proposed

LEMMA AddIndexType ==
    ASSUME SchemaInv, NEW i \in DOMAIN schema.entities, NEW index \in IndexRecord,
           AddIndex(i, index)
    PROVE  SchemaInv'
<1>. DEFINE e == schema.entities[i]
            new == [e EXCEPT !.indexes = Append(e.indexes, index)]
<1>1. schema \in Schema
  BY DEF SchemaInv, TypeOK
<1>2. e \in EntityRecord
  BY <1>1, SchemaParts
<1>3. Append(e.indexes, index) \in Seq(IndexRecord)
  BY <1>2, EntityParts
<1>4. Propose([schema EXCEPT !.entities[i] = new])
  BY DEF AddIndex
<1>5. new \in EntityRecord
  BY <1>2, <1>3, EntityWithIndexes
<1>. HIDE DEF new
<1>6. [schema EXCEPT !.entities[i] = new] \in Schema
  BY <1>1, <1>5, EntityReplaced
<1>. QED  BY <1>4, <1>6, Proposed

LEMMA AddRelationshipType ==
    ASSUME SchemaInv, NEW rel \in RelRecord, AddRelationship(rel)
    PROVE  SchemaInv'
<1>. DEFINE from == FindEntity(schema, rel.from)
            to == FindEntity(schema, rel.to)
            new == [rel EXCEPT !.from = schema.entities[from].name,
                               !.to = schema.entities[to].name]
<1>1. schema \in Schema
  BY DEF SchemaInv, TypeOK
<1>2. from # 0 /\ to # 0 /\ Propose([schema EXCEPT !.rels = Append(schema.rels, new)])
  BY DEF AddRelationship
<1>3. from \in DOMAIN schema.entities /\ to \in DOMAIN schema.entities
  BY <1>1, <1>2, FoundEntity
<1>. HIDE DEF from, to
<1>4. schema.entities[from].name \in Name /\ schema.entities[to].name \in Name
  BY <1>1, <1>3, SchemaParts, EntityParts
<1>5. new \in RelRecord
  BY <1>4, FollowType
<1>. HIDE DEF new
<1>6. Append(schema.rels, new) \in Seq(RelRecord)
  BY <1>1, <1>5, SchemaParts
<1>7. [schema EXCEPT !.rels = Append(schema.rels, new)] \in Schema
  BY <1>1, <1>6, RelsReplaced
<1>. QED  BY <1>2, <1>7, Proposed

LEMMA RemoveRelationshipType ==
    ASSUME SchemaInv, NEW rel, NEW byType, NEW byName, RemoveRelationship(rel, byType, byName)
    PROVE  SchemaInv'
<1>. DEFINE matches == {k \in DOMAIN schema.rels :
                /\ SameIgnoringCase(schema.rels[k].from, rel.from)
                /\ SameIgnoringCase(schema.rels[k].to, rel.to)
                /\ byType => schema.rels[k].type = rel.type
                /\ byName => schema.rels[k].toName = rel.toName}
            rels == AtPositions(schema.rels, DOMAIN schema.rels \ matches)
<1>1. schema \in Schema
  BY DEF SchemaInv, TypeOK
<1>2. Propose([schema EXCEPT !.rels = rels])
  BY DEF RemoveRelationship
<1>. HIDE DEF matches
<1>3. rels \in Seq(RelRecord)
  BY <1>1, SchemaParts, AtPositionsType
<1>. HIDE DEF rels
<1>4. [schema EXCEPT !.rels = rels] \in Schema
  BY <1>1, <1>3, RelsReplaced
<1>. QED  BY <1>2, <1>4, Proposed

LEMMA EditEntitiesType ==
    ASSUME SchemaInv, EditEntities
    PROVE  SchemaInv'
<1>0. Addressable \subseteq DOMAIN schema.entities /\ EntityName \subseteq Name
  BY ToolsAssumption DEF Addressable
<1>1. CASE \E n \in EntityName, fields \in {<<>>} \cup {<<f>> : f \in NewField},
              timestamps \in SUBSET Timestamps : AddEntity(n, fields, timestamps)
  <2>1. PICK n \in EntityName, fields \in {<<>>} \cup {<<f>> : f \in NewField},
              timestamps \in SUBSET Timestamps : AddEntity(n, fields, timestamps)
    BY <1>1
  <2>2. NewField \subseteq FieldRecord
    BY ToolsAssumption
  <2>3. /\ \A f \in FieldRecord : <<f>> \in Seq(FieldRecord)
        /\ <<>> \in Seq(FieldRecord)
    OBVIOUS
  <2>4. fields \in Seq(FieldRecord)
    <3>1. fields = <<>> \/ \E f \in NewField : fields = <<f>>
      OBVIOUS
    <3>. QED  BY <2>2, <2>3, <3>1
  <2>. QED  BY <1>0, <2>1, <2>4, AddEntityType
<1>2. CASE \E i \in Addressable : RemoveEntity(i) \/ \E n \in EntityName : RenameEntity(i, n)
  <2>1. PICK i \in Addressable : RemoveEntity(i) \/ \E n \in EntityName : RenameEntity(i, n)
    BY <1>2
  <2>2. CASE RemoveEntity(i)
    BY <1>0, <2>2, RemoveEntityType
  <2>3. CASE \E n \in EntityName : RenameEntity(i, n)
    BY <1>0, <2>3, RenameEntityType
  <2>. QED  BY <2>1, <2>2, <2>3
<1>. QED  BY <1>1, <1>2 DEF EditEntities

LEMMA EditFieldsType ==
    ASSUME SchemaInv, NEW i \in DOMAIN schema.entities, EditFields(i)
    PROVE  SchemaInv'
<1>1. CASE \E f \in NewField : AddField(i, f)
  BY <1>1, ToolsAssumption, AddFieldType
<1>2. CASE \E index \in NewIndex : AddIndex(i, index)
  BY <1>2, ToolsAssumption, AddIndexType
<1>3. CASE \E n \in FieldNames(schema, i) :
        \/ \E type \in FieldType \cup DOMAIN TypeAlias, values \in BOOLEAN :
                UpdateField(i, n, type, values)
        \/ \E to \in NewName : RenameField(i, n, to)
        \/ RemoveField(i, n)
  <2>1. PICK n \in FieldNames(schema, i) :
        \/ \E type \in FieldType \cup DOMAIN TypeAlias, values \in BOOLEAN :
                UpdateField(i, n, type, values)
        \/ \E to \in NewName : RenameField(i, n, to)
        \/ RemoveField(i, n)
    BY <1>3
  <2>2. n \in Name
    <3>1. schema \in Schema
      BY DEF SchemaInv, TypeOK
    <3>2. \A j \in DOMAIN schema.entities[i].fields : schema.entities[i].fields[j].name \in Name
      BY <3>1, SchemaParts, EntityParts DEF FieldRecord
    <3>. QED  BY <3>2 DEF FieldNames
  <2>3. CASE \E type \in FieldType \cup DOMAIN TypeAlias, values \in BOOLEAN :
                UpdateField(i, n, type, values)
    BY <2>3, UpdateFieldType
  <2>4. CASE \E to \in NewName : RenameField(i, n, to)
    BY <2>2, <2>4, ToolsAssumption, RenameFieldType
  <2>5. CASE RemoveField(i, n)
    BY <2>2, <2>5, RemoveFieldType
  <2>. QED  BY <2>1, <2>3, <2>4, <2>5
<1>. QED  BY <1>1, <1>2, <1>3 DEF EditFields

LEMMA EditRelationshipsType ==
    ASSUME SchemaInv, EditRelationships
    PROVE  SchemaInv'
<1>1. CASE \E rel \in NewRel : AddRelationship(rel)
  BY <1>1, ToolsAssumption, AddRelationshipType
<1>2. CASE \E rel \in Range(schema.rels), byType, byName \in BOOLEAN :
            RemoveRelationship(rel, byType, byName)
  BY <1>2, RemoveRelationshipType
<1>. QED  BY <1>1, <1>2 DEF EditRelationships

\* The fix of the first fixable finding is a fix of a finding.
LEMMA FixPassKeeps ==
    ASSUME NEW s \in Schema, ~Fixed(s), NEW t \in Findings(s)[NextFix(Findings(s))].fixed
    PROVE  Keeps(s, t)
<1>. DEFINE found == Findings(s)
            Q == {i \in 1..Len(found) : found[i].fixable}
            n == NextFix(found)
<1>1. Sound(s, found)
  BY FindingsSound
<1>2. n = IF Q # {} THEN Min(Q) ELSE 0
  BY DEF NextFix, SelectInSeq
<1>3. n # 0
  BY DEF Fixed
<1>. SUFFICES ASSUME t \in found[n].fixed PROVE Keeps(s, t)
  OBVIOUS
<1>. HIDE DEF found, n
<1>4. Len(found) \in Nat /\ DOMAIN found = 1..Len(found)
  BY <1>1 DEF Sound
<1>5. n \in DOMAIN found
  <2>1. Q \subseteq 1..Len(found) /\ Q \subseteq Nat
    BY <1>4
  <2>. HIDE DEF Q
  <2>. QED  BY <1>2, <1>3, <1>4, <2>1, FirstOf
<1>6. found[n] \in Range(found)
  BY <1>5 DEF Range
<1>. QED  BY <1>1, <1>6 DEF Sound

LEMMA SchemaInvStep ==
    ASSUME SchemaInv, [Next]_vars
    PROVE  SchemaInv'
<1>0. /\ schema \in Schema /\ working \in Schema
      /\ edits \in 0..MaxEdits /\ passes \in 0..MaxPasses
      /\ MaxEdits \in Nat /\ MaxPasses \in Nat
  BY ToolsAssumption DEF SchemaInv, TypeOK
<1>1. CASE EditEntities
  BY <1>1, EditEntitiesType
<1>2. CASE \E i \in Addressable : EditFields(i)
  BY <1>2, EditFieldsType DEF Addressable
<1>3. CASE EditRelationships
  BY <1>3, EditRelationshipsType
<1>4. CASE Commit
  BY <1>0, <1>4 DEF Commit, SchemaInv, TypeOK
<1>5. CASE Reject
  BY <1>0, <1>5 DEF Reject, SchemaInv, TypeOK
<1>6. CASE StartFix
  BY <1>0, <1>6 DEF StartFix, SchemaInv, TypeOK
<1>7. CASE FixPass
  <2>1. /\ mode = "fixing" /\ passes < MaxPasses /\ ~Fixed(working)
        /\ working' \in Findings(working)[NextFix(Findings(working))].fixed
        /\ passes' = passes + 1 /\ UNCHANGED <<schema, mode, edits>>
    BY <1>7 DEF FixPass
  <2>2. Keeps(working, working')
    BY <1>0, <2>1, FixPassKeeps
  <2>3. working' \in Schema
    BY <2>2 DEF Keeps
  <2>. QED  BY <1>0, <2>1, <2>3 DEF SchemaInv, TypeOK
<1>8. CASE FixDone
  BY <1>0, <1>8 DEF FixDone, SchemaInv, TypeOK
<1>9. CASE UNCHANGED vars
  BY <1>9 DEF vars, SchemaInv, TypeOK
<1>. QED  BY <1>1, <1>2, <1>3, <1>4, <1>5, <1>6, <1>7, <1>8, <1>9 DEF Next

LEMMA SchemaInvHolds == Spec => []SchemaInv
<1>1. Init => SchemaInv
  BY ToolsAssumption DEF Init, SchemaInv, TypeOK
<1>2. SchemaInv /\ [Next]_vars => SchemaInv'
  BY SchemaInvStep
<1>. QED  BY <1>1, <1>2, PTL DEF Spec

-----------------------------------------------------------------------------
(* The sides that generate something, in their order.                      *)

Sorted(w, f) == \A k, l \in DOMAIN f : k < l => w[f[k]] < w[f[l]]

LEMMA ConcatSorted ==
    ASSUME NEW S, NEW w \in [S -> Int], NEW f \in Seq(S), NEW g \in Seq(S),
           Sorted(w, f), Sorted(w, g),
           \A x \in Range(f), y \in Range(g) : w[x] < w[y]
    PROVE  Sorted(w, f \o g)
<1>. DEFINE h == f \o g
            m == Len(f)
<1>0. m \in Nat /\ Len(g) \in Nat /\ DOMAIN f = 1..m /\ DOMAIN g = 1..Len(g)
      /\ DOMAIN h = 1..(m + Len(g))
  OBVIOUS
<1>1. ASSUME NEW k \in DOMAIN h
      PROVE  \/ k \in DOMAIN f /\ h[k] = f[k]
             \/ k - m \in DOMAIN g /\ k > m /\ h[k] = g[k - m]
  BY <1>0
<1>. HIDE DEF h, m
<1>2. ASSUME NEW k \in DOMAIN h, NEW l \in DOMAIN h, k < l PROVE w[h[k]] < w[h[l]]
  <2>1. CASE k \in DOMAIN f /\ h[k] = f[k] /\ l \in DOMAIN f /\ h[l] = f[l]
    BY <1>2, <2>1 DEF Sorted
  <2>2. CASE k \in DOMAIN f /\ h[k] = f[k] /\ l - m \in DOMAIN g /\ h[l] = g[l - m]
    <3>1. f[k] \in Range(f) /\ g[l - m] \in Range(g)
      BY <2>2 DEF Range
    <3>. QED  BY <2>2, <3>1
  <2>3. CASE k - m \in DOMAIN g /\ h[k] = g[k - m] /\ l - m \in DOMAIN g /\ h[l] = g[l - m]
    <3>1. k - m < l - m
      BY <1>0, <1>2
    <3>. QED  BY <2>3, <3>1 DEF Sorted
  <2>4. ~(k - m \in DOMAIN g /\ k > m /\ l \in DOMAIN f)
    BY <1>0, <1>2
  <2>. QED  BY <1>1, <2>1, <2>2, <2>3, <2>4
<1>. QED  BY <1>2 DEF Sorted, h

LEMMA FlattenSorted ==
    ASSUME NEW S, NEW n \in Nat, NEW seqs \in [1..n -> Seq(S)], NEW w \in [S -> Int],
           \A i \in 1..n : Sorted(w, seqs[i]),
           \A i, j \in 1..n : i < j =>
              \A x \in Range(seqs[i]), y \in Range(seqs[j]) : w[x] < w[y]
    PROVE  Sorted(w, FlattenSeq(seqs))
<1>1. CASE n = 0
  <2>1. seqs \in Seq(Seq(S)) /\ Len(seqs) = 0 /\ DOMAIN seqs = {}
    BY <1>1
  <2>2. FlattenSeq(seqs) = seqs
    BY <2>1 DEF FlattenSeq
  <2>. QED  BY <2>1, <2>2 DEF Sorted
<1>2. CASE n # 0
  <2>1. PICK flat : Joins(flat, seqs, n) /\ flat \in [1..n -> Seq(S)] /\ FlattenSeq(seqs) = flat[n]
    BY <1>2, FlattenIs
  <2>. DEFINE Below(i) == \A j \in 1..n : i < j =>
                  \A x \in Range(flat[i]), y \in Range(seqs[j]) : w[x] < w[y]
              Done(i) == Sorted(w, flat[i]) /\ Below(i)
              G == {i \in Nat : i \in 1..n => Done(i)}
  <2>3. ASSUME NEW i \in Nat, i \in 1..n => Done(i), i + 1 \in 1..n PROVE Done(i + 1)
    <3>1. CASE i = 0
      <4>1. 1 \in 1..n /\ i + 1 = 1
        BY <2>3, <3>1
      <4>2. flat[1] = seqs[1]
        BY <2>1, <4>1 DEF Joins
      <4>. QED  BY <4>1, <4>2
    <3>2. CASE i # 0
      <4>1. i \in 1..n /\ i + 1 # 1 /\ (i + 1) - 1 = i
        BY <2>3, <3>2
      <4>2. flat[i + 1] = flat[i] \o seqs[i + 1]
        BY <2>1, <2>3, <4>1 DEF Joins
      <4>3. flat[i] \in Seq(S) /\ seqs[i + 1] \in Seq(S) /\ Sorted(w, seqs[i + 1])
        BY <2>1, <2>3, <4>1
      <4>4. Sorted(w, flat[i]) /\ Below(i)
        BY <2>3, <4>1
      <4>5. \A x \in Range(flat[i]), y \in Range(seqs[i + 1]) : w[x] < w[y]
        BY <2>3, <4>4
      <4>. HIDE DEF Below
      <4>6. Sorted(w, flat[i + 1])
        BY <4>2, <4>3, <4>4, <4>5, ConcatSorted
      <4>7. Range(flat[i + 1]) = Range(flat[i]) \cup Range(seqs[i + 1])
        BY <4>2, <4>3, ConcatRange
      <4>8. ASSUME NEW j \in 1..n, i + 1 < j, NEW x \in Range(flat[i + 1]), NEW y \in Range(seqs[j])
            PROVE  w[x] < w[y]
        <5>1. CASE x \in Range(flat[i])
          <6>1. i < j
            BY <4>8
          <6>. QED  BY <4>4, <5>1, <6>1, <4>8 DEF Below
        <5>2. CASE x \in Range(seqs[i + 1])
          BY <2>3, <4>8, <5>2
        <5>. QED  BY <4>7, <4>8, <5>1, <5>2
      <4>9. Below(i + 1)
        BY <4>8 DEF Below
      <4>. QED  BY <4>6, <4>9
    <3>. QED  BY <3>1, <3>2
  <2>4. Nat \subseteq G
    <3>. HIDE DEF Done
    <3>1. 0 \in G
      OBVIOUS
    <3>2. ASSUME NEW i \in Nat, i \in G PROVE i + 1 \in G
      <4>1. i \in 1..n => Done(i)
        BY <3>2
      <4>2. i + 1 \in 1..n => Done(i + 1)
        <5>. HIDE DEF G
        <5>. QED  BY <2>3, <4>1
      <4>3. i + 1 \in Nat
        OBVIOUS
      <4>. QED  BY <4>2, <4>3
    <3>. HIDE DEF G
    <3>. QED  BY <3>1, <3>2, ClimbsForever
  <2>5. n \in 1..n
    BY <1>2
  <2>. QED  BY <2>1, <2>4, <2>5
<1>. QED  BY <1>1, <1>2

\* The sides of one relationship: the declaring end, then the other.
LEMMA SidesOfShape ==
    ASSUME NEW rels, NEW i, NEW k \in DOMAIN SidesOf(i, rels[i], InverseOf(rels, rels[i]))
    PROVE  LET row == SidesOf(i, rels[i], InverseOf(rels, rels[i]))
           IN  /\ row[k].rel = i /\ (row[k].isFrom <=> k = 1)
               /\ DOMAIN row \subseteq 1..2
<1>. DEFINE rel == rels[i]
            inverse == InverseOf(rels, rels[i])
            row == SidesOf(i, rel, inverse)
            here == [entity |-> rel.from, other |-> rel.to, type |-> rel.type,
                     ref |-> RefOf(rel), rel |-> i, isFrom |-> TRUE]
            there(type, ref) ==
                [entity |-> rel.to, other |-> rel.from, type |-> type,
                 ref |-> ref, rel |-> i, isFrom |-> FALSE]
            names == {d.toName : d \in inverse} \ {NoName}
            ref == IF names # {} THEN CHOOSE n \in names : TRUE ELSE rel.from
<1>1. \/ row = <<here, there("OneToMany", rel.from)>>
      \/ row = <<here, there("ManyToOne", rel.from)>>
      \/ row = <<here, there(rel.type, ref)>>
      \/ row = <<here>>
      \/ row = <<>>
  <2>. HIDE DEF inverse, rel
  <2>. QED  BY DEF SidesOf
<1>2. here.rel = i /\ here.isFrom
  OBVIOUS
<1>3. \A type, r : there(type, r).rel = i /\ ~there(type, r).isFrom
  OBVIOUS
<1>. HIDE DEF here, there, ref, names
<1>4. \/ \E other : row = <<here, other>> /\ other.rel = i /\ ~other.isFrom
      \/ row = <<here>>
      \/ row = <<>>
  BY <1>1, <1>3
<1>. HIDE DEF row
<1>5. CASE \E other : row = <<here, other>> /\ other.rel = i /\ ~other.isFrom
  <2>1. PICK other : row = <<here, other>> /\ other.rel = i /\ ~other.isFrom
    BY <1>5
  <2>2. DOMAIN row = 1..2 /\ row[1] = here /\ row[2] = other
    BY <2>1
  <2>3. k \in DOMAIN row
    BY DEF row
  <2>4. k = 1 \/ k = 2
    BY <2>2, <2>3
  <2>5. row[k].rel = i /\ (row[k].isFrom <=> k = 1)
    BY <1>2, <2>1, <2>2, <2>4
  <2>. QED  BY <2>2, <2>5 DEF row
<1>6. CASE row = <<here>>
  <2>2. DOMAIN row = 1..1 /\ row[1] = here
    BY <1>6
  <2>3. k \in DOMAIN row
    BY DEF row
  <2>4. k = 1 /\ 1..1 \subseteq 1..2
    BY <2>2, <2>3
  <2>5. row[k].rel = i /\ (row[k].isFrom <=> k = 1)
    BY <1>2, <2>2, <2>4
  <2>. QED  BY <2>2, <2>4, <2>5 DEF row
<1>7. CASE row = <<>>
  BY <1>7 DEF row
<1>. QED  BY <1>4, <1>5, <1>6, <1>7

LEMMA SidesSorted ==
    ASSUME NEW s \in Schema, NEW w \in [SideRecord(s) -> Int],
           \A d \in SideRecord(s) : w[d] = 2 * d.rel + (IF d.isFrom THEN 0 ELSE 1)
    PROVE  Sides(s.rels) \in Seq(SideRecord(s)) /\ Sorted(w, Sides(s.rels))
<1>. DEFINE n == Len(s.rels)
            S == SideRecord(s)
            row(i) == SidesOf(i, s.rels[i], InverseOf(s.rels, s.rels[i]))
            rows == [i \in DOMAIN s.rels |-> row(i)]
<1>1. n \in Nat /\ DOMAIN s.rels = 1..n /\ rows \in [1..n -> Seq(S)]
  BY SchemaParts, SidesOfType
<1>2. Sides(s.rels) = FlattenSeq(rows)
  BY DEF Sides
<1>3. \A i \in 1..n : rows[i] = row(i)
  BY <1>1
<1>4. \A i \in 1..n : \A k \in DOMAIN row(i) :
        row(i)[k].rel = i /\ (row(i)[k].isFrom <=> k = 1) /\ DOMAIN row(i) \subseteq 1..2
  BY SidesOfShape
<1>. HIDE DEF rows, row, n
<1>5. ASSUME NEW i \in 1..n, NEW k \in DOMAIN rows[i]
      PROVE  /\ rows[i][k] \in S /\ k \in 1..2
             /\ w[rows[i][k]] = 2 * i + (IF k = 1 THEN 0 ELSE 1)
  <2>1. rows[i][k] \in S
    BY <1>1
  <2>2. rows[i][k].rel = i /\ (rows[i][k].isFrom <=> k = 1) /\ k \in 1..2
    BY <1>3, <1>4
  <2>3. w[rows[i][k]] = 2 * rows[i][k].rel + (IF rows[i][k].isFrom THEN 0 ELSE 1)
    BY <2>1
  <2>4. CASE k = 1
    BY <2>1, <2>2, <2>3, <2>4
  <2>5. CASE k # 1
    BY <2>1, <2>2, <2>3, <2>5
  <2>. QED  BY <2>4, <2>5
<1>6. \A i \in 1..n : Sorted(w, rows[i])
  <2>. SUFFICES ASSUME NEW i \in 1..n, NEW k \in DOMAIN rows[i], NEW l \in DOMAIN rows[i], k < l
                PROVE  w[rows[i][k]] < w[rows[i][l]]
    BY DEF Sorted
  <2>1. k = 1 /\ l = 2
    BY <1>5
  <2>2. w[rows[i][1]] = 2 * i /\ w[rows[i][2]] = 2 * i + 1
    <3>1. 1 \in DOMAIN rows[i] /\ 2 \in DOMAIN rows[i]
      BY <2>1
    <3>2. w[rows[i][1]] = 2 * i + (IF 1 = 1 THEN 0 ELSE 1)
          /\ w[rows[i][2]] = 2 * i + (IF 2 = 1 THEN 0 ELSE 1)
      BY <1>5, <3>1
    <3>. QED  BY <3>2, <1>1
  <2>. QED  BY <1>1, <2>1, <2>2
<1>7. \A i, j \in 1..n : i < j =>
        \A x \in Range(rows[i]), y \in Range(rows[j]) : w[x] < w[y]
  <2>. SUFFICES ASSUME NEW i \in 1..n, NEW j \in 1..n, i < j,
                       NEW k \in DOMAIN rows[i], NEW l \in DOMAIN rows[j]
                PROVE  w[rows[i][k]] < w[rows[j][l]]
    BY DEF Range
  <2>1. w[rows[i][k]] <= 2 * i + 1 /\ w[rows[j][l]] >= 2 * j
    <3>1. w[rows[i][k]] = 2 * i + (IF k = 1 THEN 0 ELSE 1)
          /\ w[rows[j][l]] = 2 * j + (IF l = 1 THEN 0 ELSE 1)
      BY <1>5
    <3>. QED  BY <1>1, <3>1
  <2>2. w[rows[i][k]] \in Int /\ w[rows[j][l]] \in Int
    BY <1>5
  <2>. QED  BY <1>1, <2>1, <2>2
<1>. HIDE DEF S
<1>8. w \in [S -> Int]
  BY DEF S
<1>9. FlattenSeq(rows) \in Seq(S)
  BY <1>1, FlattenType
<1>10. Sorted(w, FlattenSeq(rows))
  BY <1>1, <1>6, <1>7, <1>8, FlattenSorted
<1>. QED  BY <1>2, <1>9, <1>10 DEF S

\* What Distinct leaves is what generates something.
LEMMA DistinctIs ==
    ASSUME NEW s \in Schema
    PROVE  /\ Distinct(Sides(s.rels)) \in Seq(SideRecord(s))
           /\ Range(Distinct(Sides(s.rels))) = GeneratingSides(s)
<1>. DEFINE S == SideRecord(s)
            all == Sides(s.rels)
            key(d) == <<d.entity, d.other, d.ref>>
            before(c, d) == c.rel < d.rel \/ (c.rel = d.rel /\ c.isFrom /\ ~d.isFrom)
            w == [d \in S |-> 2 * d.rel + (IF d.isFrom THEN 0 ELSE 1)]
            first == {k \in DOMAIN all : \A i \in 1..(k - 1) : key(all[i]) # key(all[k])}
<1>1. \A d \in S : d.rel \in Int /\ d.isFrom \in BOOLEAN
  BY SchemaParts DEF SideRecord
<1>2. w \in [S -> Int] /\ \A d \in S : w[d] = 2 * d.rel + (IF d.isFrom THEN 0 ELSE 1)
  <2>. HIDE DEF S
  <2>. QED  BY <1>1
<1>. HIDE DEF w
<1>3. all \in Seq(S) /\ Sorted(w, all)
  BY <1>2, SidesSorted
<1>4. \A c, d \in S : before(c, d) <=> w[c] < w[d]
  <2>. HIDE DEF S
  <2>. TAKE c, d \in S
  <2>1. c.rel \in Int /\ d.rel \in Int /\ c.isFrom \in BOOLEAN /\ d.isFrom \in BOOLEAN
    BY <1>1
  <2>2. w[c] = 2 * c.rel + (IF c.isFrom THEN 0 ELSE 1) /\ w[d] = 2 * d.rel + (IF d.isFrom THEN 0 ELSE 1)
    BY <1>2
  <2>3. w[c] \in {2 * c.rel, 2 * c.rel + 1} /\ w[d] \in {2 * d.rel, 2 * d.rel + 1}
    <3>1. (IF c.isFrom THEN 0 ELSE 1) \in {0, 1} /\ (IF d.isFrom THEN 0 ELSE 1) \in {0, 1}
      OBVIOUS
    <3>2. 2 * c.rel \in Int /\ 2 * d.rel \in Int /\ 2 * c.rel + 0 = 2 * c.rel /\ 2 * d.rel + 0 = 2 * d.rel
      BY <2>1
    <3>. QED  BY <2>2, <3>1, <3>2
  <2>4. CASE c.rel # d.rel
    <3>1. before(c, d) <=> c.rel < d.rel
      BY <2>4
    <3>. HIDE DEF before
    <3>. QED  BY <2>1, <2>3, <2>4, <3>1
  <2>5. CASE c.rel = d.rel
    <3>1. before(c, d) <=> c.isFrom /\ ~d.isFrom
      BY <2>1, <2>5
    <3>. HIDE DEF before
    <3>2. CASE c.isFrom
      BY <2>1, <2>2, <2>5, <3>1, <3>2
    <3>3. CASE ~c.isFrom
      BY <2>1, <2>2, <2>5, <3>1, <3>3
    <3>. QED  BY <3>2, <3>3
  <2>. QED  BY <2>4, <2>5
<1>5. GeneratingSides(s) = {d \in Range(all) : ~\E c \in Range(all) : key(c) = key(d) /\ before(c, d)}
  BY DEF GeneratingSides
<1>6. Distinct(all) = AtPositions(all, first)
  BY DEF Distinct
<1>. HIDE DEF all, key, before, S
<1>7. DOMAIN all = 1..Len(all) /\ Len(all) \in Nat /\ first \subseteq DOMAIN all
      /\ \A k \in DOMAIN all : all[k] \in S
  BY <1>3
<1>8. Distinct(all) \in Seq(S) /\ Range(Distinct(all)) = {all[k] : k \in first}
  BY <1>3, <1>6, <1>7, AtPositionsType, AtPositionsRange
<1>9. ASSUME NEW k \in first PROVE all[k] \in GeneratingSides(s)
  <2>1. all[k] \in Range(all)
    BY DEF Range
  <2>2. ASSUME NEW m \in DOMAIN all, key(all[m]) = key(all[k]), before(all[m], all[k]) PROVE FALSE
    <3>1. w[all[m]] < w[all[k]] /\ w[all[m]] \in Int /\ w[all[k]] \in Int
      BY <1>2, <1>4, <1>7, <2>2
    <3>2. ~(k < m) /\ k # m
      BY <1>3, <1>7, <3>1 DEF Sorted
    <3>3. m \in 1..(k - 1)
      BY <1>7, <3>2
    <3>. QED  BY <2>2, <3>3
  <2>. QED  BY <1>5, <2>1, <2>2 DEF Range
<1>10. ASSUME NEW d \in GeneratingSides(s) PROVE \E k \in first : d = all[k]
  <2>1. PICK k \in DOMAIN all : d = all[k]
    BY <1>5 DEF Range
  <2>2. ASSUME NEW i \in 1..(k - 1), key(all[i]) = key(all[k]) PROVE FALSE
    <3>1. i \in DOMAIN all /\ i < k
      BY <1>7
    <3>2. w[all[i]] < w[all[k]]
      BY <1>3, <3>1 DEF Sorted
    <3>3. before(all[i], all[k]) /\ all[i] \in Range(all)
      BY <1>4, <1>7, <3>1, <3>2 DEF Range
    <3>. QED  BY <1>5, <2>1, <2>2, <3>3
  <2>. QED  BY <2>1, <2>2
<1>. QED  BY <1>8, <1>9, <1>10 DEF all, S

LEMMA GivenBy ==
    ASSUME NEW s \in Schema, NEW d \in SideRecord(s)
    PROVE  /\ GeneratedBy(d) \in Seq(PropertyRecord(s))
           /\ \A p \in Range(GeneratedBy(d)) : p.side = d /\ p.entity = d.entity
<1>. DEFINE P == PropertyRecord(s)
            own == Property(BaseName(d), FALSE, d)
            key == Property(ForeignKey(BaseName(d)), TRUE, d)
<1>1. d.ref \in Name /\ d.entity \in Name
  BY DEF SideRecord
<1>2. BaseName(d) \in Name
  BY <1>1, CamelCaseType, PluralizeType DEF BaseName
<1>3. ForeignKey(BaseName(d)) \in Name
  BY <1>2, ForeignKeyType
<1>4. own \in P /\ key \in P
  BY <1>1, <1>2, <1>3 DEF Property, PropertyRecord
<1>5. \A p \in {own, key} : p.side = d /\ p.entity = d.entity
  BY DEF Property
<1>6. GeneratedBy(d) = <<own>> \o IF d.type = "ManyToOne" THEN <<key>> ELSE <<>>
  BY DEF GeneratedBy
<1>. HIDE DEF own, key, P
<1>. DEFINE more == IF d.type = "ManyToOne" THEN <<key>> ELSE <<>>
<1>7. /\ <<own>> \in Seq(P) /\ Range(<<own>>) = {own}
      /\ more \in Seq(P) /\ Range(more) \subseteq {key}
  <2>1. <<own>> \in Seq(P) /\ <<key>> \in Seq(P) /\ <<>> \in Seq(P)
    BY <1>4
  <2>2. Range(<<own>>) = {own} /\ Range(<<key>>) = {key} /\ Range(<<>>) = {}
    <3>1. \A x : DOMAIN <<x>> = {1} /\ <<x>>[1] = x
      OBVIOUS
    <3>2. DOMAIN <<>> = {}
      OBVIOUS
    <3>. QED  BY <3>1, <3>2, Zenon DEF Range
  <2>3. more = <<key>> \/ more = <<>>
    OBVIOUS
  <2>. HIDE DEF more
  <2>. QED  BY <2>1, <2>2, <2>3
<1>. HIDE DEF more
<1>8. GeneratedBy(d) \in Seq(P) /\ Range(GeneratedBy(d)) \subseteq {own, key}
  <2>1. GeneratedBy(d) = <<own>> \o more
    BY <1>6 DEF more
  <2>2. <<own>> \o more \in Seq(P)
    BY <1>7
  <2>3. Range(<<own>> \o more) = {own} \cup Range(more)
    <3>. DEFINE first == <<own>>
    <3>. HIDE DEF first
    <3>1. first \in Seq(P) /\ more \in Seq(P)
      BY <1>7 DEF first
    <3>2. Range(first \o more) = Range(first) \cup Range(more)
      BY <3>1, ConcatRange
    <3>3. Range(<<own>> \o more) = Range(<<own>>) \cup Range(more)
      BY <3>2 DEF first
    <3>. QED  BY <1>7, <3>3
  <2>. QED  BY <1>7, <2>1, <2>2, <2>3
<1>. QED  BY <1>5, <1>8 DEF P

\* What is generated, and for which sides.
LEMMA GeneratedIs ==
    ASSUME NEW s \in Schema
    PROVE  Range(Generated(s.rels)) = UNION {Range(GeneratedBy(d)) : d \in GeneratingSides(s)}
<1>. DEFINE sides == Distinct(Sides(s.rels))
            P == PropertyRecord(s)
            rows == [k \in DOMAIN sides |-> GeneratedBy(sides[k])]
<1>1. sides \in Seq(SideRecord(s)) /\ Range(sides) = GeneratingSides(s)
  BY DistinctIs
<1>2. Generated(s.rels) = FlattenSeq(rows)
  BY DEF Generated, GeneratedFor
<1>. HIDE DEF sides, P
<1>3. Len(sides) \in Nat /\ DOMAIN sides = 1..Len(sides)
  BY <1>1
<1>4. \A k \in DOMAIN sides : GeneratedBy(sides[k]) \in Seq(P)
  BY <1>1, GivenBy DEF P
<1>5. rows \in [1..Len(sides) -> Seq(P)]
  BY <1>3, <1>4
<1>6. Range(FlattenSeq(rows)) = UNION {Range(rows[k]) : k \in 1..Len(sides)}
  BY <1>3, <1>5, FlattenRange
<1>7. \A k \in DOMAIN sides : rows[k] = GeneratedBy(sides[k])
  OBVIOUS
<1>. HIDE DEF rows
<1>8. UNION {Range(rows[k]) : k \in 1..Len(sides)} = UNION {Range(GeneratedBy(d)) : d \in Range(sides)}
  <2>1. {rows[k] : k \in 1..Len(sides)} = {GeneratedBy(d) : d \in Range(sides)}
    BY <1>3, <1>7 DEF Range
  <2>2. ASSUME NEW p, NEW k \in 1..Len(sides), p \in Range(rows[k])
        PROVE  \E d \in Range(sides) : p \in Range(GeneratedBy(d))
    <3>1. rows[k] = GeneratedBy(sides[k]) /\ sides[k] \in Range(sides)
      BY <1>3, <1>7 DEF Range
    <3>. QED  BY <2>2, <3>1
  <2>3. ASSUME NEW p, NEW d \in Range(sides), p \in Range(GeneratedBy(d))
        PROVE  \E k \in 1..Len(sides) : p \in Range(rows[k])
    <3>1. PICK k \in DOMAIN sides : d = sides[k]
      BY DEF Range
    <3>. QED  BY <1>3, <1>7, <2>3, <3>1
  <2>. QED  BY <2>2, <2>3
<1>. QED  BY <1>1, <1>2, <1>6, <1>8

-----------------------------------------------------------------------------
(* A rule finds something exactly where it should.                         *)

\* Findings that are errors, and that there are none of exactly when good.
Detects(found, good) ==
    /\ \A f \in Range(found) : f.severity = "error"
    /\ Range(found) = {} <=> good

LEMMA Severities ==
    ASSUME NEW rule, NEW entity, NEW field, NEW rel, NEW t
    PROVE  /\ Error(rule, entity, field, rel).severity = "error"
           /\ FixedBy(Error(rule, entity, field, rel), t).severity = "error"
           /\ FixedBy(Warning(rule, entity, field, rel), t).severity = "warning"
BY DEF Error, Warning, Finding, FixedBy

LEMMA EachDetects ==
    ASSUME NEW places, NEW found, found = [k \in DOMAIN places |-> found[k]],
           \A k \in DOMAIN places : found[k].severity = "error",
           NEW good \in BOOLEAN, Range(places) = {} <=> good
    PROVE  Detects(found, good)
<1>1. DOMAIN found = DOMAIN places
  OBVIOUS
<1>2. Range(found) = {} <=> Range(places) = {}
  BY <1>1 DEF Range
<1>3. \A f \in Range(found) : f.severity = "error"
  BY <1>1 DEF Range
<1>. QED  BY <1>2, <1>3 DEF Detects

\* Where a name repeats, some occurrence is the second one.
LEMMA SecondOccurs ==
    ASSUME NEW n \in Nat, NEW name
    PROVE  {i \in 1..n : Cardinality({j \in 1..(i - 1) : name[j] = name[i]}) = 1} = {}
           <=> \A i, j \in 1..n : i # j => name[i] # name[j]
<1>. DEFINE earlier(i) == {j \in 1..(i - 1) : name[j] = name[i]}
            repeats == {i \in 1..n : earlier(i) # {}}
            apart == \A i, j \in 1..n : i # j => name[i] # name[j]
<1>1. apart => repeats = {}
  OBVIOUS
<1>2. ASSUME ~apart PROVE repeats # {}
  <2>1. PICK i \in 1..n, j \in 1..n : i # j /\ name[i] = name[j]
    BY <1>2
  <2>2. i < j => i \in earlier(j)
    BY <2>1
  <2>3. j < i => j \in earlier(i)
    BY <2>1
  <2>4. i < j \/ j < i
    BY <2>1
  <2>. QED  BY <2>2, <2>3, <2>4
<1>3. ASSUME repeats # {} PROVE \E i \in 1..n : Cardinality(earlier(i)) = 1
  <2>1. PICK i \in repeats : \A k \in repeats : i <= k
    <3>1. repeats \subseteq Nat
      OBVIOUS
    <3>. HIDE DEF repeats
    <3>. QED  BY <1>3, <3>1, LeastOf
  <2>2. PICK j \in 1..(i - 1) : name[j] = name[i]
    OBVIOUS
  <2>3. ASSUME NEW k \in earlier(i), k # j PROVE FALSE
    <3>1. k < j \/ j < k
      BY <2>3
    <3>2. CASE k < j
      <4>1. k \in earlier(j) /\ j \in 1..n /\ j < i
        BY <2>2, <3>2
      <4>2. j \in repeats
        BY <4>1
      <4>. QED  BY <2>1, <4>1, <4>2
    <3>3. CASE j < k
      <4>1. j \in earlier(k) /\ k \in 1..n /\ k < i
        BY <2>2, <3>3
      <4>2. k \in repeats
        BY <4>1
      <4>. QED  BY <2>1, <4>1, <4>2
    <3>. QED  BY <3>1, <3>2, <3>3
  <2>4. earlier(i) = {j}
    BY <2>2, <2>3
  <2>. QED  BY <2>4, FS_Singleton
<1>4. ASSUME NEW i \in 1..n, Cardinality(earlier(i)) = 1 PROVE i \in repeats
  <2>1. earlier(i) # {}
    BY <1>4, FS_EmptySet
  <2>. QED  BY <2>1
<1>. HIDE DEF apart, earlier, repeats
<1>5. {i \in 1..n : Cardinality(earlier(i)) = 1} = {} <=> apart
  BY <1>1, <1>2, <1>3, <1>4
<1>. QED  BY <1>5 DEF apart, earlier

LEMMA DuplicateEntityNamesExact ==
    ASSUME NEW s \in Schema
    PROVE  Detects(DuplicateEntityNames(s),
                   \A i, j \in DOMAIN s.entities : i # j => s.entities[i].name # s.entities[j].name)
<1>. DEFINE n == Len(s.entities)
            name == [i \in 1..n |-> s.entities[i].name]
            P == {i \in DOMAIN s.entities :
                    Cardinality({j \in 1..(i - 1) : s.entities[j].name = s.entities[i].name}) = 1}
            places == InOrder(P)
            found == DuplicateEntityNames(s)
            apart == \A i, j \in DOMAIN s.entities : i # j => s.entities[i].name # s.entities[j].name
<1>1. n \in Nat /\ DOMAIN s.entities = 1..n
  BY SchemaParts
<1>2. found = [k \in DOMAIN places |->
        Error("DUPLICATE_ENTITY_NAME", s.entities[places[k]].name, NoName, <<>>)]
  BY DEF DuplicateEntityNames, Each
<1>3. P \subseteq 1..n
  BY <1>1
<1>4. P = {i \in 1..n : Cardinality({j \in 1..(i - 1) : name[j] = name[i]}) = 1}
  <2>. HIDE DEF n
  <2>1. ASSUME NEW i \in 1..n
        PROVE  {j \in 1..(i - 1) : name[j] = name[i]}
               = {j \in 1..(i - 1) : s.entities[j].name = s.entities[i].name}
    <3>1. \A j \in 1..(i - 1) : j \in 1..n
      BY <1>1
    <3>. QED  BY <3>1
  <2>. QED  BY <1>1, <2>1
<1>5. P = {} <=> apart
  <2>1. P = {} <=> \A i, j \in 1..n : i # j => name[i] # name[j]
    <3>. HIDE DEF n, P, name
    <3>. QED  BY <1>1, <1>4, SecondOccurs
  <2>. QED  BY <1>1, <2>1
<1>. HIDE DEF P, name, found, n
<1>6. Range(places) = P
  <2>1. IsFiniteSet(P) /\ P \subseteq Int
    <3>1. IsFiniteSet(1..n) /\ 1..n \subseteq Int
      BY <1>1, FS_Interval
    <3>2. IsFiniteSet(P)
      BY <1>3, <3>1, FS_Subset
    <3>. QED  BY <1>3, <3>1, <3>2
  <2>. QED  BY <2>1, InOrderType
<1>. HIDE DEF places, apart
<1>7. found = [k \in DOMAIN places |-> found[k]]
  BY <1>2
<1>8. \A k \in DOMAIN places : found[k].severity = "error"
  BY <1>2, Severities
<1>9. apart \in BOOLEAN
  BY DEF apart
<1>10. Detects(found, apart)
  BY <1>5, <1>6, <1>7, <1>8, <1>9, EachDetects
<1>. QED  BY <1>10 DEF found, apart

LEMMA InOrderRange ==
    ASSUME NEW n \in Nat, NEW P, P \subseteq 1..n
    PROVE  Range(InOrder(P)) = P
<1>1. IsFiniteSet(1..n) /\ 1..n \subseteq Int
  BY FS_Interval
<1>2. IsFiniteSet(P)
  BY <1>1, FS_Subset
<1>. QED  BY <1>1, <1>2, InOrderType

LEMMA FieldPlacesRange ==
    ASSUME NEW s \in Schema, NEW parts, DOMAIN parts = DOMAIN s.entities,
           \A i \in DOMAIN s.entities : parts[i] \subseteq DOMAIN s.entities[i].fields
    PROVE  Range(Nested(parts)) = {} <=> \A i \in DOMAIN s.entities : parts[i] = {}
<1>. DEFINE n == Len(s.entities)
            P == {p \in (1..n) \X Int : p[2] \in parts[p[1]]}
<1>1. n \in Nat /\ DOMAIN s.entities = 1..n
  BY SchemaParts
<1>2. ASSUME NEW i \in 1..n
      PROVE  IsFiniteSet(parts[i]) /\ parts[i] \subseteq Int
  <2>1. s.entities[i] \in EntityRecord
    BY <1>1, SchemaParts
  <2>. DEFINE m == Len(s.entities[i].fields)
  <2>2. m \in Nat /\ DOMAIN s.entities[i].fields = 1..m
    BY <2>1, EntityParts
  <2>3. parts[i] \subseteq 1..m
    BY <1>1, <2>2
  <2>. HIDE DEF m
  <2>4. IsFiniteSet(1..m) /\ 1..m \subseteq Int
    BY <2>2, FS_Interval
  <2>5. IsFiniteSet(parts[i])
    BY <2>3, <2>4, FS_Subset
  <2>. QED  BY <2>3, <2>4, <2>5
<1>. HIDE DEF n
<1>3. Range(Nested(parts)) = P
  BY <1>1, <1>2, NestedRange
<1>4. ASSUME NEW i \in 1..n, NEW j \in parts[i] PROVE <<i, j>> \in P
  BY <1>2
<1>5. P = {} <=> \A i \in 1..n : parts[i] = {}
  BY <1>4
<1>. QED  BY <1>1, <1>3, <1>5

LEMMA ReservedEntityNamesExact ==
    ASSUME NEW s \in Schema
    PROVE  Detects(ReservedEntityNames(s), EntityNames(s) \cap Reserved = {})
<1>. DEFINE P == {i \in DOMAIN s.entities : s.entities[i].name \in Reserved}
            places == InOrder(P)
            safe(name) == FreeName(Append(PascalCase(name), "Record"), EntityNames(s))
            found == ReservedEntityNames(s)
<1>1. found = [k \in DOMAIN places |->
        FixedBy(Error("RESERVED_ENTITY_NAME", s.entities[places[k]].name, NoName, <<>>),
                RenamedEntity(s, places[k], safe(s.entities[places[k]].name)))]
  BY DEF ReservedEntityNames, Each
<1>2. P = {} <=> EntityNames(s) \cap Reserved = {}
  BY DEF EntityNames
<1>3. Range(places) = P
  <2>1. P \subseteq 1..Len(s.entities) /\ Len(s.entities) \in Nat
    BY SchemaParts
  <2>. HIDE DEF P
  <2>. QED  BY <2>1, InOrderRange
<1>. HIDE DEF P, places, found, safe
<1>4. found = [k \in DOMAIN places |-> found[k]]
  BY <1>1
<1>5. \A k \in DOMAIN places : found[k].severity = "error"
  BY <1>1, Severities
<1>6. Detects(found, EntityNames(s) \cap Reserved = {})
  BY <1>2, <1>3, <1>4, <1>5, EachDetects
<1>. QED  BY <1>6 DEF found

LEMMA DuplicateFieldNamesExact ==
    ASSUME NEW s \in Schema
    PROVE  Detects(DuplicateFieldNames(s),
                   \A i \in DOMAIN s.entities : \A j, k \in DOMAIN s.entities[i].fields :
                        j # k => s.entities[i].fields[j].name # s.entities[i].fields[k].name)
<1>. DEFINE fields(i) == s.entities[i].fields
            earlier(i, j) == {k \in 1..(j - 1) : fields(i)[k].name = fields(i)[j].name}
            kept(i, name) == {j \in DOMAIN fields(i) :
                                fields(i)[j].name # name \/ earlier(i, j) = {}}
            parts == [i \in DOMAIN s.entities |->
                        {j \in DOMAIN s.entities[i].fields : Cardinality(earlier(i, j)) = 1}]
            places == Nested(parts)
            found == DuplicateFieldNames(s)
            fixed(p) == [s EXCEPT !.entities[p[1]].fields =
                            AtPositions(fields(p[1]), kept(p[1], Field(s, p).name))]
            apart(i) == \A j, k \in DOMAIN s.entities[i].fields :
                            j # k => s.entities[i].fields[j].name # s.entities[i].fields[k].name
            good == \A i \in DOMAIN s.entities : apart(i)
<1>1. Range(places) = {} <=> \A i \in DOMAIN s.entities : parts[i] = {}
  BY FieldPlacesRange
<1>2. found = [k \in DOMAIN places |->
        FixedBy(Error("DUPLICATE_FIELD_NAME", s.entities[places[k][1]].name,
                      Field(s, places[k]).name, <<>>), fixed(places[k]))]
  BY DEF DuplicateFieldNames, Each, FieldsWhere
<1>3. ASSUME NEW i \in DOMAIN s.entities PROVE parts[i] = {} <=> apart(i)
  <2>. DEFINE n == Len(s.entities[i].fields)
              name == [j \in 1..n |-> s.entities[i].fields[j].name]
  <2>1. n \in Nat /\ DOMAIN s.entities[i].fields = 1..n
    BY SchemaParts, EntityParts
  <2>2. parts[i] = {j \in 1..n : Cardinality({k \in 1..(j - 1) : name[k] = name[j]}) = 1}
    <3>1. ASSUME NEW j \in 1..n
          PROVE  earlier(i, j) = {k \in 1..(j - 1) : name[k] = name[j]}
      <4>1. \A k \in 1..(j - 1) : k \in 1..n
        BY <2>1
      <4>. QED  BY <4>1
    <3>2. parts[i] = {j \in 1..n : Cardinality(earlier(i, j)) = 1}
      BY <2>1
    <3>. HIDE DEF parts, earlier, name, n
    <3>. QED  BY <3>1, <3>2
  <2>3. parts[i] = {} <=> \A j, k \in 1..n : j # k => name[j] # name[k]
    <3>. HIDE DEF n, name, parts
    <3>1. {j \in 1..n : Cardinality({k \in 1..(j - 1) : name[k] = name[j]}) = 1} = {}
          <=> \A j, k \in 1..n : j # k => name[j] # name[k]
      BY <2>1, SecondOccurs
    <3>. QED  BY <2>2, <3>1
  <2>. HIDE DEF n, parts
  <2>. QED  BY <2>1, <2>3
<1>. HIDE DEF places, found, fixed, apart, parts
<1>4. found = [k \in DOMAIN places |-> found[k]]
  BY <1>2
<1>5. \A k \in DOMAIN places : found[k].severity = "error"
  BY <1>2, Severities
<1>6. Range(places) = {} <=> good
  BY <1>1, <1>3
<1>7. good \in BOOLEAN
  OBVIOUS
<1>. HIDE DEF good
<1>8. Detects(found, good)
  BY <1>4, <1>5, <1>6, <1>7, EachDetects
<1>. QED  BY <1>8 DEF found, good, apart

LEMMA UnknownFieldTypesExact ==
    ASSUME NEW s \in Schema
    PROVE  Detects(UnknownFieldTypes(s),
                   \A i \in DOMAIN s.entities : \A j \in DOMAIN s.entities[i].fields :
                        s.entities[i].fields[j].type \in FieldType)
<1>. DEFINE parts == [i \in DOMAIN s.entities |->
                        {j \in DOMAIN s.entities[i].fields :
                            s.entities[i].fields[j].type \notin FieldType}]
            places == Nested(parts)
            found == UnknownFieldTypes(s)
            error(p) == Error("UNKNOWN_FIELD_TYPE", s.entities[p[1]].name, Field(s, p).name, <<>>)
            fixed(p) == [s EXCEPT !.entities[p[1]].fields[p[2]].type = TypeAlias[Field(s, p).type]]
            good == \A i \in DOMAIN s.entities : \A j \in DOMAIN s.entities[i].fields :
                        s.entities[i].fields[j].type \in FieldType
<1>1. Range(places) = {} <=> \A i \in DOMAIN s.entities : parts[i] = {}
  BY FieldPlacesRange
<1>2. found = [k \in DOMAIN places |->
        IF Field(s, places[k]).type \in DOMAIN TypeAlias
        THEN FixedBy(error(places[k]), fixed(places[k])) ELSE error(places[k])]
  BY DEF UnknownFieldTypes, Each, FieldsWhere
<1>3. (\A i \in DOMAIN s.entities : parts[i] = {}) <=> good
  OBVIOUS
<1>. HIDE DEF places, found, fixed
<1>4. found = [k \in DOMAIN places |-> found[k]]
  BY <1>2
<1>5. ASSUME NEW k \in DOMAIN places PROVE found[k].severity = "error"
  <2>1. found[k] \in {error(places[k]), FixedBy(error(places[k]), fixed(places[k]))}
    BY <1>2
  <2>. QED  BY <2>1, Severities
<1>6. good \in BOOLEAN
  OBVIOUS
<1>. HIDE DEF good, parts
<1>7. Detects(found, good)
  BY <1>1, <1>3, <1>4, <1>5, <1>6, EachDetects
<1>. QED  BY <1>7 DEF found, good

LEMMA EnumsWithoutValuesExact ==
    ASSUME NEW s \in Schema
    PROVE  Detects(EnumsWithoutValues(s),
                   \A i \in DOMAIN s.entities : \A j \in DOMAIN s.entities[i].fields :
                        s.entities[i].fields[j].type = "enum" => s.entities[i].fields[j].values)
<1>. DEFINE parts == [i \in DOMAIN s.entities |->
                        {j \in DOMAIN s.entities[i].fields :
                            s.entities[i].fields[j].type = "enum" /\ ~s.entities[i].fields[j].values}]
            places == Nested(parts)
            found == EnumsWithoutValues(s)
            fixed(p) == [s EXCEPT !.entities[p[1]].fields[p[2]].type = "text"]
            good == \A i \in DOMAIN s.entities : \A j \in DOMAIN s.entities[i].fields :
                        s.entities[i].fields[j].type = "enum" => s.entities[i].fields[j].values
<1>1. Range(places) = {} <=> \A i \in DOMAIN s.entities : parts[i] = {}
  BY FieldPlacesRange
<1>2. found = [k \in DOMAIN places |->
        FixedBy(Error("ENUM_WITHOUT_VALUES", s.entities[places[k][1]].name,
                      Field(s, places[k]).name, <<>>), fixed(places[k]))]
  BY DEF EnumsWithoutValues, Each, FieldsWhere
<1>3. (\A i \in DOMAIN s.entities : parts[i] = {}) <=> good
  OBVIOUS
<1>. HIDE DEF places, found, fixed
<1>4. found = [k \in DOMAIN places |-> found[k]]
  BY <1>2
<1>5. \A k \in DOMAIN places : found[k].severity = "error"
  BY <1>2, Severities
<1>6. good \in BOOLEAN
  OBVIOUS
<1>. HIDE DEF good, parts
<1>7. Detects(found, good)
  BY <1>1, <1>3, <1>4, <1>5, <1>6, EachDetects
<1>. QED  BY <1>7 DEF found, good

LEMMA InvalidRelationshipTypesExact ==
    ASSUME NEW s \in Schema
    PROVE  Detects(InvalidRelationshipTypes(s),
                   \A i \in DOMAIN s.rels : s.rels[i].type \in RelationshipType)
<1>. DEFINE P == {i \in DOMAIN s.rels : s.rels[i].type \notin RelationshipType}
            places == InOrder(P)
            found == InvalidRelationshipTypes(s)
            error(i) == Error("RELATIONSHIP_INVALID_TYPE", NoName, NoName, Describe(s.rels[i]))
            fixed(i) == [s EXCEPT !.rels[i].type = RelationshipAlias[@]]
            good == \A i \in DOMAIN s.rels : s.rels[i].type \in RelationshipType
<1>1. found = [k \in DOMAIN places |->
        IF s.rels[places[k]].type \in DOMAIN RelationshipAlias
        THEN FixedBy(error(places[k]), fixed(places[k])) ELSE error(places[k])]
  BY DEF InvalidRelationshipTypes, Each
<1>2. P = {} <=> good
  OBVIOUS
<1>3. Range(places) = P
  <2>1. P \subseteq 1..Len(s.rels) /\ Len(s.rels) \in Nat
    BY SchemaParts
  <2>. HIDE DEF P
  <2>. QED  BY <2>1, InOrderRange
<1>. HIDE DEF P, places, found, fixed
<1>4. found = [k \in DOMAIN places |-> found[k]]
  BY <1>1
<1>5. \A k \in DOMAIN places : found[k].severity = "error"
  BY <1>1, Severities
<1>6. good \in BOOLEAN
  OBVIOUS
<1>. HIDE DEF good
<1>7. Detects(found, good)
  BY <1>2, <1>3, <1>4, <1>5, <1>6, EachDetects
<1>. QED  BY <1>7 DEF found, good

LEMMA MissingEntitiesExact ==
    ASSUME NEW s \in Schema
    PROVE  Detects(MissingEntities(s),
                   \A i \in DOMAIN s.rels : {s.rels[i].from, s.rels[i].to} \subseteq EntityNames(s))
<1>. DEFINE Q(name) == {i \in 1..Len(s.entities) : SameIgnoringCase(s.entities[i].name, name)}
            similar(name) == IF Q(name) # {} THEN Min(Q(name)) ELSE 0
            error(i, name) ==
                Error("RELATIONSHIP_MISSING_ENTITY", name, NoName, Describe(s.rels[i]))
            from(i) == [s.rels[i] EXCEPT !.from = s.entities[similar(s.rels[i].from)].name]
            to(i) == [s.rels[i] EXCEPT !.to = s.entities[similar(s.rels[i].to)].name]
            ofFrom(i) == IF similar(s.rels[i].from) = 0 THEN error(i, s.rels[i].from)
                         ELSE FixedBy(error(i, s.rels[i].from), [s EXCEPT !.rels[i] = from(i)])
            ofTo(i) == IF similar(s.rels[i].to) = 0 THEN error(i, s.rels[i].to)
                       ELSE FixedBy(error(i, s.rels[i].to), [s EXCEPT !.rels[i] = to(i)])
            a(i) == IF s.rels[i].from \notin EntityNames(s) THEN <<ofFrom(i)>> ELSE <<>>
            b(i) == IF s.rels[i].to \notin EntityNames(s) THEN <<ofTo(i)>> ELSE <<>>
            rows == [i \in DOMAIN s.rels |-> a(i) \o b(i)]
            E == {ofFrom(i) : i \in DOMAIN s.rels} \cup {ofTo(i) : i \in DOMAIN s.rels}
            n == Len(s.rels)
            found == MissingEntities(s)
            good == \A i \in DOMAIN s.rels : {s.rels[i].from, s.rels[i].to} \subseteq EntityNames(s)
<1>1. found = FlattenSeq(rows)
  BY DEF MissingEntities, SelectInSeq
<1>. HIDE DEF similar
<1>2. \A i \in DOMAIN s.rels : ofFrom(i).severity = "error" /\ ofTo(i).severity = "error"
  <2>. TAKE i \in DOMAIN s.rels
  <2>1. ofFrom(i).severity = "error"
    BY Severities
  <2>2. ofTo(i).severity = "error"
    BY Severities
  <2>. QED  BY <2>1, <2>2
<1>. HIDE DEF ofFrom, ofTo
<1>3. \A e \in E : e.severity = "error"
  BY <1>2
<1>4. ASSUME NEW i \in DOMAIN s.rels
      PROVE  /\ rows[i] \in Seq(E) /\ Range(rows[i]) = Range(a(i)) \cup Range(b(i))
             /\ Range(a(i)) = {} <=> s.rels[i].from \in EntityNames(s)
             /\ Range(b(i)) = {} <=> s.rels[i].to \in EntityNames(s)
  <2>1. ofFrom(i) \in E /\ ofTo(i) \in E
    OBVIOUS
  <2>. HIDE DEF E
  <2>2. \A e \in E : <<e>> \in Seq(E) /\ Range(<<e>>) = {e}
    BY DEF Range
  <2>3. <<>> \in Seq(E) /\ Range(<<>>) = {}
    BY DEF Range
  <2>4. a(i) \in Seq(E) /\ (Range(a(i)) = {} <=> s.rels[i].from \in EntityNames(s))
    BY <2>1, <2>2, <2>3
  <2>5. b(i) \in Seq(E) /\ (Range(b(i)) = {} <=> s.rels[i].to \in EntityNames(s))
    BY <2>1, <2>2, <2>3
  <2>6. rows[i] = a(i) \o b(i)
    OBVIOUS
  <2>. HIDE DEF a, b, rows
  <2>7. rows[i] \in Seq(E) /\ Range(rows[i]) = Range(a(i)) \cup Range(b(i))
    BY <2>4, <2>5, <2>6, ConcatRange
  <2>. QED  BY <2>4, <2>5, <2>7
<1>. HIDE DEF a, b, E, rows
<1>5. n \in Nat /\ DOMAIN s.rels = 1..n
  BY SchemaParts
<1>6. rows \in [1..n -> Seq(E)]
  <2>1. rows = [i \in 1..n |-> rows[i]]
    BY <1>5 DEF rows
  <2>2. \A i \in 1..n : rows[i] \in Seq(E)
    BY <1>4, <1>5
  <2>. HIDE DEF n
  <2>. QED  BY <2>1, <2>2
<1>. HIDE DEF n
<1>7. Range(FlattenSeq(rows)) = UNION {Range(rows[i]) : i \in 1..n} /\ FlattenSeq(rows) \in Seq(E)
  BY <1>5, <1>6, FlattenRange, FlattenType
<1>8. \A i \in 1..n : Range(rows[i]) = {} <=>
            s.rels[i].from \in EntityNames(s) /\ s.rels[i].to \in EntityNames(s)
  BY <1>4, <1>5
<1>9. Range(found) = {} <=> good
  <2>1. Range(found) = {} <=> \A i \in 1..n : Range(rows[i]) = {}
    <3>1. Range(found) = UNION {Range(rows[i]) : i \in 1..n}
      BY <1>1, <1>7
    <3>. HIDE DEF found, good
    <3>2. \A i \in 1..n : Range(rows[i]) \subseteq Range(found)
      BY <3>1
    <3>3. \A f \in Range(found) : \E i \in 1..n : f \in Range(rows[i])
      BY <3>1
    <3>. QED  BY <3>2, <3>3
  <2>. QED  BY <1>5, <1>8, <2>1
<1>10. \A f \in Range(found) : f.severity = "error"
  <2>1. Range(found) \subseteq E
    BY <1>1, <1>7 DEF Range
  <2>. QED  BY <1>3, <2>1
<1>. HIDE DEF found
<1>11. Detects(found, good)
  BY <1>9, <1>10 DEF Detects
<1>. QED  BY <1>11 DEF found

\* The properties that are generated, and whose members they are.
LEMMA GeneratedFacts ==
    ASSUME NEW s \in Schema, NEW props, props = Generated(s.rels)
    PROVE  /\ props \in Seq(PropertyRecord(s))
           /\ \A k \in DOMAIN props :
                /\ props[k].side \in GeneratingSides(s)
                /\ props[k].entity = props[k].side.entity
                /\ props[k].name \in GivenNames(props[k].side)
           /\ \A d \in GeneratingSides(s) : \A n \in GivenNames(d) :
                \E k \in DOMAIN props :
                    props[k].side = d /\ props[k].name = n /\ props[k].entity = d.entity
<1>1. props \in Seq(PropertyRecord(s))
  BY GeneratedType
<1>2. Range(props) = UNION {Range(GeneratedBy(d)) : d \in GeneratingSides(s)}
  BY GeneratedIs
<1>3. ASSUME NEW d \in GeneratingSides(s), NEW p \in Range(GeneratedBy(d))
      PROVE  p.side = d /\ p.entity = d.entity
  <2>1. d \in SideRecord(s)
    <3>1. GeneratingSides(s) \subseteq SideRecord(s)
      BY DistinctIs DEF Range
    <3>. QED  BY <3>1
  <2>. QED  BY <2>1, GivenBy
<1>4. ASSUME NEW k \in DOMAIN props
      PROVE  /\ props[k].side \in GeneratingSides(s)
             /\ props[k].entity = props[k].side.entity
             /\ props[k].name \in GivenNames(props[k].side)
  <2>1. props[k] \in Range(props)
    BY DEF Range
  <2>2. PICK d \in GeneratingSides(s) : props[k] \in Range(GeneratedBy(d))
    BY <1>2, <2>1
  <2>3. props[k].side = d /\ props[k].entity = d.entity
    BY <1>3, <2>2
  <2>4. props[k].name \in GivenNames(d)
    BY <2>2 DEF GivenNames
  <2>. QED  BY <2>3, <2>4
<1>5. ASSUME NEW d \in GeneratingSides(s), NEW n \in GivenNames(d)
      PROVE  \E k \in DOMAIN props :
                props[k].side = d /\ props[k].name = n /\ props[k].entity = d.entity
  <2>1. PICK p \in Range(GeneratedBy(d)) : p.name = n
    BY DEF GivenNames
  <2>2. p \in Range(props)
    BY <1>2
  <2>3. PICK k \in DOMAIN props : props[k] = p
    BY <2>2 DEF Range
  <2>. QED  BY <1>3, <2>1, <2>3
<1>. QED  BY <1>1, <1>4, <1>5

LEMMA ClaimantIs ==
    ASSUME NEW P, NEW props \in Seq(P), NEW entity, NEW name
    PROVE  LET c == Claimant(props, entity, name)
           IN  IF \E k \in DOMAIN props : props[k].entity = entity /\ props[k].name = name
               THEN c \in DOMAIN props /\ c # 0 /\ props[c].entity = entity /\ props[c].name = name
               ELSE c = 0
<1>. DEFINE Q == {k \in 1..Len(props) : props[k].entity = entity /\ props[k].name = name}
            c == Claimant(props, entity, name)
<1>1. c = IF Q # {} THEN Min(Q) ELSE 0
  BY DEF Claimant, SelectInSeq
<1>2. DOMAIN props = 1..Len(props) /\ Len(props) \in Nat
  OBVIOUS
<1>3. Q \subseteq Nat /\ Q \subseteq DOMAIN props /\ 0 \notin Q
  BY <1>2
<1>4. Q # {} => Min(Q) \in Q
  <2>. HIDE DEF Q
  <2>. QED  BY <1>3, FirstOf
<1>5. CASE Q # {}
  <2>1. c \in Q
    BY <1>1, <1>4, <1>5
  <2>. HIDE DEF c
  <2>. QED  BY <1>2, <1>3, <2>1 DEF c
<1>6. CASE Q = {}
  <2>1. c = 0
    BY <1>1, <1>6
  <2>2. ~\E k \in DOMAIN props : props[k].entity = entity /\ props[k].name = name
    BY <1>2, <1>6
  <2>. QED  BY <2>1, <2>2
<1>. QED  BY <1>5, <1>6

LEMMA NamesOnIs ==
    ASSUME NEW s \in Schema, NEW props, props = Generated(s.rels), NEW entity
    PROVE  /\ NamesOn(props, entity) = GivenMembers(s, entity)
           /\ \A name : Claimant(props, entity, name) # 0 <=> name \in GivenMembers(s, entity)
<1>1. /\ props \in Seq(PropertyRecord(s))
      /\ \A k \in DOMAIN props :
                /\ props[k].side \in GeneratingSides(s)
                /\ props[k].entity = props[k].side.entity
                /\ props[k].name \in GivenNames(props[k].side)
      /\ \A d \in GeneratingSides(s) : \A n \in GivenNames(d) :
                \E k \in DOMAIN props :
                    props[k].side = d /\ props[k].name = n /\ props[k].entity = d.entity
  BY GeneratedFacts
<1>2. ASSUME NEW name \in NamesOn(props, entity) PROVE name \in GivenMembers(s, entity)
  <2>1. PICK k \in DOMAIN props : props[k].entity = entity /\ props[k].name = name
    BY DEF NamesOn
  <2>. QED  BY <1>1, <2>1 DEF GivenMembers
<1>3. ASSUME NEW name \in GivenMembers(s, entity) PROVE name \in NamesOn(props, entity)
  <2>1. PICK d \in GeneratingSides(s) : d.entity = entity /\ name \in GivenNames(d)
    BY DEF GivenMembers
  <2>2. PICK k \in DOMAIN props : props[k].name = name /\ props[k].entity = entity
    BY <1>1, <2>1
  <2>. QED  BY <2>2 DEF NamesOn
<1>4. \A name : Claimant(props, entity, name) # 0 <=> name \in NamesOn(props, entity)
  <2>. SUFFICES ASSUME NEW name
                PROVE  Claimant(props, entity, name) # 0 <=> name \in NamesOn(props, entity)
    OBVIOUS
  <2>. DEFINE c == Claimant(props, entity, name)
  <2>1. IF \E k \in DOMAIN props : props[k].entity = entity /\ props[k].name = name
        THEN c \in DOMAIN props /\ c # 0 /\ props[c].entity = entity /\ props[c].name = name
        ELSE c = 0
    BY <1>1, ClaimantIs
  <2>2. name \in NamesOn(props, entity)
        <=> \E k \in DOMAIN props : props[k].entity = entity /\ props[k].name = name
    BY DEF NamesOn
  <2>. HIDE DEF c
  <2>3. c # 0 <=> name \in NamesOn(props, entity)
    BY <2>1, <2>2
  <2>. QED  BY <2>3 DEF c
<1>. QED  BY <1>2, <1>3, <1>4

\* The two rules about fields that a relationship generates too.
LEMMA CollisionsExact ==
    ASSUME NEW s \in Schema, NEW props, props = Generated(s.rels)
    PROVE  /\ \A f \in Range(ForeignKeyFieldDuplicates(s, props))
                        \cup Range(FieldRelationshipCollisions(s, props)) : f.severity = "error"
           /\ (/\ Range(ForeignKeyFieldDuplicates(s, props)) = {}
               /\ Range(FieldRelationshipCollisions(s, props)) = {})
              <=> \A i \in DOMAIN s.entities :
                    FieldNames(s, i) \cap GivenMembers(s, s.entities[i].name) = {}
<1>. DEFINE generated(i, j) == Claimant(props, s.entities[i].name, s.entities[i].fields[j].name)
            parts(b) == [i \in DOMAIN s.entities |->
                        {j \in DOMAIN s.entities[i].fields :
                            generated(i, j) # 0 /\ props[generated(i, j)].foreignKey = b}]
            free(b) == \A i \in DOMAIN s.entities : \A j \in DOMAIN s.entities[i].fields :
                            ~(generated(i, j) # 0 /\ props[generated(i, j)].foreignKey = b)
            places(b) == Nested(parts(b))
            keys == ForeignKeyFieldDuplicates(s, props)
            others == FieldRelationshipCollisions(s, props)
            entity(p) == s.entities[p[1]].name
            prop(p) == props[Claimant(props, entity(p), Field(s, p).name)]
            suffix(p) == IF Field(s, p).type = "text" THEN "_text" ELSE "_value"
            renamed(p) == FreeName(Append(Field(s, p).name, suffix(p)),
                                   FieldNames(s, p[1]) \cup NamesOn(props, entity(p)))
<1>1. keys = [k \in DOMAIN places(TRUE) |->
        FixedBy(Error("FOREIGN_KEY_FIELD_DUPLICATE", entity(places(TRUE)[k]), Field(s, places(TRUE)[k]).name,
                      Describe(s.rels[prop(places(TRUE)[k]).side.rel])),
                WithoutField(s, places(TRUE)[k]))]
  BY DEF ForeignKeyFieldDuplicates, CollidingFields, Each, FieldsWhere
<1>2. others = [k \in DOMAIN places(FALSE) |->
        FixedBy(Error("FIELD_RELATIONSHIP_COLLISION", entity(places(FALSE)[k]), Field(s, places(FALSE)[k]).name,
                      Describe(s.rels[prop(places(FALSE)[k]).side.rel])),
                RenamedField(s, places(FALSE)[k], renamed(places(FALSE)[k])))]
  BY DEF FieldRelationshipCollisions, CollidingFields, Each, FieldsWhere
<1>3. ASSUME NEW b \in BOOLEAN PROVE Range(places(b)) = {} <=> free(b)
  <2>1. Range(Nested(parts(b))) = {} <=> \A i \in DOMAIN s.entities : parts(b)[i] = {}
    BY FieldPlacesRange
  <2>2. (\A i \in DOMAIN s.entities : parts(b)[i] = {}) <=> free(b)
    OBVIOUS
  <2>. QED  BY <2>1, <2>2
<1>4. free(TRUE) /\ free(FALSE) <=> \A i \in DOMAIN s.entities :
                    FieldNames(s, i) \cap GivenMembers(s, s.entities[i].name) = {}
  <2>1. props \in Seq(PropertyRecord(s))
    BY GeneratedFacts
  <2>2. ASSUME NEW i \in DOMAIN s.entities, NEW j \in DOMAIN s.entities[i].fields
        PROVE  /\ generated(i, j) # 0 => props[generated(i, j)].foreignKey \in BOOLEAN
               /\ generated(i, j) # 0 <=>
                    s.entities[i].fields[j].name \in GivenMembers(s, s.entities[i].name)
    <3>. DEFINE c == generated(i, j)
    <3>1. c # 0 => c \in DOMAIN props
      BY <2>1, ClaimantIs
    <3>2. c # 0 <=> s.entities[i].fields[j].name \in GivenMembers(s, s.entities[i].name)
      BY NamesOnIs
    <3>. HIDE DEF c
    <3>3. c # 0 => props[c] \in PropertyRecord(s)
      BY <2>1, <3>1
    <3>4. c # 0 => props[c].foreignKey \in BOOLEAN
      BY <3>3 DEF PropertyRecord
    <3>. QED  BY <3>2, <3>4 DEF c
  <2>. HIDE DEF generated
  <2>3. free(TRUE) /\ free(FALSE) <=>
            \A i \in DOMAIN s.entities : \A j \in DOMAIN s.entities[i].fields : generated(i, j) = 0
    BY <2>2
  <2>. HIDE DEF free
  <2>. QED  BY <2>2, <2>3 DEF FieldNames
<1>. HIDE DEF places, keys, others, prop, renamed, free
<1>5. Detects(keys, free(TRUE))
  <2>1. keys = [k \in DOMAIN places(TRUE) |-> keys[k]]
    BY <1>1
  <2>2. ASSUME NEW k \in DOMAIN places(TRUE) PROVE keys[k].severity = "error"
    <3>. DEFINE p == places(TRUE)[k]
    <3>1. keys[k] = FixedBy(Error("FOREIGN_KEY_FIELD_DUPLICATE", entity(p), Field(s, p).name,
                                  Describe(s.rels[prop(p).side.rel])), WithoutField(s, p))
      BY <1>1
    <3>. QED  BY <3>1 DEF FixedBy, Error, Finding
  <2>3. free(TRUE) \in BOOLEAN
    BY DEF free
  <2>. QED  BY <1>3, <2>1, <2>2, <2>3, EachDetects
<1>6. Detects(others, free(FALSE))
  <2>1. others = [k \in DOMAIN places(FALSE) |-> others[k]]
    BY <1>2
  <2>2. ASSUME NEW k \in DOMAIN places(FALSE) PROVE others[k].severity = "error"
    <3>. DEFINE p == places(FALSE)[k]
    <3>1. others[k] = FixedBy(Error("FIELD_RELATIONSHIP_COLLISION", entity(p), Field(s, p).name,
                                    Describe(s.rels[prop(p).side.rel])),
                              RenamedField(s, p, renamed(p)))
      BY <1>2
    <3>. QED  BY <3>1 DEF FixedBy, Error, Finding
  <2>3. free(FALSE) \in BOOLEAN
    BY DEF free
  <2>. QED  BY <1>3, <2>1, <2>2, <2>3, EachDetects
<1>. QED  BY <1>4, <1>5, <1>6 DEF Detects, keys, others

\* Two relationships that give a class one name show as a clash.
LEMMA ClashesExact ==
    ASSUME NEW s \in Schema, NEW props, props = Generated(s.rels)
    PROVE  Detects(RelationshipPropertyClashes(s, props),
                   \A d, c \in GeneratingSides(s) :
                        d.entity = c.entity /\ d.rel # c.rel
                            => GivenNames(d) \cap GivenNames(c) = {})
<1>. DEFINE first(k) == props[Claimant(props, props[k].entity, props[k].name)]
            P == {k \in Clashes(props) : first(k).side.rel # props[k].side.rel}
            places == InOrder(P)
            found == RelationshipPropertyClashes(s, props)
            r(k) == props[k].side.rel
            error(k) == Error("RELATIONSHIP_PROPERTY_CLASH", props[k].entity, props[k].name,
                              Describe(s.rels[r(k)]))
            toName(k) == FreeName(CamelCase(props[k].side.ref) \o PascalCase(s.rels[r(k)].to),
                                  NamesOn(props, props[k].entity))
            result(k) == CASE props[k].side.isFrom ->
                                FixedBy(error(k), [s EXCEPT !.rels[r(k)].toName = toName(k)])
                           [] ~props[k].side.isFrom /\ s.rels[r(k)].type = "ManyToOne" ->
                                FixedBy(error(k), [s EXCEPT !.rels[r(k)].bi = "no"])
                           [] OTHER -> error(k)
            good == \A d, c \in GeneratingSides(s) :
                        d.entity = c.entity /\ d.rel # c.rel
                            => GivenNames(d) \cap GivenNames(c) = {}
<1>1. /\ props \in Seq(PropertyRecord(s))
      /\ \A k \in DOMAIN props :
                /\ props[k].side \in GeneratingSides(s)
                /\ props[k].entity = props[k].side.entity
                /\ props[k].name \in GivenNames(props[k].side)
      /\ \A d \in GeneratingSides(s) : \A n \in GivenNames(d) :
                \E k \in DOMAIN props :
                    props[k].side = d /\ props[k].name = n /\ props[k].entity = d.entity
  BY GeneratedFacts
<1>2. found = [k \in DOMAIN places |-> result(places[k])]
  BY DEF RelationshipPropertyClashes, Each
<1>3. ASSUME NEW k \in DOMAIN props
      PROVE  LET c == Claimant(props, props[k].entity, props[k].name)
             IN  c \in DOMAIN props /\ props[c].entity = props[k].entity /\ props[c].name = props[k].name
  BY <1>1, ClaimantIs
<1>4. ASSUME NEW k \in P PROVE ~good
  <2>1. k \in DOMAIN props /\ first(k).side.rel # props[k].side.rel
    BY DEF Clashes
  <2>. DEFINE c == Claimant(props, props[k].entity, props[k].name)
  <2>2. c \in DOMAIN props /\ props[c].entity = props[k].entity /\ props[c].name = props[k].name
    BY <1>3, <2>1
  <2>3. props[c].side.rel # props[k].side.rel
    BY <2>1
  <2>. HIDE DEF c
  <2>4. props[k].name \in GivenNames(props[k].side) \cap GivenNames(props[c].side)
    BY <1>1, <2>1, <2>2
  <2>5. props[c].side.entity = props[k].side.entity
    BY <1>1, <2>1, <2>2
  <2>. QED  BY <1>1, <2>1, <2>2, <2>3, <2>4, <2>5
<1>5. ASSUME ~good PROVE P # {}
  <2>1. PICK d \in GeneratingSides(s), c \in GeneratingSides(s) :
            d.entity = c.entity /\ d.rel # c.rel /\ GivenNames(d) \cap GivenNames(c) # {}
    BY <1>5
  <2>2. PICK n : n \in GivenNames(d) /\ n \in GivenNames(c)
    BY <2>1
  <2>3. PICK k \in DOMAIN props : props[k].side = d /\ props[k].name = n /\ props[k].entity = d.entity
    BY <1>1, <2>2
  <2>4. PICK l \in DOMAIN props : props[l].side = c /\ props[l].name = n /\ props[l].entity = c.entity
    BY <1>1, <2>2
  <2>. DEFINE m == Claimant(props, d.entity, n)
  <2>5. ASSUME NEW x \in DOMAIN props, props[x].entity = d.entity, props[x].name = n,
               props[m].side.rel # props[x].side.rel
        PROVE  x \in P
    <3>1. first(x) = props[m] /\ Claimant(props, props[x].entity, props[x].name) = m
      BY <2>5
    <3>2. m # x
      BY <2>5
    <3>3. x \in Clashes(props)
      BY <3>1, <3>2 DEF Clashes
    <3>. QED  BY <2>5, <3>1, <3>3
  <2>6. props[m].side.rel # props[k].side.rel \/ props[m].side.rel # props[l].side.rel
    BY <2>1, <2>3, <2>4
  <2>. HIDE DEF m, P
  <2>. QED  BY <2>1, <2>3, <2>4, <2>5, <2>6
<1>6. P = {} <=> good
  <2>. HIDE DEF P, good
  <2>. QED  BY <1>4, <1>5
<1>7. Range(places) = P
  <2>1. P \subseteq 1..Len(props) /\ Len(props) \in Nat
    BY <1>1 DEF Clashes
  <2>. HIDE DEF P
  <2>. QED  BY <2>1, InOrderRange
<1>8. good \in BOOLEAN
  OBVIOUS
<1>. HIDE DEF P, places, found, good
<1>9. ASSUME NEW k \in DOMAIN places PROVE found[k].severity = "error"
  <2>. DEFINE p == places[k]
              e == error(p)
              t == [s EXCEPT !.rels[r(p)].toName = toName(p)]
              u == [s EXCEPT !.rels[r(p)].bi = "no"]
  <2>1. found[k] = result(p)
    BY <1>2
  <2>2. e.severity = "error"
    BY DEF Error, Finding
  <2>. HIDE DEF p, e, t, u
  <2>3. result(p) = CASE props[p].side.isFrom -> FixedBy(e, t)
                      [] ~props[p].side.isFrom /\ s.rels[r(p)].type = "ManyToOne" -> FixedBy(e, u)
                      [] OTHER -> e
    BY DEF e, t, u
  <2>4. result(p) = FixedBy(e, t) \/ result(p) = FixedBy(e, u) \/ result(p) = e
    <3>. HIDE DEF result
    <3>. QED  BY <2>3
  <2>5. FixedBy(e, t).severity = "error" /\ FixedBy(e, u).severity = "error"
    <3>1. e = Error("RELATIONSHIP_PROPERTY_CLASH", props[p].entity, props[p].name,
                    Describe(s.rels[r(p)]))
      BY DEF e
    <3>. QED  BY <3>1, Severities
  <2>. HIDE DEF result
  <2>. QED  BY <2>1, <2>2, <2>4, <2>5
<1>10. found = [k \in DOMAIN places |-> found[k]]
  BY <1>2
<1>11. Detects(found, good)
  BY <1>6, <1>7, <1>8, <1>9, <1>10, EachDetects
<1>. QED  BY <1>11 DEF found, good

LEMMA IndexPlacesRange ==
    ASSUME NEW s \in Schema, NEW parts, DOMAIN parts = DOMAIN s.entities,
           \A i \in DOMAIN s.entities : parts[i] \subseteq DOMAIN s.entities[i].indexes
    PROVE  Range(Nested(parts)) = {} <=> \A i \in DOMAIN s.entities : parts[i] = {}
<1>. DEFINE n == Len(s.entities)
            P == {p \in (1..n) \X Int : p[2] \in parts[p[1]]}
<1>1. n \in Nat /\ DOMAIN s.entities = 1..n
  BY SchemaParts
<1>2. ASSUME NEW i \in 1..n
      PROVE  IsFiniteSet(parts[i]) /\ parts[i] \subseteq Int
  <2>1. s.entities[i] \in EntityRecord
    BY <1>1, SchemaParts
  <2>. DEFINE m == Len(s.entities[i].indexes)
  <2>2. m \in Nat /\ DOMAIN s.entities[i].indexes = 1..m
    BY <2>1, EntityParts
  <2>3. parts[i] \subseteq 1..m
    BY <1>1, <2>2
  <2>. HIDE DEF m
  <2>4. IsFiniteSet(1..m) /\ 1..m \subseteq Int
    BY <2>2, FS_Interval
  <2>5. IsFiniteSet(parts[i])
    BY <2>3, <2>4, FS_Subset
  <2>. QED  BY <2>3, <2>4, <2>5
<1>. HIDE DEF n
<1>3. Range(Nested(parts)) = P
  BY <1>1, <1>2, NestedRange
<1>4. ASSUME NEW i \in 1..n, NEW j \in parts[i] PROVE <<i, j>> \in P
  BY <1>2
<1>5. P = {} <=> \A i \in 1..n : parts[i] = {}
  BY <1>4
<1>. QED  BY <1>1, <1>3, <1>5

LEMMA UnknownIndexFieldsExact ==
    ASSUME NEW s \in Schema, NEW props, props = Generated(s.rels)
    PROVE  Detects(UnknownIndexFields(s, props),
                   \A i \in DOMAIN s.entities : IndexesKnown(s, i))
<1>. DEFINE named(i, c) == s.entities[i].indexes[c].fields
            unknown(i, c) ==
                {k \in DOMAIN named(i, c) : named(i, c)[k] \notin Columns(s, props, i)}
            parts == [i \in DOMAIN s.entities |->
                {c \in DOMAIN s.entities[i].indexes : named(i, c) = <<>> \/ unknown(i, c) # {}}]
            places == Nested(parts)
            found == UnknownIndexFields(s, props)
            missing(p) ==
                IF unknown(p[1], p[2]) = {} THEN NoName
                ELSE named(p[1], p[2])[Min(unknown(p[1], p[2]))]
            error(p) == Error("INDEX_UNKNOWN_FIELD", s.entities[p[1]].name, missing(p), <<>>)
            known(p) ==
                AtPositions(named(p[1], p[2]), DOMAIN named(p[1], p[2]) \ unknown(p[1], p[2]))
            fixed(p) ==
                IF known(p) = <<>>
                THEN [s EXCEPT !.entities[p[1]].indexes = RemoveAt(s.entities[p[1]].indexes, p[2])]
                ELSE [s EXCEPT !.entities[p[1]].indexes[p[2]].fields = known(p)]
            good == \A i \in DOMAIN s.entities : IndexesKnown(s, i)
<1>1. Range(places) = {} <=> \A i \in DOMAIN s.entities : parts[i] = {}
  BY IndexPlacesRange
<1>2. found = [k \in DOMAIN places |-> FixedBy(error(places[k]), fixed(places[k]))]
  BY DEF UnknownIndexFields, Each
<1>3. ASSUME NEW i \in DOMAIN s.entities PROVE parts[i] = {} <=> IndexesKnown(s, i)
  <2>1. Columns(s, props, i) = AssumedColumns
            \cup FieldNames(s, i) \cup GivenMembers(s, s.entities[i].name)
    BY NamesOnIs DEF Columns
  <2>2. ASSUME NEW c \in DOMAIN s.entities[i].indexes
        PROVE  unknown(i, c) = {} <=> Range(named(i, c)) \subseteq Columns(s, props, i)
    <3>. HIDE DEF named
    <3>. QED  BY DEF Range
  <2>3. parts[i] = {} <=> \A c \in DOMAIN s.entities[i].indexes :
                            named(i, c) # <<>> /\ unknown(i, c) = {}
    <3>. HIDE DEF unknown, named
    <3>. QED  OBVIOUS
  <2>. HIDE DEF parts, unknown
  <2>. QED  BY <2>1, <2>2, <2>3 DEF IndexesKnown
<1>4. good \in BOOLEAN
  OBVIOUS
<1>5. Range(places) = {} <=> good
  <2>. HIDE DEF places, parts
  <2>. QED  BY <1>1, <1>3
<1>. HIDE DEF places, found, fixed, good, missing
<1>6. ASSUME NEW k \in DOMAIN places PROVE found[k].severity = "error"
  <2>. DEFINE p == places[k]
  <2>1. found[k] = FixedBy(Error("INDEX_UNKNOWN_FIELD", s.entities[p[1]].name, missing(p), <<>>), fixed(p))
    BY <1>2
  <2>. QED  BY <2>1 DEF FixedBy, Error, Finding
<1>7. found = [k \in DOMAIN places |-> found[k]]
  BY <1>2
<1>8. Detects(found, good)
  BY <1>4, <1>5, <1>6, <1>7, EachDetects
<1>. QED  BY <1>8 DEF found, good

-----------------------------------------------------------------------------
(* Required parents come round exactly where they cannot be ordered.       *)

\* A function can be applied to its own results forever.
LEMMA Iterates ==
    ASSUME NEW F, NEW a \in F, NEW step \in [F -> F]
    PROVE  \E t \in [Nat -> F] : t[0] = a /\ \A n \in Nat : t[n + 1] = step[t[n]]
<1>. DEFINE Starts(f, n) == f[0] = a /\ \A i \in 0..(n - 1) : f[i + 1] = step[f[i]]
            upto(n) == {f \in [0..n -> F] : Starts(f, n)}
            H == {n \in Nat : upto(n) # {}}
<1>1. 0 \in H
  <2>1. [i \in 0..0 |-> a] \in upto(0)
    OBVIOUS
  <2>. QED  BY <2>1
<1>2. ASSUME NEW n \in Nat, n \in H PROVE n + 1 \in H
  <2>1. PICK f \in [0..n -> F] : Starts(f, n)
    BY <1>2
  <2>. DEFINE g == [i \in 0..(n + 1) |-> IF i <= n THEN f[i] ELSE step[f[n]]]
  <2>2. g \in [0..(n + 1) -> F]
    OBVIOUS
  <2>3. g[0] = a
    BY <2>1
  <2>4. ASSUME NEW i \in 0..((n + 1) - 1) PROVE g[i + 1] = step[g[i]]
    <3>1. i \in 0..n /\ i <= n /\ i \in 0..(n + 1) /\ i + 1 \in 0..(n + 1) /\ g[i] = f[i]
      OBVIOUS
    <3>2. CASE i = n
      <4>1. ~(i + 1 <= n)
        BY <3>2
      <4>. QED  BY <3>1, <3>2, <4>1
    <3>3. CASE i # n
      <4>1. i \in 0..(n - 1) /\ i + 1 <= n
        BY <3>1, <3>3
      <4>. QED  BY <2>1, <3>1, <4>1
    <3>. QED  BY <3>2, <3>3
  <2>. HIDE DEF g
  <2>5. g \in upto(n + 1)
    BY <2>2, <2>3, <2>4
  <2>. QED  BY <2>5
<1>3. Nat \subseteq H
  <2>. HIDE DEF H
  <2>. QED  BY <1>1, <1>2, ClimbsForever
<1>. DEFINE best(n) == CHOOSE f \in upto(n) : TRUE
            t == [n \in Nat |-> best(n)[n]]
<1>4. \A n \in Nat : best(n) \in upto(n)
  <2>. HIDE DEF upto
  <2>. QED  BY <1>3
<1>5. ASSUME NEW n \in Nat PROVE best(n + 1)[n] = best(n)[n]
  <2>. DEFINE f == best(n)
              g == best(n + 1)
              G == {i \in Nat : i <= n => f[i] = g[i]}
  <2>1. n + 1 \in Nat
    OBVIOUS
  <2>2. f \in upto(n) /\ g \in upto(n + 1)
    BY <1>4, <2>1
  <2>. HIDE DEF f, g
  <2>3. 0 \in G
    BY <2>2
  <2>4. ASSUME NEW i \in Nat, i \in G PROVE i + 1 \in G
    <3>. SUFFICES ASSUME i + 1 <= n PROVE f[i + 1] = g[i + 1]
      OBVIOUS
    <3>1. i \in 0..(n - 1) /\ i \in 0..((n + 1) - 1) /\ f[i] = g[i]
      BY <2>4
    <3>. QED  BY <2>2, <3>1
  <2>5. Nat \subseteq G
    <3>. HIDE DEF G
    <3>. QED  BY <2>3, <2>4, ClimbsForever
  <2>6. f[n] = g[n]
    BY <2>5
  <2>. QED  BY <2>6 DEF f, g
<1>. HIDE DEF best, H
<1>6. ASSUME NEW n \in Nat PROVE t[n] \in F /\ t[n + 1] = step[t[n]]
  <2>1. n \in 0..n /\ n + 1 \in Nat /\ n \in 0..((n + 1) - 1)
    OBVIOUS
  <2>2. best(n) \in [0..n -> F]
    BY <1>4
  <2>3. best(n + 1)[n + 1] = step[best(n + 1)[n]]
    BY <1>4, <2>1
  <2>. QED  BY <1>5, <2>1, <2>2, <2>3
<1>7. t[0] = a
  BY <1>4
<1>8. t \in [Nat -> F]
  <2>1. \A n \in Nat : best(n)[n] \in F
    BY <1>6
  <2>. QED  BY <2>1
<1>. HIDE DEF t
<1>. QED  BY <1>6, <1>7, <1>8

\* What Reach collects, one edge further at every step.
Grows(seen, edges, start) ==
    /\ seen[0] = ParentsRequired(edges, {start})
    /\ \A n \in Nat : seen[n + 1] = seen[n] \cup ParentsRequired(edges, seen[n])

LEMMA ReachIs ==
    ASSUME NEW edges, NEW start
    PROVE  \E seen : Grows(seen, edges, start)
                     /\ Reach(edges, start) = seen[Cardinality(DOMAIN edges)]
<1>. DEFINE F == SUBSET {edges[i][2] : i \in DOMAIN edges}
            first == ParentsRequired(edges, {start})
            step == [g \in F |-> g \cup ParentsRequired(edges, g)]
            Defines(h) == h = [k \in Nat |->
                IF k = 0 THEN ParentsRequired(edges, {start})
                ELSE h[k - 1] \cup ParentsRequired(edges, h[k - 1])]
            seen == CHOOSE h : Defines(h)
<1>1. \A g : ParentsRequired(edges, g) \in F
  BY DEF ParentsRequired
<1>2. step \in [F -> F] /\ first \in F
  <2>1. \A g \in F : g \cup ParentsRequired(edges, g) \in F
    BY <1>1
  <2>. HIDE DEF F
  <2>. QED  BY <1>1, <2>1
<1>. HIDE DEF step, F, first
<1>3. PICK t \in [Nat -> F] : t[0] = first /\ \A n \in Nat : t[n + 1] = step[t[n]]
  BY <1>2, Iterates
<1>4. Defines(t)
  <2>. DEFINE value(k) == IF k = 0 THEN ParentsRequired(edges, {start})
                          ELSE t[k - 1] \cup ParentsRequired(edges, t[k - 1])
  <2>1. ASSUME NEW k \in Nat PROVE t[k] = value(k)
    <3>1. CASE k = 0
      BY <1>3, <3>1 DEF first
    <3>2. CASE k # 0
      <4>1. k - 1 \in Nat /\ (k - 1) + 1 = k
        BY <3>2
      <4>2. t[k] = step[t[k - 1]] /\ t[k - 1] \in F
        BY <1>3, <4>1
      <4>3. t[k] = t[k - 1] \cup ParentsRequired(edges, t[k - 1])
        BY <4>2 DEF step
      <4>. QED  BY <3>2, <4>3
    <3>. QED  BY <3>1, <3>2
  <2>2. t = [k \in Nat |-> t[k]]
    OBVIOUS
  <2>. HIDE DEF value
  <2>3. t = [k \in Nat |-> value(k)]
    BY <2>1, <2>2
  <2>. QED  BY <2>3 DEF value
<1>5. Defines(seen)
  BY <1>4
<1>6. Reach(edges, start) = seen[Cardinality(DOMAIN edges)]
  BY Zenon DEF Reach
<1>. HIDE DEF seen
<1>7. Grows(seen, edges, start)
  <2>1. \A k \in Nat : seen[k] = IF k = 0 THEN ParentsRequired(edges, {start})
                ELSE seen[k - 1] \cup ParentsRequired(edges, seen[k - 1])
    BY <1>5
  <2>. HIDE DEF Defines
  <2>2. seen[0] = ParentsRequired(edges, {start})
    BY <2>1
  <2>3. ASSUME NEW n \in Nat
        PROVE  seen[n + 1] = seen[n] \cup ParentsRequired(edges, seen[n])
    <3>1. n + 1 \in Nat /\ n + 1 # 0 /\ (n + 1) - 1 = n
      OBVIOUS
    <3>. QED  BY <2>1, <3>1
  <2>. QED  BY <2>2, <2>3 DEF Grows
<1>. QED  BY <1>6, <1>7

\* Edges that follow one another.
Walk(edges, q) ==
    /\ q \in [Nat -> DOMAIN edges]
    /\ \A n \in Nat : edges[q[n + 1]][1] = edges[q[n]][2]

LEMMA ReachFollows ==
    ASSUME NEW edges, IsFiniteSet(DOMAIN edges), NEW q, Walk(edges, q),
           NEW i \in Nat, NEW k \in 0..Cardinality(DOMAIN edges)
    PROVE  edges[q[i + k]][2] \in Reach(edges, edges[q[i]][1])
<1>. DEFINE N == Cardinality(DOMAIN edges)
            start == edges[q[i]][1]
<1>1. N \in Nat
  BY FS_CardinalityType
<1>2. PICK seen : Grows(seen, edges, start) /\ Reach(edges, start) = seen[N]
  BY ReachIs
<1>. DEFINE G == {m \in Nat : \A l \in 0..m : edges[q[i + l]][2] \in seen[m]}
<1>3. 0 \in G
  <2>1. seen[0] = ParentsRequired(edges, {start}) /\ q[i] \in DOMAIN edges
    BY <1>2 DEF Grows, Walk
  <2>2. edges[q[i]][2] \in seen[0]
    BY <2>1 DEF ParentsRequired
  <2>3. \A l \in 0..0 : i + l = i
    OBVIOUS
  <2>. QED  BY <2>2, <2>3
<1>4. ASSUME NEW m \in Nat, m \in G PROVE m + 1 \in G
  <2>1. seen[m + 1] = seen[m] \cup ParentsRequired(edges, seen[m])
    BY <1>2 DEF Grows
  <2>2. ASSUME NEW l \in 0..(m + 1) PROVE edges[q[i + l]][2] \in seen[m + 1]
    <3>1. CASE l \in 0..m
      BY <1>4, <2>1, <3>1
    <3>2. CASE l = m + 1
      <4>1. i + m \in Nat /\ i + l = (i + m) + 1 /\ i + l \in Nat /\ m \in 0..m
        BY <3>2
      <4>2. edges[q[i + m]][2] \in seen[m]
        BY <1>4, <4>1
      <4>3. edges[q[i + l]][1] = edges[q[i + m]][2] /\ q[i + l] \in DOMAIN edges
        BY <4>1 DEF Walk
      <4>4. edges[q[i + l]][2] \in ParentsRequired(edges, seen[m])
        BY <4>2, <4>3 DEF ParentsRequired
      <4>. QED  BY <2>1, <4>4
    <3>. QED  BY <3>1, <3>2
  <2>. QED  BY <2>2
<1>5. Nat \subseteq G
  <2>. HIDE DEF G
  <2>. QED  BY <1>3, <1>4, ClimbsForever
<1>6. edges[q[i + k]][2] \in seen[N]
  BY <1>1, <1>5
<1>. QED  BY <1>2, <1>6

OnCycle(edges) ==
    {i \in DOMAIN edges : edges[i][1] \in Reach(edges, edges[i][2]) \cup {edges[i][2]}}

\* Who walks on and on comes round.
LEMMA WalksComeRound ==
    ASSUME NEW edges, IsFiniteSet(DOMAIN edges), NEW q, Walk(edges, q)
    PROVE  OnCycle(edges) # {}
<1>. DEFINE N == Cardinality(DOMAIN edges)
            f == [n \in 0..N |-> q[n]]
<1>1. N \in Nat
  BY FS_CardinalityType
<1>2. IsFiniteSet(0..N) /\ Cardinality(0..N) = N + 1
  BY <1>1, FS_Interval
<1>3. f \in [0..N -> DOMAIN edges]
  BY <1>1 DEF Walk
<1>4. \E x, y \in 0..N : x # y /\ f[x] = f[y]
  <2>. HIDE DEF f
  <2>1. Cardinality(DOMAIN edges) < Cardinality(0..N)
    BY <1>1, <1>2
  <2>. HIDE DEF N
  <2>. QED  BY <1>2, <1>3, <2>1, FS_PigeonHole
<1>5. PICK i \in 0..N, j \in 0..N : i < j /\ q[i] = q[j]
  <2>1. PICK x \in 0..N, y \in 0..N : x # y /\ f[x] = f[y]
    BY <1>4
  <2>2. x < y \/ y < x
    BY <2>1
  <2>. QED  BY <2>1, <2>2
<1>. DEFINE d == q[i]
<1>6. /\ i \in Nat /\ j - 1 \in Nat /\ (j - 1) + 1 = j /\ i + 1 \in Nat
      /\ j \in Nat
  BY <1>1, <1>5
<1>7. d \in DOMAIN edges /\ edges[d][1] = edges[q[j - 1]][2] /\ edges[q[i + 1]][1] = edges[d][2]
  BY <1>5, <1>6 DEF Walk
<1>8. CASE j = i + 1
  <2>1. edges[d][1] = edges[d][2]
    BY <1>6, <1>7, <1>8
  <2>. QED  BY <1>7, <2>1 DEF OnCycle
<1>9. CASE j # i + 1
  <2>. DEFINE k == j - 1 - (i + 1)
  <2>1. k \in 0..N /\ (i + 1) + k = j - 1
    BY <1>1, <1>5, <1>6, <1>9
  <2>. HIDE DEF k
  <2>2. edges[q[j - 1]][2] \in Reach(edges, edges[q[i + 1]][1])
    <3>1. edges[q[(i + 1) + k]][2] \in Reach(edges, edges[q[i + 1]][1])
      BY <1>6, <2>1, ReachFollows
    <3>. QED  BY <2>1, <3>1
  <2>. QED  BY <1>7, <2>2 DEF OnCycle
<1>. QED  BY <1>8, <1>9

\* Every edge goes down.
Descends(rank, edges) ==
    \A i \in DOMAIN edges : rank[edges[i][2]] < rank[edges[i][1]]

\* Who only goes down does not come round.
LEMMA NoCycleDown ==
    ASSUME NEW S, NEW edges, \A i \in DOMAIN edges : edges[i][1] \in S /\ edges[i][2] \in S,
           NEW rank \in [S -> Nat], Descends(rank, edges), IsFiniteSet(DOMAIN edges)
    PROVE  OnCycle(edges) = {}
<1>. SUFFICES ASSUME NEW d \in OnCycle(edges) PROVE FALSE
  OBVIOUS
<1>. DEFINE start == edges[d][2]
            below == {y \in S : rank[y] < rank[start]}
            N == Cardinality(DOMAIN edges)
<1>1. d \in DOMAIN edges /\ start \in S /\ edges[d][1] \in S
      /\ edges[d][1] \in Reach(edges, start) \cup {start} /\ rank[start] < rank[edges[d][1]]
  BY DEF OnCycle, Descends
<1>2. N \in Nat
  BY FS_CardinalityType
<1>3. PICK seen : Grows(seen, edges, start) /\ Reach(edges, start) = seen[N]
  BY ReachIs
<1>. HIDE DEF start
<1>4. ASSUME NEW from, from \subseteq below \cup {start}
      PROVE  ParentsRequired(edges, from) \subseteq below
  <2>. SUFFICES ASSUME NEW i \in DOMAIN edges, edges[i][1] \in from
                PROVE  edges[i][2] \in below
    BY DEF ParentsRequired
  <2>1. edges[i][2] \in S /\ edges[i][1] \in S /\ rank[edges[i][2]] < rank[edges[i][1]]
    BY DEF Descends
  <2>2. rank[edges[i][1]] <= rank[start]
    BY <1>1, <1>4, <2>1
  <2>. QED  BY <1>1, <2>1, <2>2
<1>. HIDE DEF below
<1>. DEFINE G == {n \in Nat : seen[n] \subseteq below}
<1>5. 0 \in G
  BY <1>3, <1>4 DEF Grows
<1>6. ASSUME NEW n \in Nat, n \in G PROVE n + 1 \in G
  <2>1. seen[n + 1] = seen[n] \cup ParentsRequired(edges, seen[n])
    BY <1>3 DEF Grows
  <2>2. ParentsRequired(edges, seen[n]) \subseteq below
    BY <1>4, <1>6
  <2>. QED  BY <1>6, <2>1, <2>2
<1>7. Nat \subseteq G
  <2>. HIDE DEF G
  <2>. QED  BY <1>5, <1>6, ClimbsForever
<1>8. edges[d][1] \in below \cup {start}
  BY <1>1, <1>2, <1>3, <1>7
<1>. QED  BY <1>1, <1>8 DEF below

\* Where nothing comes round, parents can be ranked below their children.
LEMMA CanRank ==
    ASSUME NEW S, IsFiniteSet(S), NEW edges, IsFiniteSet(DOMAIN edges),
           \A i \in DOMAIN edges : edges[i][1] \in S /\ edges[i][2] \in S,
           OnCycle(edges) = {}
    PROVE  \E rank \in [S -> 1..Cardinality(S)] : Descends(rank, edges)
<1>. DEFINE N == Cardinality(S)
            Ranks(rank, T) == \A i \in DOMAIN edges : edges[i][1] \in T =>
                                edges[i][2] \in T /\ rank[edges[i][2]] < rank[edges[i][1]]
            Ranked(n) == \E T \in SUBSET S : Cardinality(T) = n /\ \E rank \in [T -> 1..n] : Ranks(rank, T)
            G == {n \in Nat : n <= N => Ranked(n)}
<1>1. N \in Nat
  BY FS_CardinalityType
<1>2. 0 \in G
  <2>1. Cardinality({}) = 0
    BY FS_EmptySet
  <2>2. [x \in {} |-> 0] \in [{} -> 1..0] /\ Ranks([x \in {} |-> 0], {})
    OBVIOUS
  <2>. HIDE DEF Ranks
  <2>. QED  BY <2>1, <2>2
<1>3. ASSUME NEW n \in Nat, Ranked(n), n + 1 <= N PROVE Ranked(n + 1)
  <2>1. PICK T \in SUBSET S : Cardinality(T) = n /\ \E rank \in [T -> 1..n] : Ranks(rank, T)
    BY <1>3
  <2>2. PICK rank \in [T -> 1..n] : Ranks(rank, T)
    BY <2>1
  <2>. DEFINE U == S \ T
              D == {d \in DOMAIN edges : edges[d][1] \in U /\ edges[d][2] \in U}
  <2>3. U # {}
    <3>1. T # S
      BY <1>1, <1>3, <2>1
    <3>. QED  BY <3>1
  <2>4. \E x \in U : \A d \in D : edges[d][1] # x
    <3>. SUFFICES ASSUME \A x \in U : \E d \in D : edges[d][1] = x PROVE FALSE
      OBVIOUS
    <3>. DEFINE onward(d) == CHOOSE e \in D : edges[e][1] = edges[d][2]
                f == [d \in D |-> onward(d)]
    <3>1. ASSUME NEW d \in D PROVE onward(d) \in D /\ edges[onward(d)][1] = edges[d][2]
      <4>1. \E e \in D : edges[e][1] = edges[d][2]
        OBVIOUS
      <4>. HIDE DEF D
      <4>. QED  BY <4>1
    <3>2. \E d0 : d0 \in D
      BY <2>3
    <3>3. D \subseteq DOMAIN edges
      OBVIOUS
    <3>. HIDE DEF D, onward
    <3>4. f \in [D -> D]
      BY <3>1
    <3>5. PICK d0 \in D : TRUE
      BY <3>2
    <3>6. PICK q \in [Nat -> D] : q[0] = d0 /\ \A k \in Nat : q[k + 1] = f[q[k]]
      <4>. HIDE DEF f
      <4>. QED  BY <3>4, <3>5, Iterates
    <3>7. Walk(edges, q)
      <4>1. q \in [Nat -> DOMAIN edges]
        BY <3>3, <3>6
      <4>2. ASSUME NEW k \in Nat PROVE edges[q[k + 1]][1] = edges[q[k]][2]
        <5>1. q[k] \in D /\ q[k + 1] = onward(q[k])
          BY <3>6
        <5>. QED  BY <3>1, <5>1
      <4>. QED  BY <4>1, <4>2 DEF Walk
    <3>. QED  BY <3>7, WalksComeRound
  <2>5. PICK x \in U : \A d \in D : edges[d][1] # x
    BY <2>4
  <2>. DEFINE V == T \cup {x}
              higher == [y \in V |-> IF y \in T THEN rank[y] ELSE n + 1]
  <2>6. V \in SUBSET S /\ Cardinality(V) = n + 1
    <3>1. IsFiniteSet(T) /\ x \notin T
      BY FS_Subset
    <3>2. Cardinality(V) = Cardinality(T) + 1
      BY <3>1, FS_AddElement
    <3>. QED  BY <2>1, <3>2
  <2>7. higher \in [V -> 1..(n + 1)]
    <3>1. \A y \in T : rank[y] \in 1..(n + 1)
      BY <2>2
    <3>2. n + 1 \in 1..(n + 1)
      OBVIOUS
    <3>. QED  BY <3>1, <3>2
  <2>8. ASSUME NEW i \in DOMAIN edges, edges[i][1] \in V
        PROVE  edges[i][2] \in V /\ higher[edges[i][2]] < higher[edges[i][1]]
    <3>1. CASE edges[i][1] \in T
      <4>1. edges[i][2] \in T /\ rank[edges[i][2]] < rank[edges[i][1]]
        BY <2>2, <3>1
      <4>. QED  BY <3>1, <4>1
    <3>2. CASE edges[i][1] = x
      <4>1. edges[i][2] \in S /\ i \notin D /\ x \in U
        BY <2>5, <3>2
      <4>2. edges[i][2] \in T
        BY <3>2, <4>1
      <4>3. higher[edges[i][2]] = rank[edges[i][2]] /\ rank[edges[i][2]] \in 1..n
        BY <2>2, <4>2
      <4>4. higher[edges[i][1]] = n + 1
        BY <3>2
      <4>. QED  BY <4>2, <4>3, <4>4
    <3>. QED  BY <2>8, <3>1, <3>2
  <2>. HIDE DEF higher, V
  <2>9. Ranks(higher, V)
    BY <2>8
  <2>. HIDE DEF Ranks
  <2>. QED  BY <2>6, <2>7, <2>9
<1>4. ASSUME NEW n \in Nat, n \in G PROVE n + 1 \in G
  <2>. HIDE DEF Ranked
  <2>1. n + 1 <= N => Ranked(n)
    BY <1>1, <1>4
  <2>2. n + 1 <= N => Ranked(n + 1)
    <3>. HIDE DEF G, N
    <3>. QED  BY <1>3, <2>1
  <2>. QED  BY <2>2
<1>5. Nat \subseteq G
  <2>. HIDE DEF G
  <2>. QED  BY <1>2, <1>4, ClimbsForever
<1>6. PICK T \in SUBSET S : Cardinality(T) = N /\ \E rank \in [T -> 1..N] : Ranks(rank, T)
  BY <1>1, <1>5
<1>7. T = S
  <2>. HIDE DEF Ranks
  <2>. QED  BY <1>6, FS_Subset
<1>8. PICK rank \in [S -> 1..N] : Ranks(rank, S)
  <2>. HIDE DEF Ranks
  <2>. QED  BY <1>6, <1>7
<1>9. Descends(rank, edges)
  BY <1>8 DEF Descends
<1>. QED  BY <1>9

\* The two ends of a required edge, and the relationship it comes from.
LEMMA EdgesOf ==
    ASSUME NEW s \in Schema, Ends(s) \subseteq EntityNames(s)
    PROVE  /\ IsFiniteSet(DOMAIN RequiredEdges(s))
           /\ \A i \in DOMAIN RequiredEdges(s) :
                /\ RequiredEdges(s)[i][1] \in EntityNames(s)
                /\ RequiredEdges(s)[i][2] \in EntityNames(s)
           /\ IsFiniteSet(EntityNames(s))
           /\ \A rank : Descends(rank, RequiredEdges(s)) <=>
                \A r \in Range(s.rels) : ~r.nullable =>
                    /\ r.type = "ManyToOne" => rank[r.to] < rank[r.from]
                    /\ r.type = "OneToMany" => rank[r.from] < rank[r.to]
<1>. DEFINE D == {i \in DOMAIN s.rels : s.rels[i].type \in {"ManyToOne", "OneToMany"}
                                          /\ ~s.rels[i].nullable}
            edge(i) == IF s.rels[i].type = "ManyToOne"
                       THEN <<s.rels[i].from, s.rels[i].to>>
                       ELSE <<s.rels[i].to, s.rels[i].from>>
            n == Len(s.rels)
            m == Len(s.entities)
<1>1. n \in Nat /\ DOMAIN s.rels = 1..n /\ m \in Nat /\ DOMAIN s.entities = 1..m
  BY SchemaParts
<1>2. RequiredEdges(s) = [i \in D |-> edge(i)]
  BY DEF RequiredEdges
<1>3. IsFiniteSet(D)
  <2>1. D \in SUBSET (1..n)
    BY <1>1
  <2>2. IsFiniteSet(1..n)
    BY <1>1, FS_Interval
  <2>. HIDE DEF D
  <2>. QED  BY <2>1, <2>2, FS_Subset
<1>4. ASSUME NEW i \in D PROVE edge(i)[1] \in EntityNames(s) /\ edge(i)[2] \in EntityNames(s)
  <2>1. {s.rels[i].from, s.rels[i].to} \subseteq Ends(s)
    BY EndsOf
  <2>. QED  BY <2>1
<1>5. IsFiniteSet(EntityNames(s))
  <2>. DEFINE f == [i \in 1..m |-> s.entities[i].name]
  <2>1. f \in Surjection(1..m, EntityNames(s))
    BY <1>1 DEF EntityNames, Surjection
  <2>2. IsFiniteSet(1..m)
    BY <1>1, FS_Interval
  <2>. HIDE DEF f, m
  <2>. QED  BY <2>1, <2>2, FS_Surjection
<1>6. ASSUME NEW rank
      PROVE  Descends(rank, RequiredEdges(s)) <=>
                \A r \in Range(s.rels) : ~r.nullable =>
                    /\ r.type = "ManyToOne" => rank[r.to] < rank[r.from]
                    /\ r.type = "OneToMany" => rank[r.from] < rank[r.to]
  <2>. DEFINE down(r) == ~r.nullable =>
                    /\ r.type = "ManyToOne" => rank[r.to] < rank[r.from]
                    /\ r.type = "OneToMany" => rank[r.from] < rank[r.to]
  <2>1. Descends(rank, RequiredEdges(s)) <=> \A i \in D : rank[edge(i)[2]] < rank[edge(i)[1]]
    BY <1>2 DEF Descends
  <2>2. (\A i \in D : rank[edge(i)[2]] < rank[edge(i)[1]]) <=> \A i \in DOMAIN s.rels : down(s.rels[i])
    <3>1. ASSUME NEW i \in DOMAIN s.rels
          PROVE  down(s.rels[i]) <=> (i \in D => rank[edge(i)[2]] < rank[edge(i)[1]])
      <4>1. CASE s.rels[i].type = "ManyToOne"
        BY <4>1
      <4>2. CASE s.rels[i].type = "OneToMany"
        BY <4>2
      <4>3. CASE s.rels[i].type \notin {"ManyToOne", "OneToMany"}
        BY <4>3
      <4>. QED  BY <4>1, <4>2, <4>3
    <3>2. D \subseteq DOMAIN s.rels
      OBVIOUS
    <3>. HIDE DEF down, D, edge
    <3>. QED  BY <3>1, <3>2
  <2>3. (\A i \in DOMAIN s.rels : down(s.rels[i])) <=> \A r \in Range(s.rels) : down(r)
    <3>. HIDE DEF down
    <3>. QED  BY DEF Range
  <2>. HIDE DEF D, edge
  <2>. QED  BY <2>1, <2>2, <2>3
<1>. HIDE DEF D, edge, n, m
<1>7. DOMAIN RequiredEdges(s) = D /\ \A i \in D : RequiredEdges(s)[i] = edge(i)
  BY <1>2
<1>. QED  BY <1>3, <1>4, <1>5, <1>6, <1>7

\* Required parents come round exactly where no order lets rows be inserted.
LEMMA RequiredRelationshipCyclesExact ==
    ASSUME NEW s \in Schema
    PROVE  /\ \A f \in Range(RequiredRelationshipCycles(s)) : f.severity = "error"
           /\ Ends(s) \subseteq EntityNames(s) =>
                (Range(RequiredRelationshipCycles(s)) = {} <=> Insertable(s))
<1>. DEFINE edges == RequiredEdges(s)
            child(i) == edges[i][1]
            parent(i) == edges[i][2]
            cycleOf(i) ==
                {child(i)} \cup {n \in Reach(edges, child(i)) : child(i) \in Reach(edges, n)}
            onCycle == {i \in DOMAIN edges :
                            child(i) \in Reach(edges, parent(i)) \cup {parent(i)}}
            P == {i \in onCycle : \A j \in onCycle : j < i => cycleOf(j) # cycleOf(i)}
            places == InOrder(P)
            found == RequiredRelationshipCycles(s)
            fixed(i) == [s EXCEPT !.rels[i].nullable = TRUE]
<1>1. found = [k \in DOMAIN places |->
        FixedBy(Error("REQUIRED_RELATIONSHIP_CYCLE", edges[places[k]][1], NoName,
                      Describe(s.rels[places[k]])), fixed(places[k]))]
  BY DEF RequiredRelationshipCycles, Each
<1>2. onCycle = OnCycle(edges)
  BY DEF OnCycle
<1>3. DOMAIN edges \subseteq 1..Len(s.rels) /\ Len(s.rels) \in Nat
  BY SchemaParts DEF RequiredEdges
<1>. HIDE DEF edges
<1>4. P \subseteq onCycle /\ onCycle \subseteq 1..Len(s.rels)
  BY <1>3
<1>. HIDE DEF cycleOf, onCycle
<1>5. P = {} <=> onCycle = {}
  <2>1. ASSUME onCycle # {} PROVE P # {}
    <3>1. onCycle \subseteq Nat
      BY <1>3, <1>4
    <3>2. PICK i \in onCycle : \A j \in onCycle : i <= j
      BY <2>1, <3>1, LeastOf
    <3>3. \A j \in onCycle : ~(j < i)
      BY <3>1, <3>2
    <3>. QED  BY <3>3
  <2>. QED  BY <1>4, <2>1
<1>6. Range(places) = P
  <2>. HIDE DEF P
  <2>. QED  BY <1>3, <1>4, InOrderRange
<1>. HIDE DEF P, places, fixed, found
<1>7. \A k \in DOMAIN places : found[k].severity = "error"
  BY <1>1, Severities
<1>8. Range(found) = {} <=> Range(places) = {}
  BY <1>1 DEF Range
<1>9. \A f \in Range(found) : f.severity = "error"
  <2>1. DOMAIN found = DOMAIN places
    BY <1>1
  <2>. QED  BY <1>7, <2>1 DEF Range
<1>10. ASSUME Ends(s) \subseteq EntityNames(s) PROVE onCycle = {} <=> Insertable(s)
  <2>. DEFINE S == EntityNames(s)
  <2>1. /\ IsFiniteSet(S) /\ IsFiniteSet(DOMAIN edges)
        /\ \A i \in DOMAIN edges : edges[i][1] \in S /\ edges[i][2] \in S
    BY <1>10, EdgesOf DEF edges
  <2>2. Insertable(s) <=> \E rank \in [S -> 1..Cardinality(S)] : Descends(rank, edges)
    BY <1>10, EdgesOf DEF Insertable, edges
  <2>. HIDE DEF S
  <2>3. ASSUME NEW rank \in [S -> 1..Cardinality(S)], Descends(rank, edges) PROVE onCycle = {}
    <3>1. Cardinality(S) \in Nat
      BY <2>1, FS_CardinalityType
    <3>2. rank \in [S -> Nat]
      BY <3>1
    <3>. QED  BY <1>2, <2>1, <2>3, <3>2, NoCycleDown
  <2>4. ASSUME onCycle = {}
        PROVE  \E rank \in [S -> 1..Cardinality(S)] : Descends(rank, edges)
    BY <1>2, <2>1, <2>4, CanRank
  <2>. QED  BY <2>2, <2>3, <2>4
<1>. QED  BY <1>5, <1>6, <1>8, <1>9, <1>10 DEF found

-----------------------------------------------------------------------------
(* All rules together.                                                     *)

LEMMA WarningsOnly ==
    ASSUME NEW s \in Schema
    PROVE  \A f \in Range(IdFields(s)) \cup Range(RedundantManyToMany(s)) : f.severity = "warning"
<1>1. \A f \in Range(IdFields(s)) : f.severity = "warning"
  <2>. DEFINE ids == FieldsWhere(s, LAMBDA i, j :
                        LET f == s.entities[i].fields[j]
                        IN  SameIgnoringCase(f.name, <<"id">>) /\ ~f.primary)
              found == IdFields(s)
  <2>1. found = [k \in DOMAIN ids |->
            FixedBy(Warning("ID_FIELD", s.entities[ids[k][1]].name, Field(s, ids[k]).name, <<>>),
                    WithoutField(s, ids[k]))]
    BY DEF IdFields, Each
  <2>. HIDE DEF ids, found
  <2>2. \A k \in DOMAIN found : found[k].severity = "warning"
    BY <2>1, Severities
  <2>. QED  BY <2>2 DEF Range, found
<1>2. \A f \in Range(RedundantManyToMany(s)) : f.severity = "warning"
  <2>. DEFINE P == {i \in DOMAIN s.rels :
                    /\ s.rels[i].type = "ManyToMany"
                    /\ s.rels[i].from # s.rels[i].to
                    /\ JoinsOf(s, s.rels[i]) # {}}
              places == InOrder(P)
              without(i) == [s EXCEPT !.rels = RemoveAt(s.rels, i)]
              found == RedundantManyToMany(s)
  <2>1. found = [k \in DOMAIN places |->
        FixedBy(Warning("REDUNDANT_MANY_TO_MANY", s.rels[places[k]].from, NoName,
                        Describe(s.rels[places[k]])), without(places[k]))]
    BY DEF RedundantManyToMany, Each
  <2>. HIDE DEF places, found, without
  <2>2. \A k \in DOMAIN found : found[k].severity = "warning"
    BY <2>1, Severities
  <2>. QED  BY <2>2 DEF Range, found
<1>. QED  BY <1>1, <1>2

\* A sound sequence of findings, and which they are.
Collects(s, found, all) == Sound(s, found) /\ all = Range(found)

LEMMA CollectsConcat ==
    ASSUME NEW s, NEW f, NEW g, NEW P, NEW Q, Collects(s, f, P), Collects(s, g, Q)
    PROVE  Collects(s, f \o g, P \cup Q)
<1>. DEFINE S == Range(f) \cup Range(g)
            both == f \o g
<1>1. /\ f \in Seq(Range(f)) /\ g \in Seq(Range(g)) /\ P = Range(f) /\ Q = Range(g)
      /\ Sound(s, f) /\ Sound(s, g)
  BY DEF Collects, Sound
<1>2. Range(f) \subseteq S /\ Range(g) \subseteq S /\ S = P \cup Q
  BY <1>1
<1>. HIDE DEF S
<1>3. f \in Seq(S) /\ g \in Seq(S)
  BY <1>1, <1>2
<1>4. Sound(s, f \o g)
  BY <1>1, SoundConcat
<1>5. Range(f \o g) = Range(f) \cup Range(g)
  BY <1>3, ConcatRange
<1>6. Sound(s, both) /\ Range(both) = P \cup Q
  BY <1>1, <1>4, <1>5
<1>. HIDE DEF both
<1>7. Collects(s, both, P \cup Q)
  BY <1>6 DEF Collects
<1>. QED  BY <1>7 DEF both

LEMMA SoundCollects ==
    ASSUME NEW s, NEW f, Sound(s, f)
    PROVE  Collects(s, f, Range(f))
BY DEF Collects

\* What the rules that report errors find.
ErrorsFound(s, props) ==
    Range(DuplicateEntityNames(s)) \cup Range(ReservedEntityNames(s))
    \cup Range(DuplicateFieldNames(s)) \cup Range(UnknownFieldTypes(s))
    \cup Range(EnumsWithoutValues(s)) \cup Range(InvalidRelationshipTypes(s))
    \cup Range(MissingEntities(s)) \cup Range(ForeignKeyFieldDuplicates(s, props))
    \cup Range(FieldRelationshipCollisions(s, props))
    \cup Range(RelationshipPropertyClashes(s, props))
    \cup Range(UnknownIndexFields(s, props)) \cup Range(RequiredRelationshipCycles(s))

LEMMA FindingsAre ==
    ASSUME NEW s \in Schema, NEW props, props = Generated(s.rels)
    PROVE  Range(Findings(s)) = ErrorsFound(s, props)
                \cup Range(IdFields(s)) \cup Range(RedundantManyToMany(s))
<1>. DEFINE a == DuplicateEntityNames(s) \o ReservedEntityNames(s) \o DuplicateFieldNames(s)
            b == a \o UnknownFieldTypes(s) \o EnumsWithoutValues(s)
            c == b \o InvalidRelationshipTypes(s) \o MissingEntities(s)
            d == c \o ForeignKeyFieldDuplicates(s, props) \o FieldRelationshipCollisions(s, props)
            e == d \o RelationshipPropertyClashes(s, props) \o UnknownIndexFields(s, props)
            f == e \o RequiredRelationshipCycles(s) \o IdFields(s)
<1>1. Findings(s) = f \o RedundantManyToMany(s)
  BY DEF Findings, FindingsGiven
<1>2. props \in Seq(PropertyRecord(s))
  BY GeneratedType
<1>. DEFINE A == Range(DuplicateEntityNames(s)) \cup Range(ReservedEntityNames(s))
                 \cup Range(DuplicateFieldNames(s))
            B == A \cup Range(UnknownFieldTypes(s)) \cup Range(EnumsWithoutValues(s))
            C == B \cup Range(InvalidRelationshipTypes(s)) \cup Range(MissingEntities(s))
            D == C \cup Range(ForeignKeyFieldDuplicates(s, props))
                   \cup Range(FieldRelationshipCollisions(s, props))
            E == D \cup Range(RelationshipPropertyClashes(s, props))
                   \cup Range(UnknownIndexFields(s, props))
            G == E \cup Range(RequiredRelationshipCycles(s)) \cup Range(IdFields(s))
<1>3. Collects(s, a, A)
  <2>1. /\ Collects(s, DuplicateEntityNames(s), Range(DuplicateEntityNames(s)))
        /\ Collects(s, ReservedEntityNames(s), Range(ReservedEntityNames(s)))
        /\ Collects(s, DuplicateFieldNames(s), Range(DuplicateFieldNames(s)))
    BY DuplicateEntityNamesSound, ReservedEntityNamesSound, DuplicateFieldNamesSound, SoundCollects
  <2>2. Collects(s, DuplicateEntityNames(s) \o ReservedEntityNames(s), Range(DuplicateEntityNames(s)) \cup Range(ReservedEntityNames(s)))
    BY <2>1, CollectsConcat
  <2>. QED  BY <2>1, <2>2, CollectsConcat
<1>. HIDE DEF a, A
<1>4. Collects(s, b, B)
  <2>1. /\ Collects(s, UnknownFieldTypes(s), Range(UnknownFieldTypes(s)))
        /\ Collects(s, EnumsWithoutValues(s), Range(EnumsWithoutValues(s)))
    BY UnknownFieldTypesSound, EnumsWithoutValuesSound, SoundCollects
  <2>2. Collects(s, a \o UnknownFieldTypes(s), A \cup Range(UnknownFieldTypes(s)))
    BY <1>3, <2>1, CollectsConcat
  <2>. QED  BY <2>1, <2>2, CollectsConcat
<1>. HIDE DEF b, B
<1>5. Collects(s, c, C)
  <2>1. /\ Collects(s, InvalidRelationshipTypes(s), Range(InvalidRelationshipTypes(s)))
        /\ Collects(s, MissingEntities(s), Range(MissingEntities(s)))
    BY InvalidRelationshipTypesSound, MissingEntitiesSound, SoundCollects
  <2>2. Collects(s, b \o InvalidRelationshipTypes(s), B \cup Range(InvalidRelationshipTypes(s)))
    BY <1>4, <2>1, CollectsConcat
  <2>. QED  BY <2>1, <2>2, CollectsConcat
<1>. HIDE DEF c, C
<1>6. Collects(s, d, D)
  <2>1. /\ Collects(s, ForeignKeyFieldDuplicates(s, props), Range(ForeignKeyFieldDuplicates(s, props)))
        /\ Collects(s, FieldRelationshipCollisions(s, props), Range(FieldRelationshipCollisions(s, props)))
    BY ForeignKeyFieldDuplicatesSound, FieldRelationshipCollisionsSound, SoundCollects
  <2>2. Collects(s, c \o ForeignKeyFieldDuplicates(s, props), C \cup Range(ForeignKeyFieldDuplicates(s, props)))
    BY <1>5, <2>1, CollectsConcat
  <2>. QED  BY <2>1, <2>2, CollectsConcat
<1>. HIDE DEF d, D
<1>7. Collects(s, e, E)
  <2>1. /\ Collects(s, RelationshipPropertyClashes(s, props), Range(RelationshipPropertyClashes(s, props)))
        /\ Collects(s, UnknownIndexFields(s, props), Range(UnknownIndexFields(s, props)))
    BY <1>2, RelationshipPropertyClashesSound, UnknownIndexFieldsSound, SoundCollects
  <2>2. Collects(s, d \o RelationshipPropertyClashes(s, props), D \cup Range(RelationshipPropertyClashes(s, props)))
    BY <1>6, <2>1, CollectsConcat
  <2>. QED  BY <2>1, <2>2, CollectsConcat
<1>. HIDE DEF e, E
<1>8. Collects(s, f, G)
  <2>1. /\ Collects(s, RequiredRelationshipCycles(s), Range(RequiredRelationshipCycles(s)))
        /\ Collects(s, IdFields(s), Range(IdFields(s)))
    BY RequiredRelationshipCyclesSound, IdFieldsSound, SoundCollects
  <2>2. Collects(s, e \o RequiredRelationshipCycles(s), E \cup Range(RequiredRelationshipCycles(s)))
    BY <1>7, <2>1, CollectsConcat
  <2>. QED  BY <2>1, <2>2, CollectsConcat
<1>. HIDE DEF f, G
<1>9. Range(Findings(s)) = G \cup Range(RedundantManyToMany(s))
  <2>1. Collects(s, RedundantManyToMany(s), Range(RedundantManyToMany(s)))
    BY RedundantManyToManySound, SoundCollects
  <2>2. Collects(s, f \o RedundantManyToMany(s), G \cup Range(RedundantManyToMany(s)))
    BY <1>8, <2>1, CollectsConcat
  <2>. QED  BY <1>1, <2>2 DEF Collects
<1>. QED  BY <1>9 DEF ErrorsFound, A, B, C, D, E, G

LEMMA ErrorsFoundAre ==
    ASSUME NEW s \in Schema, NEW props, props = Generated(s.rels)
    PROVE  Errors(s) = ErrorsFound(s, props)
<1>. DEFINE errors == ErrorsFound(s, props)
<1>1. Range(Findings(s)) = errors \cup Range(IdFields(s)) \cup Range(RedundantManyToMany(s))
  BY FindingsAre
<1>2. \A x \in errors : x.severity = "error"
  <2>1. /\ \A x \in Range(DuplicateEntityNames(s)) : x.severity = "error"
        /\ \A x \in Range(ReservedEntityNames(s)) : x.severity = "error"
        /\ \A x \in Range(DuplicateFieldNames(s)) : x.severity = "error"
    BY DuplicateEntityNamesExact, ReservedEntityNamesExact, DuplicateFieldNamesExact, Zenon DEF Detects
  <2>2. /\ \A x \in Range(UnknownFieldTypes(s)) : x.severity = "error"
        /\ \A x \in Range(EnumsWithoutValues(s)) : x.severity = "error"
    BY UnknownFieldTypesExact, EnumsWithoutValuesExact, Zenon DEF Detects
  <2>3. /\ \A x \in Range(InvalidRelationshipTypes(s)) : x.severity = "error"
        /\ \A x \in Range(MissingEntities(s)) : x.severity = "error"
    BY InvalidRelationshipTypesExact, MissingEntitiesExact, Zenon DEF Detects
  <2>4. /\ \A x \in Range(ForeignKeyFieldDuplicates(s, props)) : x.severity = "error"
        /\ \A x \in Range(FieldRelationshipCollisions(s, props)) : x.severity = "error"
    BY CollisionsExact, Zenon
  <2>5. \A x \in Range(RelationshipPropertyClashes(s, props)) : x.severity = "error"
    BY ClashesExact, Zenon DEF Detects
  <2>6. \A x \in Range(UnknownIndexFields(s, props)) : x.severity = "error"
    BY UnknownIndexFieldsExact, Zenon DEF Detects
  <2>7. \A x \in Range(RequiredRelationshipCycles(s)) : x.severity = "error"
    BY RequiredRelationshipCyclesExact, Zenon
  <2>. QED  BY <2>1, <2>2, <2>3, <2>4, <2>5, <2>6, <2>7 DEF ErrorsFound
<1>. HIDE DEF errors
<1>3. Errors(s) = errors
  BY <1>1, <1>2, WarningsOnly DEF Errors
<1>. QED  BY <1>3 DEF errors

LEMMA ErrorsOf ==
    ASSUME NEW s \in Schema, NEW props, props = Generated(s.rels)
    PROVE  Errors(s) = {} <=>
            /\ Range(DuplicateEntityNames(s)) = {}
            /\ Range(ReservedEntityNames(s)) = {}
            /\ Range(DuplicateFieldNames(s)) = {}
            /\ Range(UnknownFieldTypes(s)) = {}
            /\ Range(EnumsWithoutValues(s)) = {}
            /\ Range(InvalidRelationshipTypes(s)) = {}
            /\ Range(MissingEntities(s)) = {}
            /\ Range(ForeignKeyFieldDuplicates(s, props)) = {}
            /\ Range(FieldRelationshipCollisions(s, props)) = {}
            /\ Range(RelationshipPropertyClashes(s, props)) = {}
            /\ Range(UnknownIndexFields(s, props)) = {}
            /\ Range(RequiredRelationshipCycles(s)) = {}
BY ErrorsFoundAre DEF ErrorsFound

\* The rules report an error exactly where what they look at is wrong.
LEMMA ErrorsExact ==
    ASSUME NEW s \in Schema
    PROVE  Errors(s) = {} <=> RulesHold(s)
<1>. DEFINE props == Generated(s.rels)
            uniqueEntities == \A i, j \in DOMAIN s.entities :
                                i # j => s.entities[i].name # s.entities[j].name
            freeEntities == EntityNames(s) \cap Reserved = {}
            uniqueFields(i) == \A j, k \in DOMAIN s.entities[i].fields :
                        j # k => s.entities[i].fields[j].name # s.entities[i].fields[k].name
            typed(i) == \A j \in DOMAIN s.entities[i].fields :
                        s.entities[i].fields[j].type \in FieldType
            valued(i) == \A j \in DOMAIN s.entities[i].fields :
                        s.entities[i].fields[j].type = "enum" => s.entities[i].fields[j].values
            typedRels == \A i \in DOMAIN s.rels : s.rels[i].type \in RelationshipType
            ended == \A i \in DOMAIN s.rels : {s.rels[i].from, s.rels[i].to} \subseteq EntityNames(s)
            own(i) == FieldNames(s, i) \cap GivenMembers(s, s.entities[i].name) = {}
            apart == \A d, c \in GeneratingSides(s) :
                        d.entity = c.entity /\ d.rel # c.rel
                            => GivenNames(d) \cap GivenNames(c) = {}
<1>1. Range(DuplicateEntityNames(s)) = {} <=> uniqueEntities
  BY DuplicateEntityNamesExact, Zenon DEF Detects
<1>2. Range(ReservedEntityNames(s)) = {} <=> freeEntities
  BY ReservedEntityNamesExact, Zenon DEF Detects
<1>3. Range(DuplicateFieldNames(s)) = {} <=> \A i \in DOMAIN s.entities : uniqueFields(i)
  BY DuplicateFieldNamesExact, Zenon DEF Detects
<1>4. Range(UnknownFieldTypes(s)) = {} <=> \A i \in DOMAIN s.entities : typed(i)
  BY UnknownFieldTypesExact, Zenon DEF Detects
<1>5. Range(EnumsWithoutValues(s)) = {} <=> \A i \in DOMAIN s.entities : valued(i)
  BY EnumsWithoutValuesExact, Zenon DEF Detects
<1>6. Range(InvalidRelationshipTypes(s)) = {} <=> typedRels
  BY InvalidRelationshipTypesExact, Zenon DEF Detects
<1>7. Range(MissingEntities(s)) = {} <=> ended
  BY MissingEntitiesExact, Zenon DEF Detects
<1>8. (/\ Range(ForeignKeyFieldDuplicates(s, props)) = {}
       /\ Range(FieldRelationshipCollisions(s, props)) = {})
      <=> \A i \in DOMAIN s.entities : own(i)
  BY CollisionsExact
<1>9. Range(RelationshipPropertyClashes(s, props)) = {} <=> apart
  BY ClashesExact, Zenon DEF Detects
<1>10. Range(UnknownIndexFields(s, props)) = {} <=> \A i \in DOMAIN s.entities : IndexesKnown(s, i)
  BY UnknownIndexFieldsExact, Zenon DEF Detects
<1>11. ended => (Range(RequiredRelationshipCycles(s)) = {} <=> Insertable(s))
  <2>1. ended => Ends(s) \subseteq EntityNames(s)
    BY DEF Ends, Range
  <2>. QED  BY <2>1, RequiredRelationshipCyclesExact
<1>12. EntitiesCompile(s) <=> uniqueEntities /\ freeEntities
  BY DEF EntitiesCompile
<1>13. RelationshipsApart(s) <=> ended /\ typedRels /\ apart
  <2>1. (\A r \in Range(s.rels) : {r.from, r.to} \subseteq EntityNames(s) /\ r.type \in RelationshipType)
        <=> ended /\ typedRels
    BY DEF Range
  <2>. HIDE DEF ended, typedRels
  <2>. QED  BY <2>1 DEF RelationshipsApart
<1>14. ASSUME NEW i \in DOMAIN s.entities
       PROVE  FieldsCompile(s, i) <=> uniqueFields(i) /\ typed(i) /\ valued(i) /\ own(i)
  BY DEF FieldsCompile
<1>15. RulesHold(s) <=> /\ uniqueEntities /\ freeEntities
                        /\ ended /\ typedRels /\ apart
                        /\ \A i \in DOMAIN s.entities :
                             uniqueFields(i) /\ typed(i) /\ valued(i) /\ own(i) /\ IndexesKnown(s, i)
                        /\ Insertable(s)
  <2>. HIDE DEF uniqueEntities, freeEntities, ended, typedRels, apart, uniqueFields, typed, valued, own
  <2>. QED  BY <1>12, <1>13, <1>14 DEF RulesHold
<1>. HIDE DEF uniqueEntities, freeEntities, ended, typedRels, apart, uniqueFields, typed, valued, own
<1>16. Errors(s) = {} <=>
            /\ uniqueEntities /\ freeEntities
            /\ \A i \in DOMAIN s.entities : uniqueFields(i)
            /\ \A i \in DOMAIN s.entities : typed(i)
            /\ \A i \in DOMAIN s.entities : valued(i)
            /\ typedRels /\ ended
            /\ \A i \in DOMAIN s.entities : own(i)
            /\ apart
            /\ \A i \in DOMAIN s.entities : IndexesKnown(s, i)
            /\ Insertable(s)
  BY <1>1, <1>2, <1>3, <1>4, <1>5, <1>6, <1>7, <1>8, <1>9, <1>10, <1>11, ErrorsOf
<1>. QED  BY <1>15, <1>16

\* Two sides give a class one member: two relationships do, or one does.
LEMMA SidesApart ==
    ASSUME NEW s
    PROVE  RelationshipsCompile(s) <=> RelationshipsApart(s) /\ ~SidesClash(s)
BY DEF RelationshipsCompile, RelationshipsApart, SidesClash

\* An index names no column that is not there: none the rules do not know, and
\* no timestamp its entity lacks.
LEMMA IndexesThere ==
    ASSUME NEW s \in Schema
    PROVE  (\A i \in DOMAIN s.entities : IndexesCompile(s, i))
             <=> (\A i \in DOMAIN s.entities : IndexesKnown(s, i)) /\ ~TimestampMissing(s)
<1>. DEFINE rest(i) == FieldNames(s, i) \cup GivenMembers(s, s.entities[i].name)
<1>1. ASSUME NEW i \in DOMAIN s.entities
      PROVE  /\ Indexable(s, i) \subseteq AssumedColumns \cup rest(i)
             /\ (AssumedColumns \cup rest(i)) \ Indexable(s, i) \subseteq Timestamps
  <2>1. s.entities[i].timestamps \subseteq Timestamps
    BY SchemaParts DEF EntityRecord
  <2>. QED  BY <2>1 DEF Indexable, RowColumns, AssumedColumns
<1>2. ASSUME NEW i \in DOMAIN s.entities, NEW c \in DOMAIN s.entities[i].indexes
      PROVE  Range(s.entities[i].indexes[c].fields) \subseteq Indexable(s, i)
                <=> /\ Range(s.entities[i].indexes[c].fields) \subseteq AssumedColumns \cup rest(i)
                    /\ Range(s.entities[i].indexes[c].fields) \cap (Timestamps \ Indexable(s, i)) = {}
  <2>. DEFINE columns == Range(s.entities[i].indexes[c].fields)
              there == Indexable(s, i)
  <2>. HIDE DEF columns, there, rest
  <2>1. /\ there \subseteq AssumedColumns \cup rest(i)
        /\ (AssumedColumns \cup rest(i)) \ there \subseteq Timestamps
    BY <1>1 DEF there
  <2>2. columns \subseteq there
            <=> columns \subseteq AssumedColumns \cup rest(i) /\ columns \cap (Timestamps \ there) = {}
    BY <2>1
  <2>. QED  BY <2>2 DEF columns, there
<1>3. ASSUME NEW i \in DOMAIN s.entities
      PROVE  IndexesCompile(s, i) <=>
                \A c \in DOMAIN s.entities[i].indexes :
                    /\ s.entities[i].indexes[c].fields # <<>>
                    /\ Range(s.entities[i].indexes[c].fields) \subseteq Indexable(s, i)
  BY DEF IndexesCompile, Range
<1>4. ASSUME NEW i \in DOMAIN s.entities
      PROVE  IndexesKnown(s, i) <=>
                \A c \in DOMAIN s.entities[i].indexes :
                    /\ s.entities[i].indexes[c].fields # <<>>
                    /\ Range(s.entities[i].indexes[c].fields) \subseteq AssumedColumns \cup rest(i)
  BY DEF IndexesKnown
<1>5. TimestampMissing(s) <=>
        \E i \in DOMAIN s.entities : \E c \in DOMAIN s.entities[i].indexes :
            Range(s.entities[i].indexes[c].fields) \cap (Timestamps \ Indexable(s, i)) # {}
  BY DEF TimestampMissing, Range
<1>. HIDE DEF rest
<1>. QED  BY <1>2, <1>3, <1>4, <1>5

\* A schema compiles if what the rules look at is right, and so is what no rule
\* looks at.
LEMMA CompilesIs ==
    ASSUME NEW s \in Schema
    PROVE  Compiles(s) <=> RulesHold(s) /\ ~Unseen(s)
<1>1. MemberRepeatsColumn(s) <=> ~\A i \in DOMAIN s.entities : MembersCompile(s, i)
  BY DEF MemberRepeatsColumn
<1>. QED  BY <1>1, SidesApart, IndexesThere DEF Compiles, RulesHold, Unseen

-----------------------------------------------------------------------------
(* A renamed entity takes its references along.                            *)

Follow(n, old, to) == IF n = old THEN to ELSE n

RelFollowing(r, old, to) ==
    [r EXCEPT !.from = Follow(@, old, to), !.to = Follow(@, old, to)]

SideFollowing(d, old, to) ==
    [entity |-> Follow(d.entity, old, to), other |-> Follow(d.other, old, to), type |-> d.type,
     ref |-> Follow(d.ref, old, to), rel |-> d.rel, isFrom |-> d.isFrom]

\* t is s with one entity called otherwise, by a name that s does not use.
Renamed(s, t, old, to) ==
    /\ s \in Schema /\ t \in Schema /\ old \in EntityNames(s)
    /\ Ends(s) \subseteq EntityNames(s) /\ to \notin EntityNames(s)
    /\ \A k \in DOMAIN s.rels : s.rels[k].toName \notin {old, to}
    /\ DOMAIN t.rels = DOMAIN s.rels
    /\ \A k \in DOMAIN s.rels : t.rels[k] = RelFollowing(s.rels[k], old, to)
    /\ DOMAIN t.entities = DOMAIN s.entities
    /\ \A k \in DOMAIN s.entities :
        /\ t.entities[k].name = Follow(s.entities[k].name, old, to)
        /\ t.entities[k].fields = s.entities[k].fields

LEMMA FollowApart ==
    ASSUME NEW old, NEW to, NEW n, NEW m, n # to, m # to
    PROVE  Follow(n, old, to) = Follow(m, old, to) <=> n = m
BY DEF Follow

LEMMA RelFollows ==
    ASSUME NEW s, NEW t, NEW old, NEW to, Renamed(s, t, old, to), NEW k \in DOMAIN s.rels
    PROVE  /\ t.rels[k].from = Follow(s.rels[k].from, old, to)
           /\ t.rels[k].to = Follow(s.rels[k].to, old, to)
           /\ t.rels[k].type = s.rels[k].type /\ t.rels[k].toName = s.rels[k].toName
           /\ t.rels[k].nullable = s.rels[k].nullable /\ t.rels[k].bi = s.rels[k].bi
           /\ s.rels[k].from \in EntityNames(s) /\ s.rels[k].to \in EntityNames(s)
           /\ s.rels[k].from # to /\ s.rels[k].to # to
<1>. DEFINE r == s.rels[k]
<1>1. s \in Schema /\ r \in RelRecord /\ t.rels[k] = RelFollowing(r, old, to)
  BY SchemaParts DEF Renamed
<1>2. r.from \in EntityNames(s) /\ r.to \in EntityNames(s) /\ to \notin EntityNames(s)
  BY <1>1, EndsOf DEF Renamed
<1>. HIDE DEF r
<1>3. /\ RelFollowing(r, old, to).from = Follow(r.from, old, to)
      /\ RelFollowing(r, old, to).to = Follow(r.to, old, to)
      /\ RelFollowing(r, old, to).type = r.type /\ RelFollowing(r, old, to).toName = r.toName
      /\ RelFollowing(r, old, to).nullable = r.nullable /\ RelFollowing(r, old, to).bi = r.bi
  BY <1>1 DEF RelFollowing, RelRecord
<1>. QED  BY <1>1, <1>2, <1>3 DEF r

\* What the declaration in the other direction adds, and that it stays where it is.
SameSettings(rels, others) ==
    /\ {d.toName : d \in rels} = {d.toName : d \in others}
    /\ {d.bi : d \in rels} = {d.bi : d \in others}

LEMMA InverseFollows ==
    ASSUME NEW s, NEW t, NEW old, NEW to, Renamed(s, t, old, to), NEW k \in DOMAIN s.rels,
           NEW declared, declared = InverseOf(s.rels, s.rels[k]),
           NEW renamed, renamed = InverseOf(t.rels, t.rels[k])
    PROVE  /\ SameSettings(declared, renamed)
           /\ \A d \in declared : d.toName \notin {old, to}
<1>. DEFINE Q(u) == {i \in 1..Len(u.rels) : u.rels[i].from = u.rels[k].to
                        /\ u.rels[i].to = u.rels[k].from /\ u.rels[i].type = u.rels[k].type}
            first(u) == IF Q(u) # {} THEN Min(Q(u)) ELSE 0
            inverse(u) == InverseOf(u.rels, u.rels[k])
<1>1. /\ s \in Schema /\ t \in Schema /\ DOMAIN t.rels = DOMAIN s.rels
      /\ DOMAIN s.rels = 1..Len(s.rels) /\ DOMAIN t.rels = 1..Len(t.rels)
      /\ Len(s.rels) \in Nat
  BY SchemaParts DEF Renamed
<1>2. ASSUME NEW i \in DOMAIN s.rels
      PROVE  (t.rels[i].from = t.rels[k].to /\ t.rels[i].to = t.rels[k].from
                /\ t.rels[i].type = t.rels[k].type)
             <=> (s.rels[i].from = s.rels[k].to /\ s.rels[i].to = s.rels[k].from
                    /\ s.rels[i].type = s.rels[k].type)
  <2>1. t.rels[i].from = t.rels[k].to <=> s.rels[i].from = s.rels[k].to
    BY RelFollows, FollowApart
  <2>2. t.rels[i].to = t.rels[k].from <=> s.rels[i].to = s.rels[k].from
    BY RelFollows, FollowApart
  <2>3. t.rels[i].type = t.rels[k].type <=> s.rels[i].type = s.rels[k].type
    BY RelFollows
  <2>. QED  BY <2>1, <2>2, <2>3
<1>3. Q(t) = Q(s)
  BY <1>1, <1>2
<1>4. \A u : inverse(u) = IF first(u) = 0 THEN {} ELSE {u.rels[first(u)]}
  BY DEF InverseOf, SelectInSeq
<1>5. first(s) = 0 \/ first(s) \in DOMAIN s.rels
  <2>1. Q(s) \subseteq DOMAIN s.rels /\ Q(s) \subseteq Nat
    BY <1>1
  <2>. HIDE DEF Q
  <2>. QED  BY <2>1, FirstOf
<1>6. first(t) = first(s)
  BY <1>3
<1>. HIDE DEF first, inverse
<1>7. \/ inverse(s) = {} /\ inverse(t) = {}
      \/ \E i \in DOMAIN s.rels : inverse(s) = {s.rels[i]} /\ inverse(t) = {t.rels[i]}
  BY <1>4, <1>5, <1>6
<1>8. ASSUME inverse(s) = {}, inverse(t) = {}
      PROVE  SameSettings(inverse(s), inverse(t)) /\ \A d \in inverse(s) : d.toName \notin {old, to}
  BY <1>8 DEF SameSettings
<1>9. ASSUME NEW i \in DOMAIN s.rels, inverse(s) = {s.rels[i]}, inverse(t) = {t.rels[i]}
      PROVE  /\ SameSettings(inverse(s), inverse(t))
             /\ \A d \in inverse(s) : d.toName \notin {old, to}
  <2>1. t.rels[i].toName = s.rels[i].toName /\ t.rels[i].bi = s.rels[i].bi
    BY RelFollows
  <2>2. s.rels[i].toName \notin {old, to}
    BY DEF Renamed
  <2>. QED  BY <1>9, <2>1, <2>2 DEF SameSettings
<1>10. /\ SameSettings(inverse(s), inverse(t))
       /\ \A d \in inverse(s) : d.toName \notin {old, to}
  <2>. HIDE DEF inverse
  <2>. QED  BY <1>7, <1>8, <1>9
<1>. QED  BY <1>10 DEF inverse

\* Each end of a relationship follows.
LEMMA SidesFollow ==
    ASSUME NEW s, NEW t, NEW old, NEW to, Renamed(s, t, old, to), NEW k \in DOMAIN s.rels
    PROVE  LET before == SidesOf(k, s.rels[k], InverseOf(s.rels, s.rels[k]))
               after == SidesOf(k, t.rels[k], InverseOf(t.rels, t.rels[k]))
           IN  /\ DOMAIN after = DOMAIN before
               /\ \A j \in DOMAIN before : after[j] = SideFollowing(before[j], old, to)
<1>. DEFINE here(r) == [entity |-> r.from, other |-> r.to, type |-> r.type,
                        ref |-> RefOf(r), rel |-> k, isFrom |-> TRUE]
            there(r, type, ref) ==
                [entity |-> r.to, other |-> r.from, type |-> type,
                 ref |-> ref, rel |-> k, isFrom |-> FALSE]
            bothWays(r, inverse) == \E d \in {r} \cup inverse : d.bi = "yes"
            names(inverse) == {d.toName : d \in inverse} \ {NoName}
            ref(r, inverse) ==
                IF names(inverse) # {} THEN CHOOSE n \in names(inverse) : TRUE ELSE r.from
            a == s.rels[k]
            b == t.rels[k]
            inverseA == InverseOf(s.rels, s.rels[k])
            inverseB == InverseOf(t.rels, t.rels[k])
            before == SidesOf(k, a, inverseA)
            after == SidesOf(k, b, inverseB)
            F(d) == SideFollowing(d, old, to)
<1>1. /\ b.from = Follow(a.from, old, to) /\ b.to = Follow(a.to, old, to)
      /\ b.type = a.type /\ b.toName = a.toName /\ b.bi = a.bi
      /\ (b.from = b.to <=> a.from = a.to)
  BY RelFollows, FollowApart
<1>2. /\ {d.toName : d \in inverseB} = {d.toName : d \in inverseA}
      /\ {d.bi : d \in inverseB} = {d.bi : d \in inverseA}
      /\ \A d \in inverseA : d.toName \notin {old, to}
  <2>1. SameSettings(inverseA, inverseB) /\ \A d \in inverseA : d.toName \notin {old, to}
    BY InverseFollows
  <2>. HIDE DEF inverseA, inverseB
  <2>. QED  BY <2>1 DEF SameSettings
<1>3. /\ names(inverseB) = names(inverseA) /\ \A n \in names(inverseA) : n \notin {old, to}
      /\ bothWays(b, inverseB) <=> bothWays(a, inverseA)
  <2>1. \A r, inverse : bothWays(r, inverse) <=> r.bi = "yes" \/ "yes" \in {d.bi : d \in inverse}
    OBVIOUS
  <2>2. names(inverseB) = names(inverseA)
    BY <1>2
  <2>3. \A n \in names(inverseA) : n \notin {old, to}
    BY <1>2
  <2>. HIDE DEF names, bothWays, a, b, inverseA, inverseB
  <2>. QED  BY <1>1, <1>2, <2>1, <2>2, <2>3
<1>4. RefOf(b) = Follow(RefOf(a), old, to)
  <2>1. a.toName \notin {old, to}
    BY DEF Renamed
  <2>. HIDE DEF a, b
  <2>. QED  BY <1>1, <2>1 DEF RefOf, Follow
<1>5. ref(b, inverseB) = Follow(ref(a, inverseA), old, to)
  <2>. HIDE DEF a, b, names
  <2>1. CASE names(inverseA) # {}
    <3>1. (CHOOSE n \in names(inverseA) : TRUE) \in names(inverseA)
      BY <2>1
    <3>. QED  BY <1>3, <2>1, <3>1 DEF Follow
  <2>2. CASE names(inverseA) = {}
    BY <1>1, <1>3, <2>2
  <2>. QED  BY <2>1, <2>2
<1>6. here(b) = F(here(a))
  <2>. HIDE DEF a, b
  <2>. QED  BY <1>1, <1>4 DEF SideFollowing
<1>7. ASSUME NEW type, NEW n, NEW m, m = Follow(n, old, to)
      PROVE  there(b, type, m) = F(there(a, type, n))
  <2>. HIDE DEF a, b
  <2>. QED  BY <1>1, <1>7 DEF SideFollowing
<1>8. \A type : there(b, type, b.from) = F(there(a, type, a.from))
  BY <1>1, <1>7
<1>9. \A type : there(b, type, ref(b, inverseB)) = F(there(a, type, ref(a, inverseA)))
  <2>. HIDE DEF ref
  <2>. QED  BY <1>5, <1>7
<1>. DEFINE shape(r, inverse) ==
              CASE r.type = "ManyToOne" ->
                     IF r.bi # "no" /\ r.from # r.to
                     THEN <<here(r), there(r, "OneToMany", r.from)>> ELSE <<here(r)>>
                [] r.type = "OneToMany" -> <<here(r), there(r, "ManyToOne", r.from)>>
                [] r.type \in {"ManyToMany", "OneToOne"} ->
                     IF bothWays(r, inverse)
                     THEN <<here(r), there(r, r.type, ref(r, inverse))>> ELSE <<here(r)>>
                [] OTHER -> <<>>
<1>10. \A r, inverse : SidesOf(k, r, inverse) = shape(r, inverse)
  BY DEF SidesOf
<1>. HIDE DEF a, b, here, there, ref, bothWays, names, F, inverseA, inverseB
<1>11. \/ before = <<>> /\ after = <<>>
       \/ before = <<here(a)>> /\ after = <<F(here(a))>>
       \/ \E d : before = <<here(a), d>> /\ after = <<F(here(a)), F(d)>>
  <2>1. before = shape(a, inverseA) /\ after = shape(b, inverseB)
    BY <1>10
  <2>2. CASE a.type = "ManyToOne"
    <3>1. before = (IF a.bi # "no" /\ a.from # a.to
                    THEN <<here(a), there(a, "OneToMany", a.from)>> ELSE <<here(a)>>)
      BY <2>1, <2>2
    <3>2. after = (IF a.bi # "no" /\ a.from # a.to
                   THEN <<here(b), there(b, "OneToMany", b.from)>> ELSE <<here(b)>>)
      BY <1>1, <2>1, <2>2
    <3>. HIDE DEF before, after
    <3>. QED  BY <1>6, <1>8, <3>1, <3>2
  <2>3. CASE a.type = "OneToMany"
    <3>1. before = <<here(a), there(a, "ManyToOne", a.from)>>
      BY <2>1, <2>3
    <3>2. after = <<here(b), there(b, "ManyToOne", b.from)>>
      BY <1>1, <2>1, <2>3
    <3>. HIDE DEF before, after
    <3>. QED  BY <1>6, <1>8, <3>1, <3>2
  <2>4. CASE a.type \in {"ManyToMany", "OneToOne"}
    <3>1. before = (IF bothWays(a, inverseA)
                    THEN <<here(a), there(a, a.type, ref(a, inverseA))>> ELSE <<here(a)>>)
      BY <2>1, <2>4
    <3>2. after = (IF bothWays(a, inverseA)
                   THEN <<here(b), there(b, a.type, ref(b, inverseB))>> ELSE <<here(b)>>)
      BY <1>1, <1>3, <2>1, <2>4
    <3>. HIDE DEF before, after
    <3>. QED  BY <1>6, <1>9, <3>1, <3>2
  <2>5. CASE a.type \notin {"ManyToOne", "OneToMany", "ManyToMany", "OneToOne"}
    BY <1>1, <2>1, <2>5
  <2>. QED  BY <2>2, <2>3, <2>4, <2>5
<1>. HIDE DEF before, after
<1>12. DOMAIN after = DOMAIN before /\ \A j \in DOMAIN before : after[j] = F(before[j])
  <2>1. CASE before = <<>> /\ after = <<>>
    BY <2>1
  <2>2. CASE before = <<here(a)>> /\ after = <<F(here(a))>>
    BY <2>2
  <2>3. ASSUME NEW d, before = <<here(a), d>>, after = <<F(here(a)), F(d)>>
        PROVE  DOMAIN after = DOMAIN before /\ \A j \in DOMAIN before : after[j] = F(before[j])
    <3>1. DOMAIN before = {1, 2} /\ DOMAIN after = {1, 2}
      BY <2>3
    <3>2. before[1] = here(a) /\ before[2] = d /\ after[1] = F(here(a)) /\ after[2] = F(d)
      BY <2>3
    <3>. QED  BY <3>1, <3>2
  <2>. QED  BY <1>11, <2>1, <2>2, <2>3
<1>. QED  BY <1>12 DEF before, after, a, b, inverseA, inverseB, F

\* The sides of all relationships, whatever their order.
LEMMA SidesAre ==
    ASSUME NEW s \in Schema
    PROVE  /\ Range(Sides(s.rels)) \subseteq SideRecord(s)
           /\ \A d : d \in Range(Sides(s.rels)) <=>
                \E k \in DOMAIN s.rels :
                    \E j \in DOMAIN SidesOf(k, s.rels[k], InverseOf(s.rels, s.rels[k])) :
                        d = SidesOf(k, s.rels[k], InverseOf(s.rels, s.rels[k]))[j]
<1>. DEFINE n == Len(s.rels)
            S == SideRecord(s)
            row(k) == SidesOf(k, s.rels[k], InverseOf(s.rels, s.rels[k]))
            rows == [k \in DOMAIN s.rels |-> row(k)]
<1>1. n \in Nat /\ DOMAIN s.rels = 1..n /\ rows \in [1..n -> Seq(S)]
  BY SchemaParts, SidesOfType
<1>2. Sides(s.rels) = FlattenSeq(rows)
  BY DEF Sides
<1>3. \A k \in 1..n : rows[k] = row(k)
  BY <1>1
<1>. HIDE DEF rows, row, n, S
<1>4. Range(FlattenSeq(rows)) = UNION {Range(rows[k]) : k \in 1..n}
  BY <1>1, FlattenRange
<1>5. \A d : d \in Range(Sides(s.rels)) <=> \E k \in 1..n : d \in Range(row(k))
  <2>1. \A d : d \in UNION {Range(rows[k]) : k \in 1..n} <=> \E k \in 1..n : d \in Range(rows[k])
    OBVIOUS
  <2>. QED  BY <1>2, <1>3, <1>4, <2>1
<1>6. \A d : d \in Range(Sides(s.rels)) <=>
            \E k \in DOMAIN s.rels : \E j \in DOMAIN row(k) : d = row(k)[j]
  BY <1>1, <1>5 DEF Range
<1>7. Range(Sides(s.rels)) \subseteq S
  <2>1. FlattenSeq(rows) \in Seq(S)
    BY <1>1, FlattenType
  <2>. QED  BY <1>2, <2>1 DEF Range
<1>. QED  BY <1>6, <1>7 DEF row, S

\* Where a side leads, and what it refers to.
LEMMA SideLeads ==
    ASSUME NEW s, NEW t, NEW old, NEW to, Renamed(s, t, old, to), NEW d \in Range(Sides(s.rels))
    PROVE  /\ d \in SideRecord(s)
           /\ d.entity \in EntityNames(s) /\ d.other \in EntityNames(s)
           /\ d.entity # to /\ d.other # to /\ d.ref # to
           /\ d.ref = old => d.other = old
<1>14. s \in Schema
  BY DEF Renamed
<1>15. d \in Range(Sides(s.rels)) <=>
            \E k \in DOMAIN s.rels :
                \E j \in DOMAIN SidesOf(k, s.rels[k], InverseOf(s.rels, s.rels[k])) :
                    d = SidesOf(k, s.rels[k], InverseOf(s.rels, s.rels[k]))[j]
  BY <1>14, SidesAre
<1>1. PICK k \in DOMAIN s.rels :
        \E j \in DOMAIN SidesOf(k, s.rels[k], InverseOf(s.rels, s.rels[k])) :
            d = SidesOf(k, s.rels[k], InverseOf(s.rels, s.rels[k]))[j]
  BY <1>15
<1>. DEFINE rel == s.rels[k]
            inverse == InverseOf(s.rels, s.rels[k])
            row == SidesOf(k, rel, inverse)
            here == [entity |-> rel.from, other |-> rel.to, type |-> rel.type,
                     ref |-> RefOf(rel), rel |-> k, isFrom |-> TRUE]
            there(type, ref) ==
                [entity |-> rel.to, other |-> rel.from, type |-> type,
                 ref |-> ref, rel |-> k, isFrom |-> FALSE]
            names == {c.toName : c \in inverse} \ {NoName}
            ref == IF names # {} THEN CHOOSE n \in names : TRUE ELSE rel.from
            Leads(c) == /\ c.entity \in EntityNames(s) /\ c.other \in EntityNames(s)
                        /\ c.entity # to /\ c.other # to /\ c.ref # to
                        /\ c.ref = old => c.other = old
<1>2. /\ rel.from \in EntityNames(s) /\ rel.to \in EntityNames(s)
      /\ rel.from # to /\ rel.to # to
  BY RelFollows
<1>3. rel.toName \notin {old, to}
  BY DEF Renamed
<1>4. \A c \in inverse : c.toName \notin {old, to}
  <2>. DEFINE renamed == InverseOf(t.rels, t.rels[k])
  <2>1. inverse = InverseOf(s.rels, s.rels[k]) /\ renamed = InverseOf(t.rels, t.rels[k])
    OBVIOUS
  <2>. HIDE DEF inverse, renamed
  <2>. QED  BY <2>1, InverseFollows
<1>5. \/ row = <<here, there("OneToMany", rel.from)>>
      \/ row = <<here, there("ManyToOne", rel.from)>>
      \/ row = <<here, there(rel.type, ref)>>
      \/ row = <<here>>
      \/ row = <<>>
  <2>. HIDE DEF inverse, rel
  <2>. QED  BY DEF SidesOf
<1>. HIDE DEF rel, inverse
<1>6. Leads(here)
  BY <1>2, <1>3 DEF RefOf
<1>7. \A type : Leads(there(type, rel.from))
  BY <1>2
<1>8. ref \notin {old, to} \/ ref = rel.from
  <2>1. names # {} => (CHOOSE n \in names : TRUE) \in names
    OBVIOUS
  <2>2. \A n \in names : n \notin {old, to}
    BY <1>4
  <2>. QED  BY <2>1, <2>2
<1>. HIDE DEF ref
<1>9. \A type : Leads(there(type, ref))
  BY <1>2, <1>8
<1>. HIDE DEF here, there, Leads
<1>10. \/ \E x, y : row = <<x, y>> /\ Leads(x) /\ Leads(y)
       \/ \E x : row = <<x>> /\ Leads(x)
       \/ row = <<>>
  BY <1>5, <1>6, <1>7, <1>9
<1>. HIDE DEF row
<1>11. \A j \in DOMAIN row : Leads(row[j])
  BY <1>10
<1>12. Leads(d)
  BY <1>1, <1>11 DEF row, rel, inverse
<1>13. d \in SideRecord(s)
  BY <1>14, SidesAre
<1>. QED  BY <1>12, <1>13 DEF Leads

LEMMA SideFollowingIs ==
    ASSUME NEW s, NEW t, NEW old, NEW to, Renamed(s, t, old, to)
    PROVE  Range(Sides(t.rels)) = {SideFollowing(d, old, to) : d \in Range(Sides(s.rels))}
<1>. DEFINE rowS(k) == SidesOf(k, s.rels[k], InverseOf(s.rels, s.rels[k]))
            rowT(k) == SidesOf(k, t.rels[k], InverseOf(t.rels, t.rels[k]))
            F(d) == SideFollowing(d, old, to)
<1>1. s \in Schema /\ t \in Schema /\ DOMAIN t.rels = DOMAIN s.rels
  BY DEF Renamed
<1>2. \A d : d \in Range(Sides(s.rels)) <=>
            \E k \in DOMAIN s.rels : \E j \in DOMAIN rowS(k) : d = rowS(k)[j]
  BY <1>1, SidesAre
<1>3. \A d : d \in Range(Sides(t.rels)) <=>
            \E k \in DOMAIN t.rels : \E j \in DOMAIN rowT(k) : d = rowT(k)[j]
  BY <1>1, SidesAre
<1>4. \A k \in DOMAIN s.rels :
        DOMAIN rowT(k) = DOMAIN rowS(k) /\ \A j \in DOMAIN rowS(k) : rowT(k)[j] = F(rowS(k)[j])
  BY SidesFollow
<1>. HIDE DEF rowS, rowT, F
<1>5. \A d \in Range(Sides(t.rels)) : \E c \in Range(Sides(s.rels)) : d = F(c)
  <2>. TAKE d \in Range(Sides(t.rels))
  <2>1. PICK k \in DOMAIN t.rels : \E j \in DOMAIN rowT(k) : d = rowT(k)[j]
    BY <1>3
  <2>2. PICK j \in DOMAIN rowT(k) : d = rowT(k)[j]
    BY <2>1
  <2>3. j \in DOMAIN rowS(k) /\ rowT(k)[j] = F(rowS(k)[j]) /\ k \in DOMAIN s.rels
    BY <1>1, <1>4
  <2>4. rowS(k)[j] \in Range(Sides(s.rels))
    BY <1>2, <2>3
  <2>. QED  BY <2>2, <2>3, <2>4
<1>6. \A c \in Range(Sides(s.rels)) : F(c) \in Range(Sides(t.rels))
  <2>. TAKE c \in Range(Sides(s.rels))
  <2>1. PICK k \in DOMAIN s.rels : \E j \in DOMAIN rowS(k) : c = rowS(k)[j]
    BY <1>2
  <2>2. PICK j \in DOMAIN rowS(k) : c = rowS(k)[j]
    BY <2>1
  <2>3. j \in DOMAIN rowT(k) /\ rowT(k)[j] = F(rowS(k)[j]) /\ k \in DOMAIN t.rels
    BY <1>1, <1>4
  <2>. QED  BY <1>3, <2>2, <2>3
<1>7. Range(Sides(t.rels)) = {F(d) : d \in Range(Sides(s.rels))}
  BY <1>5, <1>6
<1>. QED  BY <1>7 DEF F

\* A renaming makes no side repeat another, and none stop to.
LEMMA GeneratingFollows ==
    ASSUME NEW s, NEW t, NEW old, NEW to, Renamed(s, t, old, to)
    PROVE  GeneratingSides(t) = {SideFollowing(d, old, to) : d \in GeneratingSides(s)}
<1>. DEFINE F(d) == SideFollowing(d, old, to)
            A == Range(Sides(s.rels))
            B == Range(Sides(t.rels))
            key(d) == <<d.entity, d.other, d.ref>>
            before(c, d) == c.rel < d.rel \/ (c.rel = d.rel /\ c.isFrom /\ ~d.isFrom)
<1>1. B = {F(d) : d \in A}
  BY SideFollowingIs
<1>2. \A c, d \in A : /\ key(F(c)) = key(F(d)) <=> key(c) = key(d)
                      /\ before(F(c), F(d)) <=> before(c, d)
  <2>. TAKE c, d \in A
  <2>1. /\ F(c).entity = F(d).entity <=> c.entity = d.entity
        /\ F(c).other = F(d).other <=> c.other = d.other
        /\ F(c).ref = F(d).ref <=> c.ref = d.ref
    <3>1. c.entity # to /\ c.other # to /\ c.ref # to
      BY SideLeads
    <3>2. d.entity # to /\ d.other # to /\ d.ref # to
      BY SideLeads
    <3>3. \A e \in A : F(e).entity = Follow(e.entity, old, to) /\ F(e).other = Follow(e.other, old, to)
                       /\ F(e).ref = Follow(e.ref, old, to)
      BY DEF SideFollowing
    <3>. HIDE DEF A, F
    <3>. QED  BY <3>1, <3>2, <3>3, FollowApart
  <2>2. F(c).rel = c.rel /\ F(d).rel = d.rel /\ F(c).isFrom = c.isFrom /\ F(d).isFrom = d.isFrom
    BY DEF SideFollowing
  <2>. HIDE DEF A, F
  <2>3. key(F(c)) = key(F(d)) <=> key(c) = key(d)
    BY <2>1
  <2>4. before(F(c), F(d)) <=> before(c, d)
    BY <2>2
  <2>. QED  BY <2>3, <2>4
<1>3. GeneratingSides(s) = {d \in A : ~\E c \in A : key(c) = key(d) /\ before(c, d)}
  BY DEF GeneratingSides
<1>4. GeneratingSides(t) = {d \in B : ~\E c \in B : key(c) = key(d) /\ before(c, d)}
  BY DEF GeneratingSides
<1>. HIDE DEF A, B, F, key, before
<1>5. ASSUME NEW d \in A PROVE F(d) \in GeneratingSides(t) <=> d \in GeneratingSides(s)
  <2>1. F(d) \in B
    BY <1>1
  <2>2. (\E c \in B : key(c) = key(F(d)) /\ before(c, F(d)))
            <=> \E c \in A : key(c) = key(d) /\ before(c, d)
    BY <1>1, <1>2
  <2>. QED  BY <1>3, <1>4, <2>1, <2>2
<1>6. GeneratingSides(t) \subseteq B /\ GeneratingSides(s) \subseteq A
  BY <1>3, <1>4
<1>7. GeneratingSides(t) = {F(d) : d \in GeneratingSides(s)}
  <2>1. ASSUME NEW x \in GeneratingSides(t) PROVE \E d \in GeneratingSides(s) : x = F(d)
    <3>1. PICK d \in A : x = F(d)
      BY <1>1, <1>6
    <3>. QED  BY <1>5, <3>1
  <2>2. \A d \in GeneratingSides(s) : F(d) \in GeneratingSides(t)
    BY <1>5, <1>6
  <2>. QED  BY <2>1, <2>2
<1>. QED  BY <1>7 DEF F

\* What a side generates, as a set.
LEMMA GivenNamesAre ==
    ASSUME NEW d
    PROVE  /\ GivenNames(d) = {BaseName(d)} \cup
                (IF d.type = "ManyToOne" THEN {ForeignKey(BaseName(d))} ELSE {})
           /\ \A p \in Range(GeneratedBy(d)) : p.foreignKey =>
                d.type = "ManyToOne" /\ p.name = ForeignKey(BaseName(d))
           /\ \A p \in Range(GeneratedBy(d)) : p.side = d /\ p.entity = d.entity
<1>. DEFINE own == Property(BaseName(d), FALSE, d)
            key == Property(ForeignKey(BaseName(d)), TRUE, d)
<1>1. /\ own.name = BaseName(d) /\ ~own.foreignKey /\ own.side = d /\ own.entity = d.entity
      /\ key.name = ForeignKey(BaseName(d)) /\ key.foreignKey /\ key.side = d /\ key.entity = d.entity
  BY DEF Property
<1>2. GeneratedBy(d) = <<own>> \o (IF d.type = "ManyToOne" THEN <<key>> ELSE <<>>)
  BY DEF GeneratedBy
<1>. HIDE DEF own, key
<1>3. CASE d.type = "ManyToOne"
  <2>1. GeneratedBy(d) = <<own>> \o <<key>> /\ <<own>> \in Seq({own, key}) /\ <<key>> \in Seq({own, key})
    BY <1>2, <1>3
  <2>2. Range(<<own>>) = {own} /\ Range(<<key>>) = {key}
    <3>1. \A x : DOMAIN <<x>> = {1} /\ <<x>>[1] = x
      OBVIOUS
    <3>. QED  BY <3>1, Zenon DEF Range
  <2>3. Range(GeneratedBy(d)) = {own, key}
    <3>. DEFINE x == <<own>>
                y == <<key>>
    <3>1. x \in Seq({own, key}) /\ y \in Seq({own, key}) /\ GeneratedBy(d) = x \o y
          /\ Range(x) = {own} /\ Range(y) = {key}
      BY <2>1, <2>2
    <3>. HIDE DEF x, y
    <3>2. Range(x \o y) = Range(x) \cup Range(y)
      BY <3>1, ConcatRange
    <3>. QED  BY <3>1, <3>2
  <2>. QED  BY <1>1, <1>3, <2>3 DEF GivenNames
<1>4. CASE d.type # "ManyToOne"
  <2>1. GeneratedBy(d) = <<own>>
    <3>1. <<own>> \o <<>> = <<own>>
      OBVIOUS
    <3>. QED  BY <1>2, <1>4, <3>1
  <2>2. DOMAIN <<own>> = {1} /\ <<own>>[1] = own
    OBVIOUS
  <2>3. Range(GeneratedBy(d)) = {own}
    BY <2>1, <2>2 DEF Range
  <2>. QED  BY <1>1, <1>4, <2>3 DEF GivenNames
<1>. QED  BY <1>3, <1>4

\* A reference to another entity keeps the names it generates, and one to the
\* renamed entity takes names of the new one.
LEMMA GivenNamesFollow ==
    ASSUME NEW d, NEW old, NEW to
    PROVE  LET c == SideFollowing(d, old, to)
           IN  /\ d.ref # old => GivenNames(c) = GivenNames(d)
               /\ d.ref = old => GivenNames(c) \subseteq ReferenceNames(to)
               /\ d.type = "ManyToOne" =>
                    ForeignKeyTo(Follow(d.ref, old, to)) \in GivenNames(c)
<1>. DEFINE c == SideFollowing(d, old, to)
<1>1. c.type = d.type /\ c.ref = Follow(d.ref, old, to)
  BY DEF SideFollowing
<1>. HIDE DEF c
<1>2. ASSUME d.ref # old PROVE GivenNames(c) = GivenNames(d)
  <2>1. BaseName(c) = BaseName(d)
    BY <1>1, <1>2 DEF BaseName, Follow
  <2>2. GivenNames(c) = GivenNames(d)
    BY <1>1, <2>1, GivenNamesAre
  <2>. QED  BY <2>2
<1>3. ASSUME d.ref = old PROVE GivenNames(c) \subseteq ReferenceNames(to)
  <2>1. c.ref = to
    BY <1>1, <1>3 DEF Follow
  <2>2. BaseName(c) \in {CamelCase(to), CamelCase(Pluralize(to))}
    BY <2>1 DEF BaseName
  <2>3. c.type = "ManyToOne" => ForeignKey(BaseName(c)) = ForeignKeyTo(to)
    BY <2>1 DEF BaseName, ForeignKeyTo
  <2>4. GivenNames(c) = {BaseName(c)} \cup
                (IF c.type = "ManyToOne" THEN {ForeignKey(BaseName(c))} ELSE {})
    BY GivenNamesAre
  <2>5. GivenNames(c) \subseteq ReferenceNames(to)
    BY <2>2, <2>3, <2>4 DEF ReferenceNames
  <2>. QED  BY <2>5
<1>4. ASSUME d.type = "ManyToOne" PROVE ForeignKeyTo(Follow(d.ref, old, to)) \in GivenNames(c)
  <2>1. BaseName(c) = CamelCase(c.ref)
    BY <1>1, <1>4 DEF BaseName
  <2>. QED  BY <1>1, <1>4, <2>1, GivenNamesAre DEF ForeignKeyTo
<1>5. d.ref # old => GivenNames(c) = GivenNames(d)
  BY <1>2 DEF c
<1>6. d.ref = old => GivenNames(c) \subseteq ReferenceNames(to)
  BY <1>3 DEF c
<1>. QED  BY <1>4, <1>5, <1>6 DEF c

\* What the class of an entity holds after a renaming.
LEMMA MembersFollow ==
    ASSUME NEW s, NEW t, NEW old, NEW to, Renamed(s, t, old, to),
           NEW entity \in EntityNames(s)
    PROVE  GivenMembers(t, Follow(entity, old, to))
                \subseteq GivenMembers(s, entity) \cup ReferenceNames(to)
<1>. SUFFICES ASSUME NEW n \in GivenMembers(t, Follow(entity, old, to)), n \notin ReferenceNames(to)
              PROVE  n \in GivenMembers(s, entity)
  OBVIOUS
<1>1. PICK c \in GeneratingSides(t) : c.entity = Follow(entity, old, to) /\ n \in GivenNames(c)
  BY DEF GivenMembers
<1>2. PICK d \in GeneratingSides(s) : c = SideFollowing(d, old, to)
  BY GeneratingFollows
<1>3. d \in Range(Sides(s.rels))
  BY DEF GeneratingSides
<1>4. d.entity # to /\ entity # to /\ c.entity = Follow(d.entity, old, to)
  BY <1>2, <1>3, SideLeads DEF Renamed, SideFollowing
<1>5. d.entity = entity
  <2>1. Follow(d.entity, old, to) = Follow(entity, old, to)
    BY <1>1, <1>4
  <2>. QED  BY <1>4, <2>1 DEF Follow
<1>6. n \in GivenNames(d)
  BY <1>1, <1>2, GivenNamesFollow
<1>. QED  BY <1>5, <1>6 DEF GivenMembers

\* References to the renamed entity do not meet one another.
LEMMA ClashesFollow ==
    ASSUME NEW s, NEW t, NEW old, NEW to, Renamed(s, t, old, to),
           RelationshipsApart(s), Fresh(s, to)
    PROVE  RelationshipsApart(t)
<1>1. DOMAIN t.rels = DOMAIN s.rels /\ EntityNames(t) = {Follow(n, old, to) : n \in EntityNames(s)}
  BY DEF Renamed, EntityNames
<1>2. ASSUME NEW k \in DOMAIN t.rels
      PROVE  {t.rels[k].from, t.rels[k].to} \subseteq EntityNames(t) /\ t.rels[k].type \in RelationshipType
  <2>1. /\ t.rels[k].from = Follow(s.rels[k].from, old, to) /\ s.rels[k].from \in EntityNames(s)
        /\ t.rels[k].to = Follow(s.rels[k].to, old, to) /\ s.rels[k].to \in EntityNames(s)
        /\ t.rels[k].type = s.rels[k].type
    BY <1>1, RelFollows
  <2>2. s.rels[k].type \in RelationshipType
    BY <1>1 DEF RelationshipsApart, Range
  <2>. QED  BY <1>1, <2>1, <2>2
<1>3. ASSUME NEW d \in GeneratingSides(s), NEW c \in GeneratingSides(s),
             SideFollowing(d, old, to).entity = SideFollowing(c, old, to).entity, d.rel # c.rel
      PROVE  GivenNames(SideFollowing(d, old, to)) \cap GivenNames(SideFollowing(c, old, to)) = {}
  <2>1. d \in Range(Sides(s.rels)) /\ c \in Range(Sides(s.rels))
    BY DEF GeneratingSides
  <2>2. d.entity = c.entity
    <3>1. d.entity # to /\ c.entity # to
      BY <2>1, SideLeads
    <3>2. Follow(d.entity, old, to) = Follow(c.entity, old, to)
      BY <1>3 DEF SideFollowing
    <3>. QED  BY <3>1, <3>2, FollowApart
  <2>3. GivenNames(d) \cap GivenNames(c) = {}
    BY <1>3, <2>2 DEF RelationshipsApart
  <2>4. \A e \in GeneratingSides(s) : GivenNames(e) \cap ReferenceNames(to) = {}
    <3>. TAKE e \in GeneratingSides(s)
    <3>1. e \in Range(Sides(s.rels))
      BY DEF GeneratingSides
    <3>2. e.entity \in EntityNames(s)
      BY <3>1, SideLeads
    <3>3. PICK j \in DOMAIN s.entities : s.entities[j].name = e.entity
      BY <3>2 DEF EntityNames
    <3>4. GivenNames(e) \subseteq GivenMembers(s, s.entities[j].name)
      BY <3>3 DEF GivenMembers
    <3>5. ReferenceNames(to) \cap (FieldNames(s, j) \cup GivenMembers(s, s.entities[j].name)) = {}
      BY DEF Fresh
    <3>. QED  BY <3>4, <3>5
  <2>5. ~(d.ref = old /\ c.ref = old)
    <3>. SUFFICES ASSUME d.ref = old, c.ref = old PROVE FALSE
      OBVIOUS
    <3>1. d.other = old /\ c.other = old
      BY <2>1, SideLeads
    <3>2. <<d.entity, d.other, d.ref>> = <<c.entity, c.other, c.ref>>
      BY <2>2, <3>1
    <3>3. ~(c.rel < d.rel) /\ ~(d.rel < c.rel)
      BY <2>1, <3>2 DEF GeneratingSides
    <3>4. s \in Schema /\ d \in SideRecord(s) /\ c \in SideRecord(s)
      BY <2>1, SideLeads DEF Renamed
    <3>5. d.rel \in Nat /\ c.rel \in Nat
      BY <3>4, SchemaParts DEF SideRecord
    <3>. QED  BY <1>3, <3>3, <3>5
  <2>6. \A e \in {c, d} : \/ e.ref = old /\ GivenNames(SideFollowing(e, old, to)) \subseteq ReferenceNames(to)
                          \/ e.ref # old /\ GivenNames(SideFollowing(e, old, to)) = GivenNames(e)
    BY GivenNamesFollow
  <2>. QED  BY <2>3, <2>4, <2>5, <2>6
<1>4. ASSUME NEW d \in GeneratingSides(t), NEW c \in GeneratingSides(t), d.entity = c.entity, d.rel # c.rel
      PROVE  GivenNames(d) \cap GivenNames(c) = {}
  <2>1. PICK a \in GeneratingSides(s) : d = SideFollowing(a, old, to)
    BY GeneratingFollows
  <2>2. PICK b \in GeneratingSides(s) : c = SideFollowing(b, old, to)
    BY GeneratingFollows
  <2>3. a.rel # b.rel
    BY <1>4, <2>1, <2>2 DEF SideFollowing
  <2>. QED  BY <1>3, <1>4, <2>1, <2>2, <2>3
<1>5. \A r \in Range(t.rels) : {r.from, r.to} \subseteq EntityNames(t) /\ r.type \in RelationshipType
  BY <1>2 DEF Range
<1>. QED  BY <1>4, <1>5 DEF RelationshipsApart

\* What renaming a column leaves of the indexes of an entity.
LEMMA ColumnsFollow ==
    ASSUME NEW e \in EntityRecord, NEW from \in Name, NEW to \in Name,
           NEW c \in DOMAIN RenameColumn(e, from, to).indexes
    PROVE  /\ RenameColumn(e, from, to).indexes[c].fields # <<>>
           /\ \A n \in Range(RenameColumn(e, from, to).indexes[c].fields) :
                \E b \in DOMAIN e.indexes : \E m \in Range(e.indexes[b].fields) : n = Follow(m, from, to)
<1>. DEFINE names(x) == [k \in DOMAIN x.fields |-> IF x.fields[k] = from THEN to ELSE x.fields[k]]
            kept(x) == {k \in DOMAIN names(x) : names(x)[k] # NoName}
            moved(x) == [x EXCEPT !.fields = AtPositions(names(x), kept(x))]
            mapped == [b \in DOMAIN e.indexes |-> moved(e.indexes[b])]
            some == {k \in DOMAIN mapped : mapped[k].fields # <<>>}
            indexes == RenameColumn(e, from, to).indexes
<1>1. ASSUME NEW x \in IndexRecord
      PROVE  /\ moved(x) \in IndexRecord
             /\ \A n \in Range(moved(x).fields) : \E m \in Range(x.fields) : n = Follow(m, from, to)
  <2>1. x.fields \in Seq(Name) /\ Len(x.fields) \in Nat /\ DOMAIN x.fields = 1..Len(x.fields)
    BY DEF IndexRecord
  <2>2. names(x) \in [1..Len(x.fields) -> Name]
    BY <2>1
  <2>3. names(x) \in Seq(Name) /\ kept(x) \subseteq DOMAIN names(x) /\ DOMAIN names(x) = DOMAIN x.fields
    BY <2>1, <2>2
  <2>4. \A k \in DOMAIN x.fields : names(x)[k] = Follow(x.fields[k], from, to)
    BY DEF Follow
  <2>. HIDE DEF names, kept
  <2>5. AtPositions(names(x), kept(x)) \in Seq(Name)
        /\ Range(AtPositions(names(x), kept(x))) = {names(x)[k] : k \in kept(x)}
    BY <2>3, AtPositionsType, AtPositionsRange
  <2>6. moved(x) \in IndexRecord /\ moved(x).fields = AtPositions(names(x), kept(x))
    BY <2>5 DEF IndexRecord
  <2>7. \A k \in kept(x) : x.fields[k] \in Range(x.fields) /\ names(x)[k] = Follow(x.fields[k], from, to)
    BY <2>3, <2>4 DEF Range
  <2>. QED  BY <2>5, <2>6, <2>7
<1>2. RenameColumn(e, from, to) = [e EXCEPT !.indexes = AtPositions(mapped, some)]
  BY DEF RenameColumn, Each
<1>. HIDE DEF moved
<1>3. mapped \in [1..Len(e.indexes) -> IndexRecord] /\ Len(e.indexes) \in Nat
      /\ DOMAIN e.indexes = 1..Len(e.indexes) /\ \A b \in DOMAIN e.indexes : e.indexes[b] \in IndexRecord
  BY <1>1, EntityParts
<1>4. mapped \in Seq(IndexRecord) /\ \A b \in DOMAIN e.indexes : mapped[b] = moved(e.indexes[b])
  BY <1>3
<1>5. some \subseteq DOMAIN mapped /\ DOMAIN mapped = DOMAIN e.indexes
      /\ \A k \in some : mapped[k].fields # <<>>
  OBVIOUS
<1>. HIDE DEF mapped, some
<1>6. AtPositions(mapped, some) \in Seq(IndexRecord)
      /\ Range(AtPositions(mapped, some)) = {mapped[k] : k \in some}
  BY <1>4, <1>5, AtPositionsType, AtPositionsRange
<1>7. indexes = AtPositions(mapped, some)
  BY <1>2, <1>6 DEF EntityRecord
<1>8. indexes[c] \in Range(indexes) /\ c \in DOMAIN indexes
  BY DEF Range
<1>. HIDE DEF indexes
<1>9. PICK k \in some : indexes[c] = mapped[k]
  BY <1>6, <1>7, <1>8
<1>10. k \in DOMAIN e.indexes /\ indexes[c] = moved(e.indexes[k]) /\ indexes[c].fields # <<>>
  BY <1>4, <1>5, <1>9
<1>11. e.indexes[k] \in IndexRecord
  BY <1>3, <1>10
<1>12. \A n \in Range(indexes[c].fields) : \E m \in Range(e.indexes[k].fields) : n = Follow(m, from, to)
  BY <1>1, <1>10, <1>11
<1>. QED  BY <1>10, <1>12 DEF indexes

\* rename_entity makes one schema of the other.
LEMMA EntityRenamedIs ==
    ASSUME NEW s \in Schema, NEW i \in DOMAIN s.entities, NEW to \in Name,
           NEW old, old = s.entities[i].name, NEW t, t = EntityRenamed(s, i, to),
           RelationshipsApart(s), Fresh(s, to), NamesOnlyEntity(s, old)
    PROVE  /\ Renamed(s, t, old, to)
           /\ \A k \in DOMAIN s.entities : t.entities[k].indexes
                = RenameColumn(s.entities[k], ForeignKeyTo(old), ForeignKeyTo(to)).indexes
<1>. DEFINE column(e) == RenameColumn(e, ForeignKeyTo(old), ForeignKeyTo(to))
            entity(e) == [column(e) EXCEPT !.name = Follow(column(e).name, old, to)]
<1>1. /\ t.entities = [k \in DOMAIN s.entities |-> entity(s.entities[k])]
      /\ t.rels = [k \in DOMAIN s.rels |-> RelFollowing(s.rels[k], old, to)]
  BY DEF EntityRenamed, Each, RelFollowing, Follow
<1>2. old \in Name /\ ForeignKeyTo(old) \in Name /\ ForeignKeyTo(to) \in Name
  BY SchemaParts, EntityParts, ForeignKeyToType
<1>3. ASSUME NEW e \in EntityRecord
      PROVE  entity(e).name = Follow(e.name, old, to) /\ entity(e).fields = e.fields
             /\ entity(e).indexes = column(e).indexes
  <2>1. column(e) \in EntityRecord /\ column(e).name = e.name
    BY <1>2, ColumnRenamed
  <2>2. column(e).fields = e.fields
    BY DEF RenameColumn, EntityRecord
  <2>. HIDE DEF column
  <2>. QED  BY <2>1, <2>2 DEF EntityRecord
<1>. HIDE DEF entity, column
<1>4. /\ DOMAIN t.entities = DOMAIN s.entities /\ DOMAIN t.rels = DOMAIN s.rels
      /\ \A k \in DOMAIN s.rels : t.rels[k] = RelFollowing(s.rels[k], old, to)
      /\ \A k \in DOMAIN s.entities : t.entities[k] = entity(s.entities[k])
  BY <1>1
<1>5. \A k \in DOMAIN s.entities :
        /\ t.entities[k].name = Follow(s.entities[k].name, old, to)
        /\ t.entities[k].fields = s.entities[k].fields
        /\ t.entities[k].indexes = column(s.entities[k]).indexes
  BY <1>3, <1>4, SchemaParts
<1>6. t \in Schema
  BY EntityRenamedType
<1>7. Ends(s) \subseteq EntityNames(s)
  BY DEF Ends, RelationshipsApart
<1>8. old \in EntityNames(s) /\ to \notin EntityNames(s)
  BY DEF EntityNames, Fresh
<1>9. \A k \in DOMAIN s.rels : s.rels[k].toName \notin {old, to}
  BY DEF Fresh, NamesOnlyEntity, Range
<1>10. Renamed(s, t, old, to)
  BY <1>4, <1>5, <1>6, <1>7, <1>8, <1>9 DEF Renamed
<1>. QED  BY <1>5, <1>10 DEF column

LEMMA EntitiesFollow ==
    ASSUME NEW s, NEW t, NEW old, NEW to, Renamed(s, t, old, to), EntitiesCompile(s), Fresh(s, to)
    PROVE  EntitiesCompile(t)
<1>1. \A k \in DOMAIN s.entities : s.entities[k].name # to
  BY DEF Renamed, EntityNames
<1>2. DOMAIN t.entities = DOMAIN s.entities
      /\ \A k \in DOMAIN s.entities : t.entities[k].name = Follow(s.entities[k].name, old, to)
  BY DEF Renamed
<1>3. \A i, j \in DOMAIN s.entities : i # j => s.entities[i].name # s.entities[j].name
  BY DEF EntitiesCompile
<1>4. \A i, j \in DOMAIN t.entities : i # j => t.entities[i].name # t.entities[j].name
  BY <1>1, <1>2, <1>3 DEF Follow
<1>5. \A k \in DOMAIN s.entities : s.entities[k].name \notin Reserved
  BY DEF EntitiesCompile, EntityNames
<1>6. to \notin Reserved
  BY DEF Fresh
<1>7. EntityNames(t) \cap Reserved = {}
  BY <1>2, <1>5, <1>6 DEF EntityNames, Follow
<1>. QED  BY <1>4, <1>7 DEF EntitiesCompile

LEMMA FieldsFollow ==
    ASSUME NEW s, NEW t, NEW old, NEW to, Renamed(s, t, old, to), Fresh(s, to),
           NEW i \in DOMAIN s.entities, FieldsCompile(s, i)
    PROVE  FieldsCompile(t, i)
<1>1. t.entities[i].fields = s.entities[i].fields
      /\ t.entities[i].name = Follow(s.entities[i].name, old, to)
  BY DEF Renamed
<1>2. FieldNames(t, i) = FieldNames(s, i)
  BY <1>1 DEF FieldNames
<1>3. s.entities[i].name \in EntityNames(s)
  BY DEF EntityNames
<1>4. GivenMembers(t, t.entities[i].name)
        \subseteq GivenMembers(s, s.entities[i].name) \cup ReferenceNames(to)
  BY <1>1, <1>3, MembersFollow
<1>5. ReferenceNames(to) \cap FieldNames(s, i) = {}
  BY DEF Fresh
<1>6. FieldNames(s, i) \cap GivenMembers(s, s.entities[i].name) = {}
  BY DEF FieldsCompile
<1>7. FieldNames(t, i) \cap GivenMembers(t, t.entities[i].name) = {}
  BY <1>2, <1>4, <1>5, <1>6
<1>. QED  BY <1>1, <1>7 DEF FieldsCompile

\* Columns that are fields stay, columns that are foreign keys follow.
LEMMA IndexesFollow ==
    ASSUME NEW s, NEW t, NEW old \in Name, NEW to \in Name, Renamed(s, t, old, to),
           NamesOnlyEntity(s, old), NEW i \in DOMAIN s.entities,
           t.entities[i].indexes
                = RenameColumn(s.entities[i], ForeignKeyTo(old), ForeignKeyTo(to)).indexes
    PROVE  IndexesKnown(t, i)
<1>. DEFINE entity == s.entities[i].name
            props == Range(Generated(s.rels))
            foreignKeys == {p.name : p \in {p \in props : p.foreignKey /\ p.entity = entity}}
            known == AssumedColumns \cup FieldNames(t, i) \cup GivenMembers(t, t.entities[i].name)
<1>1. /\ s \in Schema /\ s.entities[i] \in EntityRecord
      /\ t.entities[i].name = Follow(entity, old, to)
  <2>1. s \in Schema
    BY DEF Renamed
  <2>. QED  BY <2>1, SchemaParts DEF Renamed
<1>2. FieldNames(t, i) = FieldNames(s, i)
  BY DEF FieldNames, Renamed
<1>3. ForeignKeyTo(old) \in Name /\ ForeignKeyTo(to) \in Name
  BY ForeignKeyToType
<1>4. ASSUME NEW m \in foreignKeys PROVE Follow(m, ForeignKeyTo(old), ForeignKeyTo(to)) \in known
  <2>1. PICK p \in props : p.foreignKey /\ p.entity = entity /\ p.name = m
    OBVIOUS
  <2>2. PICK d \in GeneratingSides(s) : p \in Range(GeneratedBy(d))
    <3>1. Range(Generated(s.rels)) = UNION {Range(GeneratedBy(d)) : d \in GeneratingSides(s)}
      BY <1>1, GeneratedIs
    <3>. QED  BY <3>1
  <2>3. d.type = "ManyToOne" /\ m = ForeignKey(BaseName(d)) /\ p.side = d /\ d.entity = entity
    BY <2>1, <2>2, GivenNamesAre
  <2>4. m = ForeignKeyTo(d.ref)
    BY <2>3 DEF BaseName, ForeignKeyTo
  <2>5. m = ForeignKeyTo(old) <=> d.ref = old
    <3>1. m = ForeignKeyTo(old) => d.ref = old
      BY <2>1, <2>3 DEF NamesOnlyEntity
    <3>. QED  BY <2>4, <3>1
  <2>6. Follow(m, ForeignKeyTo(old), ForeignKeyTo(to)) = ForeignKeyTo(Follow(d.ref, old, to))
    BY <2>4, <2>5 DEF Follow
  <2>. DEFINE c == SideFollowing(d, old, to)
  <2>7. c \in GeneratingSides(t) /\ ForeignKeyTo(Follow(d.ref, old, to)) \in GivenNames(c)
    BY <2>3, GeneratingFollows, GivenNamesFollow
  <2>8. c.entity = t.entities[i].name
    BY <1>1, <2>3 DEF SideFollowing
  <2>. HIDE DEF c
  <2>9. ForeignKeyTo(Follow(d.ref, old, to)) \in GivenMembers(t, t.entities[i].name)
    BY <2>7, <2>8 DEF GivenMembers
  <2>. QED  BY <2>6, <2>9
<1>5. ASSUME NEW m \in AssumedColumns PROVE m # ForeignKeyTo(old)
  <2>. SUFFICES ASSUME m = ForeignKeyTo(old) PROVE FALSE
    OBVIOUS
  <2>1. CamelCase(old) \in Seq(Token)
    BY CamelCaseType DEF Name
  <2>. DEFINE x == CamelCase(old)
  <2>. HIDE DEF x
  <2>2. m = Append(x, "Id") /\ x \in Seq(Token)
    BY <2>1 DEF ForeignKeyTo, ForeignKey, x
  <2>3. Len(m) = Len(x) + 1 /\ m[Len(x) + 1] = "Id" /\ Len(x) \in Nat
    BY <2>2
  <2>4. Len(m) = 1 /\ m[1] \in {"id", "created_at", "updated_at"}
    BY DEF AssumedColumns, Timestamps
  <2>. QED  BY <2>3, <2>4
<1>6. ASSUME NEW m \in AssumedColumns \cup FieldNames(s, i)
      PROVE  Follow(m, ForeignKeyTo(old), ForeignKeyTo(to)) \in known
  <2>1. m # ForeignKeyTo(old)
    BY <1>5 DEF NamesOnlyEntity
  <2>. QED  BY <1>2, <2>1 DEF Follow
<1>7. ASSUME NEW b \in DOMAIN s.entities[i].indexes
      PROVE  Range(s.entities[i].indexes[b].fields) \subseteq AssumedColumns \cup FieldNames(s, i) \cup foreignKeys
  BY DEF NamesOnlyEntity, Range
<1>. HIDE DEF foreignKeys, known
<1>8. ASSUME NEW c \in DOMAIN t.entities[i].indexes
      PROVE  t.entities[i].indexes[c].fields # <<>> /\ Range(t.entities[i].indexes[c].fields) \subseteq known
  <2>1. /\ t.entities[i].indexes[c].fields # <<>>
        /\ \A n \in Range(t.entities[i].indexes[c].fields) :
                \E b \in DOMAIN s.entities[i].indexes : \E m \in Range(s.entities[i].indexes[b].fields) :
                    n = Follow(m, ForeignKeyTo(old), ForeignKeyTo(to))
    <3>. DEFINE e == s.entities[i]
                u == RenameColumn(e, ForeignKeyTo(old), ForeignKeyTo(to)).indexes
    <3>1. u = t.entities[i].indexes /\ c \in DOMAIN u /\ e \in EntityRecord
      BY <1>1
    <3>2. /\ u[c].fields # <<>>
          /\ \A n \in Range(u[c].fields) :
                \E b \in DOMAIN e.indexes : \E m \in Range(e.indexes[b].fields) :
                    n = Follow(m, ForeignKeyTo(old), ForeignKeyTo(to))
      BY <1>3, <3>1, ColumnsFollow
    <3>. HIDE DEF u
    <3>. QED  BY <3>1, <3>2
  <2>. QED  BY <1>4, <1>6, <1>7, <2>1
<1>. QED  BY <1>8 DEF IndexesKnown, known

\* The order in which rows can be inserted stays.
LEMMA OrderFollows ==
    ASSUME NEW s, NEW t, NEW old, NEW to, Renamed(s, t, old, to), Insertable(s)
    PROVE  Insertable(t)
<1>. DEFINE S == EntityNames(s)
            T == EntityNames(t)
            back(n) == IF n = to THEN old ELSE n
            f == [n \in S |-> Follow(n, old, to)]
<1>1. T = {Follow(n, old, to) : n \in S} /\ old \in S /\ to \notin S
  BY DEF Renamed, EntityNames
<1>2. IsFiniteSet(S)
  <2>1. s \in Schema
    BY DEF Renamed
  <2>2. Len(s.entities) \in Nat /\ DOMAIN s.entities = 1..Len(s.entities)
    BY <2>1, SchemaParts
  <2>3. IsFiniteSet(DOMAIN s.entities)
    <3>1. IsFiniteSet(1..Len(s.entities))
      BY <2>2, FS_Interval
    <3>. QED  BY <2>2, <3>1
  <2>. DEFINE name == [k \in DOMAIN s.entities |-> s.entities[k].name]
  <2>4. name \in Surjection(DOMAIN s.entities, S)
    BY DEF Surjection, EntityNames
  <2>. QED  BY <2>3, <2>4, FS_Surjection
<1>. HIDE DEF S, T
<1>3. f \in Bijection(S, T)
  <2>1. \A n \in S : back(Follow(n, old, to)) = n
    BY <1>1 DEF Follow
  <2>2. \A n, m \in S : f[n] = f[m] => n = m
    BY <1>1 DEF Follow
  <2>3. f \in [S -> T] /\ \A n \in T : \E m \in S : f[m] = n
    BY <1>1
  <2>. QED  BY <2>2, <2>3 DEF Bijection, Injection, Surjection, IsInjective
<1>4. Cardinality(T) = Cardinality(S)
  BY <1>2, <1>3, FS_Bijection DEF ExistsBijection
<1>5. PICK rank \in [S -> 1..Cardinality(S)] :
        \A r \in Range(s.rels) :
            ~r.nullable =>
                /\ r.type = "ManyToOne" => rank[r.to] < rank[r.from]
                /\ r.type = "OneToMany" => rank[r.from] < rank[r.to]
  BY DEF Insertable, S
<1>. DEFINE rank2 == [n \in T |-> rank[back(n)]]
<1>6. \A n \in S : Follow(n, old, to) \in T /\ rank2[Follow(n, old, to)] = rank[n]
  BY <1>1 DEF Follow
<1>7. \A n \in T : back(n) \in S
  BY <1>1 DEF Follow
<1>8. rank2 \in [T -> 1..Cardinality(T)]
  BY <1>4, <1>7
<1>. HIDE DEF rank2
<1>9. ASSUME NEW k \in DOMAIN t.rels, ~t.rels[k].nullable
      PROVE  /\ t.rels[k].type = "ManyToOne" => rank2[t.rels[k].to] < rank2[t.rels[k].from]
             /\ t.rels[k].type = "OneToMany" => rank2[t.rels[k].from] < rank2[t.rels[k].to]
  <2>1. k \in DOMAIN s.rels
    BY DEF Renamed
  <2>2. /\ t.rels[k].from = Follow(s.rels[k].from, old, to)
        /\ t.rels[k].to = Follow(s.rels[k].to, old, to)
        /\ t.rels[k].type = s.rels[k].type /\ t.rels[k].nullable = s.rels[k].nullable
        /\ s.rels[k].from \in S /\ s.rels[k].to \in S
    BY <2>1, RelFollows DEF S
  <2>3. rank2[t.rels[k].from] = rank[s.rels[k].from] /\ rank2[t.rels[k].to] = rank[s.rels[k].to]
    BY <1>6, <2>2
  <2>4. s.rels[k] \in Range(s.rels)
    BY <2>1 DEF Range
  <2>. QED  BY <1>5, <1>9, <2>2, <2>3, <2>4
<1>10. \A r \in Range(t.rels) :
            ~r.nullable =>
                /\ r.type = "ManyToOne" => rank2[r.to] < rank2[r.from]
                /\ r.type = "OneToMany" => rank2[r.from] < rank2[r.to]
  BY <1>9 DEF Range
<1>. QED  BY <1>8, <1>10 DEF Insertable, T

\* A renaming to a fresh name breaks nothing the rules look at.
LEMMA RenamedHolds ==
    ASSUME NEW s \in Schema, NEW i \in DOMAIN s.entities, NEW to \in Name,
           RulesHold(s), Fresh(s, to), NamesOnlyEntity(s, s.entities[i].name)
    PROVE  RulesHold(EntityRenamed(s, i, to))
<1>. DEFINE old == s.entities[i].name
            t == EntityRenamed(s, i, to)
<1>1. /\ EntitiesCompile(s) /\ RelationshipsApart(s) /\ Insertable(s)
      /\ \A k \in DOMAIN s.entities : FieldsCompile(s, k) /\ IndexesKnown(s, k)
  BY DEF RulesHold
<1>2. old \in Name
  BY SchemaParts, EntityParts
<1>3. /\ Renamed(s, t, old, to)
      /\ \A k \in DOMAIN s.entities : t.entities[k].indexes
                = RenameColumn(s.entities[k], ForeignKeyTo(old), ForeignKeyTo(to)).indexes
  BY <1>1, EntityRenamedIs
<1>4. NamesOnlyEntity(s, old)
  OBVIOUS
<1>. HIDE DEF old, t
<1>5. EntitiesCompile(t)
  BY <1>1, <1>3, EntitiesFollow
<1>6. RelationshipsApart(t)
  BY <1>1, <1>3, ClashesFollow
<1>7. \A k \in DOMAIN s.entities : FieldsCompile(t, k)
  BY <1>1, <1>3, FieldsFollow
<1>8. \A k \in DOMAIN s.entities : IndexesKnown(t, k)
  BY <1>2, <1>3, <1>4, IndexesFollow
<1>9. Insertable(t)
  BY <1>1, <1>3, OrderFollows
<1>10. DOMAIN t.entities = DOMAIN s.entities
  BY <1>3 DEF Renamed
<1>11. RulesHold(t)
  BY <1>5, <1>6, <1>7, <1>8, <1>9, <1>10 DEF RulesHold
<1>. QED  BY <1>11 DEF t

-----------------------------------------------------------------------------
(* The theorems.                                                           *)

\* Whatever an agent edits and fixSchema fixes, the schema stays one, with
\* names, fields, indexes and relationships of their types, and between calls
\* nothing is left over of a rejected copy.  (tools.ts 84-91, lint.ts 31-45)
THEOREM TypeCorrect == Spec => []TypeOK
BY SchemaInvHolds, PTL DEF SchemaInv

\* No fix removes an entity, cuts a relationship off its entities, or removes
\* a relationship that was not redundant, in any schema.  (lint.ts 28-30)
THEOREM FixesKeepEntities == Spec => FixKeepsEntities
<1>. DEFINE Step ==
        mode = "fixing" =>
        /\ Len(working'.entities) = Len(working.entities)
        /\ Ends(working) \subseteq EntityNames(working)
                => Ends(working') \subseteq EntityNames(working')
        /\ Len(working'.rels) # Len(working.rels) =>
            \E i \in DOMAIN working.rels :
                LET two == {working.rels[i].from, working.rels[i].to}
                IN  /\ working.rels[i].type = "ManyToMany"
                    /\ working'.rels = RemoveAt(working.rels, i)
                    /\ \E child \in Ends(working) \ two :
                        \A parent \in two : HasParent(working, child, parent)
<1>1. ASSUME SchemaInv, [Next]_vars PROVE [Step]_vars
  <2>. SUFFICES ASSUME Next, mode = "fixing" PROVE Step
    BY <1>1
  <2>1. Keeps(working, working') => Step
    BY DEF Keeps, DropsRedundant
  <2>2. working' = working => Step
    BY DEF vars
  <2>. HIDE DEF Step
  <2>3. CASE FixPass
    <3>1. working \in Schema
      BY <1>1 DEF SchemaInv, TypeOK
    <3>2. Keeps(working, working')
      BY <2>3, <3>1, FixPassKeeps DEF FixPass
    <3>. QED  BY <2>1, <3>2
  <2>4. CASE FixDone
    BY <2>2, <2>4 DEF FixDone
  <2>5. ~Commit /\ ~Reject /\ ~StartFix
    BY DEF Commit, Reject, StartFix
  <2>6. ~EditEntities /\ ~EditRelationships /\ \A i : ~EditFields(i)
    BY DEF EditEntities, AddEntity, RemoveEntity, RenameEntity, EditRelationships,
           AddRelationship, RemoveRelationship, EditFields, AddField, UpdateField,
           RenameField, RemoveField, AddIndex, Propose
  <2>. QED  BY <2>3, <2>4, <2>5, <2>6 DEF Next
<1>2. []SchemaInv /\ [][Next]_vars => [][Step]_vars
  BY <1>1, PTL
<1>. QED  BY <1>2, SchemaInvHolds, PTL DEF Spec, FixKeepsEntities

\* In every schema the tools reach, whatever was edited and fixed, lintSchema
\* finds an error only if generated code would not compile or rows could not be
\* inserted, and whenever that is so but for an index on a timestamp the entity
\* lacks, a member called like the key or a timestamp, or one relationship whose
\* two sides clash.  (lint.ts 20-25, rules.ts 154-158)
THEOREM LintExact == Spec => []LintIsExact
<1>1. SchemaInv => LintIsExact
  BY ErrorsExact, CompilesIs DEF SchemaInv, TypeOK, LintIsExact
<1>. QED  BY <1>1, SchemaInvHolds, PTL

\* On any schema the tools reach that has no errors, a rename to a fresh name
\* adds none, wherever the name stands only for the entity.  (tools.ts 302-329)
THEOREM RenamingFollowsReferences == Spec => []RenameFollowsReferences
<1>1. ASSUME SchemaInv PROVE RenameFollowsReferences
  <2>. SUFFICES ASSUME NEW i \in DOMAIN schema.entities, NEW to \in EntityName,
                       Errors(schema) = {}, Fresh(schema, to),
                       NamesOnlyEntity(schema, schema.entities[i].name)
                PROVE  Errors(EntityRenamed(schema, i, to)) = {}
    BY DEF RenameFollowsReferences
  <2>1. schema \in Schema /\ to \in Name
    BY <1>1, ToolsAssumption DEF SchemaInv, TypeOK
  <2>2. RulesHold(schema)
    BY <2>1, ErrorsExact
  <2>3. RulesHold(EntityRenamed(schema, i, to)) /\ EntityRenamed(schema, i, to) \in Schema
    BY <2>1, <2>2, RenamedHolds, EntityRenamedType
  <2>. QED  BY <2>3, ErrorsExact
<1>. QED  BY <1>1, SchemaInvHolds, PTL
=============================================================================
