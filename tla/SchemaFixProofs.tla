--------------------------- MODULE SchemaFixProofs ---------------------------
(***************************************************************************)
(* Proof of what fixSchema promises: no fix makes an error without a fix,  *)
(* other than a clash of relationship properties, so that fixing takes the *)
(* errors away; and no fix brings back what another one removed, so that   *)
(* fixing ends.  First the forms a fix has, then the errors they leave,    *)
(* then what they use up.                                                  *)
(***************************************************************************)
EXTENDS SchemaToolsProofs

-----------------------------------------------------------------------------
(* What one pass of fixSchema does.                                        *)

WithEntity(s, i, e) == [s EXCEPT !.entities[i] = e]

WithRel(s, i, r) == [s EXCEPT !.rels[i] = r]

\* A reserved entity gets a free name.
FreesName(s, t) ==
    \E i \in DOMAIN s.entities :
        /\ s.entities[i].name \in Reserved
        /\ t = RenamedEntity(s, i, FreeName(Append(PascalCase(s.entities[i].name), "Record"),
                                            EntityNames(s)))

\* An entity loses fields.
DropsFields(s, t) ==
    \E i \in DOMAIN s.entities, fields \in Seq(FieldRecord) :
        /\ Range(fields) \subseteq Range(s.entities[i].fields)
        /\ Len(fields) < Len(s.entities[i].fields)
        /\ t = WithEntity(s, i, [s.entities[i] EXCEPT !.fields = fields])

Mistyped(f) == f.type \in DOMAIN TypeAlias \/ (f.type = "enum" /\ ~f.values)

RetypesField(s, t) ==
    \E p \in FieldPlaces(s), type \in FieldType \ {"enum"} :
        /\ Mistyped(Field(s, p))
        /\ t = WithEntity(s, p[1], [s.entities[p[1]] EXCEPT !.fields[p[2]] =
                                        [Field(s, p) EXCEPT !.type = type]])

RetypesRel(s, t) ==
    \E i \in DOMAIN s.rels, type \in RelationshipType :
        /\ s.rels[i].type \in DOMAIN RelationshipAlias
        /\ t = WithRel(s, i, [s.rels[i] EXCEPT !.type = type])

\* An end that is no entity becomes one.
MovesEnd(s, t) ==
    \E i \in DOMAIN s.rels, name \in EntityNames(s) :
        \/ /\ s.rels[i].from \notin EntityNames(s)
           /\ t = WithRel(s, i, [s.rels[i] EXCEPT !.from = name])
        \/ /\ s.rels[i].to \notin EntityNames(s)
           /\ t = WithRel(s, i, [s.rels[i] EXCEPT !.to = name])

\* A field a relationship generates too gets a free name.
RenamesField(s, t) ==
    \E p \in FieldPlaces(s), suffix \in {"_text", "_value"} :
        LET given == GivenMembers(s, s.entities[p[1]].name)
        IN  /\ Field(s, p).name \in given
            /\ t = RenamedField(s, p, FreeName(Append(Field(s, p).name, suffix),
                                               FieldNames(s, p[1]) \cup given))

\* A side and one of an earlier relationship give a class members of one name.
Clash(s, d, c) ==
    /\ d \in GeneratingSides(s) /\ c \in GeneratingSides(s)
    /\ d.entity = c.entity /\ c.rel < d.rel
    /\ GivenNames(d) \cap GivenNames(c) # {}

\* The declaring side of a clash gets a longer name.
NamesRel(s, t) ==
    \E d, c \in GeneratingSides(s), name \in Name :
        /\ Clash(s, d, c) /\ d.isFrom
        /\ Len(name) >= Len(d.ref) + Len(s.rels[d.rel].to)
        /\ t = WithRel(s, d.rel, [s.rels[d.rel] EXCEPT !.toName = name])

\* The other side of a clash is generated no more.
StopsInverse(s, t) ==
    \E d, c \in GeneratingSides(s) :
        /\ Clash(s, d, c) /\ s.rels[d.rel].bi # "no"
        /\ t = WithRel(s, d.rel, [s.rels[d.rel] EXCEPT !.bi = "no"])

DropsColumns(s, t) ==
    \E p \in IndexPlaces(s), columns \in Seq(Name) :
        LET index == s.entities[p[1]].indexes[p[2]]
        IN  /\ Len(columns) < Len(index.fields)
            /\ t = WithEntity(s, p[1], [s.entities[p[1]] EXCEPT !.indexes[p[2]] =
                                            [index EXCEPT !.fields = columns]])

DropsIndex(s, t) ==
    \E p \in IndexPlaces(s) :
        t = WithEntity(s, p[1], [s.entities[p[1]] EXCEPT !.indexes =
                                    RemoveAt(s.entities[p[1]].indexes, p[2])])

MakesOptional(s, t) ==
    \E i \in DOMAIN s.rels :
        /\ ~s.rels[i].nullable
        /\ t = WithRel(s, i, [s.rels[i] EXCEPT !.nullable = TRUE])

DropsRel(s, t) ==
    \E i \in DOMAIN s.rels :
        /\ RedundantManyToMany(s) # <<>>
        /\ t = [s EXCEPT !.rels = RemoveAt(s.rels, i)]

Mends(s, t) ==
    \/ FreesName(s, t)
    \/ DropsFields(s, t) \/ RetypesField(s, t) \/ RenamesField(s, t)
    \/ RetypesRel(s, t) \/ MovesEnd(s, t) \/ NamesRel(s, t) \/ StopsInverse(s, t)
    \/ MakesOptional(s, t) \/ DropsRel(s, t)
    \/ DropsColumns(s, t) \/ DropsIndex(s, t)

\* Findings with a fix and what it makes of s.
Mended(s, found) ==
    \A f \in Range(found) : f.fixable => \E t : f.fixed = {t} /\ Mends(s, t)

AllFixable(found) == \A f \in Range(found) : f.fixable

LEMMA FixableParts ==
    ASSUME NEW rule, NEW entity, NEW field, NEW rel, NEW t
    PROVE  /\ Error(rule, entity, field, rel).fixable = FALSE
           /\ Error(rule, entity, field, rel).rule = rule
           /\ FixedBy(Error(rule, entity, field, rel), t).fixable
           /\ FixedBy(Error(rule, entity, field, rel), t).rule = rule
           /\ FixedBy(Warning(rule, entity, field, rel), t).fixable
BY DEF Error, Warning, Finding, FixedBy

\* One finding per place, each with a fix.
LEMMA EachMended ==
    ASSUME NEW s, NEW places, NEW found, found = [k \in DOMAIN places |-> found[k]],
           \A k \in DOMAIN places :
                found[k].fixable /\ \E t : found[k].fixed = {t} /\ Mends(s, t)
    PROVE  Mended(s, found) /\ AllFixable(found)
<1>1. \A f \in Range(found) : \E k \in DOMAIN places : f = found[k]
  BY DEF Range
<1>. QED  BY <1>1 DEF Mended, AllFixable

LEMMA FieldPlacesAre ==
    ASSUME NEW s \in Schema, NEW parts, DOMAIN parts = DOMAIN s.entities,
           \A i \in DOMAIN s.entities : parts[i] \subseteq DOMAIN s.entities[i].fields
    PROVE  Range(Nested(parts)) = {p \in FieldPlaces(s) : p[2] \in parts[p[1]]}
<1>. DEFINE n == Len(s.entities)
            P == {p \in (1..n) \X Int : p[2] \in parts[p[1]]}
<1>1. n \in Nat /\ DOMAIN s.entities = 1..n
  BY SchemaParts
<1>2. ASSUME NEW i \in 1..n
      PROVE  /\ IsFiniteSet(parts[i]) /\ parts[i] \subseteq Int
             /\ DOMAIN s.entities[i].fields \subseteq Nat
  <2>1. s.entities[i] \in EntityRecord
    BY <1>1, SchemaParts
  <2>. DEFINE m == Len(s.entities[i].fields)
  <2>2. m \in Nat /\ DOMAIN s.entities[i].fields = 1..m
    BY <2>1, EntityParts
  <2>3. parts[i] \subseteq 1..m
    BY <1>1, <2>2
  <2>. HIDE DEF m
  <2>4. IsFiniteSet(1..m) /\ 1..m \subseteq Int
    BY <2>2, FS_Interval
  <2>5. IsFiniteSet(parts[i])
    BY <2>3, <2>4, FS_Subset
  <2>. QED  BY <2>2, <2>3, <2>4, <2>5
<1>. HIDE DEF n
<1>3. Range(Nested(parts)) = P
  BY <1>1, <1>2, NestedRange
<1>4. P = {p \in FieldPlaces(s) : p[2] \in parts[p[1]]}
  BY <1>1, <1>2 DEF FieldPlaces
<1>. QED  BY <1>3, <1>4

LEMMA IndexPlacesAre ==
    ASSUME NEW s \in Schema, NEW parts, DOMAIN parts = DOMAIN s.entities,
           \A i \in DOMAIN s.entities : parts[i] \subseteq DOMAIN s.entities[i].indexes
    PROVE  Range(Nested(parts)) = {p \in IndexPlaces(s) : p[2] \in parts[p[1]]}
<1>. DEFINE n == Len(s.entities)
            P == {p \in (1..n) \X Int : p[2] \in parts[p[1]]}
<1>1. n \in Nat /\ DOMAIN s.entities = 1..n
  BY SchemaParts
<1>2. ASSUME NEW i \in 1..n
      PROVE  /\ IsFiniteSet(parts[i]) /\ parts[i] \subseteq Int
             /\ DOMAIN s.entities[i].indexes \subseteq Nat
  <2>1. s.entities[i] \in EntityRecord
    BY <1>1, SchemaParts
  <2>. DEFINE m == Len(s.entities[i].indexes)
  <2>2. m \in Nat /\ DOMAIN s.entities[i].indexes = 1..m
    BY <2>1, EntityParts
  <2>3. parts[i] \subseteq 1..m
    BY <1>1, <2>2
  <2>. HIDE DEF m
  <2>4. IsFiniteSet(1..m) /\ 1..m \subseteq Int
    BY <2>2, FS_Interval
  <2>5. IsFiniteSet(parts[i])
    BY <2>3, <2>4, FS_Subset
  <2>. QED  BY <2>2, <2>3, <2>4, <2>5
<1>. HIDE DEF n
<1>3. Range(Nested(parts)) = P
  BY <1>1, <1>2, NestedRange
<1>4. P = {p \in IndexPlaces(s) : p[2] \in parts[p[1]]}
  BY <1>1, <1>2 DEF IndexPlaces
<1>. QED  BY <1>3, <1>4

\* Leaving out members shortens a sequence.
LEMMA AtPositionsShorter ==
    ASSUME NEW S, NEW s \in Seq(S), NEW P, P \subseteq DOMAIN s, P # DOMAIN s
    PROVE  Len(AtPositions(s, P)) < Len(s)
<1>. DEFINE n == Len(s)
<1>1. n \in Nat /\ DOMAIN s = 1..n
  OBVIOUS
<1>. HIDE DEF n
<1>2. IsFiniteSet(1..n) /\ Cardinality(1..n) = n
  BY <1>1, FS_Interval
<1>3. IsFiniteSet(P) /\ Cardinality(P) \in Nat /\ Cardinality(P) < n
  BY <1>1, <1>2, FS_Subset, FS_CardinalityType
<1>4. DOMAIN AtPositions(s, P) = 1..Cardinality(P)
  BY DEF AtPositions, InOrder
<1>5. AtPositions(s, P) \in Seq(S)
  BY AtPositionsType
<1>6. Len(AtPositions(s, P)) = Cardinality(P)
  <2>. DEFINE a == AtPositions(s, P)
  <2>1. a \in Seq(S) /\ DOMAIN a = 1..Cardinality(P)
    BY <1>4, <1>5
  <2>. HIDE DEF a
  <2>2. Len(a) \in Nat /\ DOMAIN a = 1..Len(a)
    BY <2>1
  <2>3. Len(a) = Cardinality(P)
    BY <1>3, <2>1, <2>2
  <2>. QED  BY <2>3 DEF a
<1>. QED  BY <1>3, <1>6 DEF n

LEMMA RemoveAtShorter ==
    ASSUME NEW S, NEW s \in Seq(S), NEW i \in DOMAIN s
    PROVE  Len(RemoveAt(s, i)) = Len(s) - 1 /\ Len(s) \in Nat
<1>. DEFINE a == SubSeq(s, 1, i - 1)
            b == SubSeq(s, i + 1, Len(s))
<1>1. Len(s) \in Nat /\ i \in 1..Len(s)
  OBVIOUS
<1>2. a \in Seq(S) /\ Len(a) = i - 1 /\ b \in Seq(S) /\ Len(b) = Len(s) - i
  BY <1>1
<1>. HIDE DEF a, b
<1>3. Len(a \o b) = Len(s) - 1
  BY <1>1, <1>2
<1>. QED  BY <1>1, <1>3 DEF RemoveAt, a, b

-----------------------------------------------------------------------------
(* Every rule again: which fix it has, and what it makes of the schema.    *)

LEMMA DuplicateEntityNamesMended ==
    ASSUME NEW s \in Schema
    PROVE  \A f \in Range(DuplicateEntityNames(s)) : ~f.fixable
<1>. DEFINE P == {i \in DOMAIN s.entities :
                    Cardinality({j \in 1..(i - 1) : s.entities[j].name = s.entities[i].name}) = 1}
            found == DuplicateEntityNames(s)
<1>1. found = [k \in DOMAIN InOrder(P) |->
        Error("DUPLICATE_ENTITY_NAME", s.entities[InOrder(P)[k]].name, NoName, <<>>)]
  BY DEF DuplicateEntityNames, Each
<1>. HIDE DEF P, found
<1>2. \A k \in DOMAIN found : ~found[k].fixable
  BY <1>1, FixableParts
<1>3. \A f \in Range(found) : ~f.fixable
  BY <1>2 DEF Range
<1>. QED  BY <1>3 DEF found

LEMMA ReservedEntityNamesMended ==
    ASSUME NEW s \in Schema
    PROVE  Mended(s, ReservedEntityNames(s)) /\ AllFixable(ReservedEntityNames(s))
<1>. DEFINE P == {i \in DOMAIN s.entities : s.entities[i].name \in Reserved}
            safe(name) == FreeName(Append(PascalCase(name), "Record"), EntityNames(s))
            places == InOrder(P)
            found == ReservedEntityNames(s)
<1>1. places \in Seq(P)
  BY SchemaParts, InOrderSeq
<1>2. found = [k \in DOMAIN places |->
        FixedBy(Error("RESERVED_ENTITY_NAME", s.entities[places[k]].name, NoName, <<>>),
                RenamedEntity(s, places[k], safe(s.entities[places[k]].name)))]
  BY DEF ReservedEntityNames, Each
<1>3. ASSUME NEW i \in P PROVE Mends(s, RenamedEntity(s, i, safe(s.entities[i].name)))
  BY DEF Mends, FreesName
<1>. HIDE DEF places, found, P, safe
<1>4. ASSUME NEW k \in DOMAIN places
      PROVE  found[k].fixable /\ \E t : found[k].fixed = {t} /\ Mends(s, t)
  <2>1. places[k] \in P
    BY <1>1
  <2>2. found[k].fixable
    BY <1>2, FixableParts
  <2>. QED  BY <1>2, <1>3, <2>1, <2>2, FixedParts
<1>5. found = [k \in DOMAIN places |-> found[k]]
  BY <1>2
<1>6. Mended(s, found) /\ AllFixable(found)
  BY <1>4, <1>5, EachMended
<1>. QED  BY <1>6 DEF found

LEMMA DuplicateFieldNamesMended ==
    ASSUME NEW s \in Schema
    PROVE  Mended(s, DuplicateFieldNames(s)) /\ AllFixable(DuplicateFieldNames(s))
<1>. DEFINE fields(i) == s.entities[i].fields
            earlier(i, j) == {k \in 1..(j - 1) : fields(i)[k].name = fields(i)[j].name}
            kept(i, name) == {j \in DOMAIN fields(i) :
                                fields(i)[j].name # name \/ earlier(i, j) = {}}
            parts == [i \in DOMAIN s.entities |->
                        {j \in DOMAIN s.entities[i].fields : Cardinality(earlier(i, j)) = 1}]
            places == Nested(parts)
            found == DuplicateFieldNames(s)
            fixed(p) == [s EXCEPT !.entities[p[1]].fields =
                            AtPositions(fields(p[1]), kept(p[1], Field(s, p).name))]
<1>1. Range(places) = {p \in FieldPlaces(s) : p[2] \in parts[p[1]]}
  BY FieldPlacesAre
<1>2. found = [k \in DOMAIN places |->
        FixedBy(Error("DUPLICATE_FIELD_NAME", s.entities[places[k][1]].name,
                      Field(s, places[k]).name, <<>>), fixed(places[k]))]
  BY DEF DuplicateFieldNames, Each, FieldsWhere
<1>3. ASSUME NEW p \in FieldPlaces(s), p[2] \in parts[p[1]] PROVE DropsFields(s, fixed(p))
  <2>. DEFINE e == s.entities[p[1]]
              P == kept(p[1], Field(s, p).name)
              new == AtPositions(e.fields, P)
  <2>1. p[1] \in DOMAIN s.entities /\ p[2] \in DOMAIN e.fields /\ e \in EntityRecord
        /\ Field(s, p) = e.fields[p[2]]
    BY PlaceParts
  <2>2. e.fields \in Seq(FieldRecord)
    BY <2>1, EntityParts
  <2>3. P \subseteq DOMAIN e.fields
    OBVIOUS
  <2>4. p[2] \notin P
    <3>1. Cardinality(earlier(p[1], p[2])) = 1
      BY <1>3, <2>1
    <3>2. earlier(p[1], p[2]) # {}
      <4>. HIDE DEF earlier
      <4>. QED  BY <3>1, FS_EmptySet
    <3>. QED  BY <2>1, <3>2
  <2>5. fixed(p) = WithEntity(s, p[1], [e EXCEPT !.fields = new])
    BY DEF WithEntity
  <2>. HIDE DEF fixed, P
  <2>. DEFINE old == e.fields
  <2>. HIDE DEF old
  <2>6. new \in Seq(FieldRecord) /\ Range(new) \subseteq Range(e.fields)
    <3>1. old \in Seq(FieldRecord) /\ P \subseteq DOMAIN old
      BY <2>2, <2>3 DEF old
    <3>2. AtPositions(old, P) \in Seq(FieldRecord) /\ Range(AtPositions(old, P)) = {old[i] : i \in P}
      BY <3>1, AtPositionsType, AtPositionsRange
    <3>3. Range(AtPositions(old, P)) \subseteq Range(old)
      BY <3>1, <3>2 DEF Range
    <3>. QED  BY <3>2, <3>3 DEF old
  <2>7. Len(new) < Len(e.fields)
    BY <2>1, <2>2, <2>3, <2>4, AtPositionsShorter
  <2>. HIDE DEF new
  <2>. QED  BY <2>1, <2>5, <2>6, <2>7 DEF DropsFields
<1>. HIDE DEF places, found, fixed, parts
<1>4. ASSUME NEW k \in DOMAIN places
      PROVE  found[k].fixable /\ \E t : found[k].fixed = {t} /\ Mends(s, t)
  <2>1. places[k] \in FieldPlaces(s) /\ places[k][2] \in parts[places[k][1]]
    BY <1>1 DEF Range
  <2>2. Mends(s, fixed(places[k]))
    BY <1>3, <2>1 DEF Mends
  <2>3. found[k].fixable
    BY <1>2, FixableParts
  <2>. QED  BY <1>2, <2>2, <2>3, FixedParts
<1>5. found = [k \in DOMAIN places |-> found[k]]
  BY <1>2
<1>6. Mended(s, found) /\ AllFixable(found)
  BY <1>4, <1>5, EachMended
<1>. QED  BY <1>6 DEF found

\* A field type is known or misspelt in a known way.
TypesFixable(s) ==
    \A p \in FieldPlaces(s) : Field(s, p).type \in FieldType \cup DOMAIN TypeAlias

LEMMA UnknownFieldTypesMended ==
    ASSUME NEW s \in Schema
    PROVE  /\ Mended(s, UnknownFieldTypes(s))
           /\ AllFixable(UnknownFieldTypes(s)) <=> TypesFixable(s)
<1>. DEFINE parts == [i \in DOMAIN s.entities |->
                        {j \in DOMAIN s.entities[i].fields :
                            s.entities[i].fields[j].type \notin FieldType}]
            places == Nested(parts)
            found == UnknownFieldTypes(s)
            error(p) == Error("UNKNOWN_FIELD_TYPE", s.entities[p[1]].name, Field(s, p).name, <<>>)
            fixed(p) == [s EXCEPT !.entities[p[1]].fields[p[2]].type = TypeAlias[Field(s, p).type]]
<1>1. Range(places) = {p \in FieldPlaces(s) : Field(s, p).type \notin FieldType}
  <2>1. Range(places) = {p \in FieldPlaces(s) : p[2] \in parts[p[1]]}
    BY FieldPlacesAre
  <2>2. ASSUME NEW p \in FieldPlaces(s)
        PROVE  p[2] \in parts[p[1]] <=> Field(s, p).type \notin FieldType
    BY PlaceParts
  <2>. QED  BY <2>1, <2>2
<1>2. found = [k \in DOMAIN places |->
        IF Field(s, places[k]).type \in DOMAIN TypeAlias
        THEN FixedBy(error(places[k]), fixed(places[k])) ELSE error(places[k])]
  BY DEF UnknownFieldTypes, Each, FieldsWhere
<1>3. ASSUME NEW p \in FieldPlaces(s), Field(s, p).type \in DOMAIN TypeAlias
      PROVE  Mends(s, fixed(p))
  <2>. DEFINE type == TypeAlias[Field(s, p).type]
  <2>1. type \in FieldType \ {"enum"}
    BY <1>3 DEF TypeAlias, FieldType
  <2>2. fixed(p) = WithEntity(s, p[1], [s.entities[p[1]] EXCEPT !.fields[p[2]] =
                                            [Field(s, p) EXCEPT !.type = type]])
    BY DEF WithEntity, Field
  <2>. HIDE DEF fixed, type
  <2>. QED  BY <1>3, <2>1, <2>2 DEF Mends, RetypesField, Mistyped
<1>. HIDE DEF places, found, fixed
<1>4. ASSUME NEW k \in DOMAIN places
      PROVE  /\ found[k].fixable => \E t : found[k].fixed = {t} /\ Mends(s, t)
             /\ found[k].fixable <=> Field(s, places[k]).type \in DOMAIN TypeAlias
  <2>1. places[k] \in FieldPlaces(s)
    BY <1>1 DEF Range
  <2>2. CASE Field(s, places[k]).type \in DOMAIN TypeAlias
    <3>1. found[k] = FixedBy(error(places[k]), fixed(places[k]))
      BY <1>2, <2>2
    <3>2. found[k].fixable /\ found[k].fixed = {fixed(places[k])}
      <4>1. found[k].fixable
        BY <3>1 DEF FixedBy, Error, Finding
      <4>. QED  BY <3>1, <4>1, FixedParts
    <3>. QED  BY <1>3, <2>1, <2>2, <3>2
  <2>3. CASE ~(Field(s, places[k]).type \in DOMAIN TypeAlias)
    <3>1. found[k] = error(places[k])
      BY <1>2, <2>3
    <3>2. ~found[k].fixable
      BY <3>1 DEF Error, Finding
    <3>. QED  BY <2>3, <3>2
  <2>. QED  BY <2>2, <2>3
<1>5. Range(found) = {found[k] : k \in DOMAIN places}
  BY <1>2 DEF Range
<1>6. Mended(s, found)
  BY <1>4, <1>5 DEF Mended
<1>7. AllFixable(found) <=> \A p \in Range(places) : Field(s, p).type \in DOMAIN TypeAlias
  BY <1>4, <1>5 DEF AllFixable, Range
<1>8. AllFixable(found) <=> TypesFixable(s)
  BY <1>1, <1>7 DEF TypesFixable
<1>. QED  BY <1>6, <1>8 DEF found

LEMMA EnumsWithoutValuesMended ==
    ASSUME NEW s \in Schema
    PROVE  Mended(s, EnumsWithoutValues(s)) /\ AllFixable(EnumsWithoutValues(s))
<1>. DEFINE parts == [i \in DOMAIN s.entities |->
                        {j \in DOMAIN s.entities[i].fields :
                            s.entities[i].fields[j].type = "enum"
                            /\ ~s.entities[i].fields[j].values}]
            places == Nested(parts)
            found == EnumsWithoutValues(s)
            fixed(p) == [s EXCEPT !.entities[p[1]].fields[p[2]].type = "text"]
<1>1. Range(places) = {p \in FieldPlaces(s) : p[2] \in parts[p[1]]}
  BY FieldPlacesAre
<1>2. found = [k \in DOMAIN places |->
        FixedBy(Error("ENUM_WITHOUT_VALUES", s.entities[places[k][1]].name,
                      Field(s, places[k]).name, <<>>), fixed(places[k]))]
  BY DEF EnumsWithoutValues, Each, FieldsWhere
<1>3. ASSUME NEW p \in FieldPlaces(s), p[2] \in parts[p[1]] PROVE Mends(s, fixed(p))
  <2>1. Mistyped(Field(s, p))
    BY <1>3, PlaceParts DEF Mistyped
  <2>2. fixed(p) = WithEntity(s, p[1], [s.entities[p[1]] EXCEPT !.fields[p[2]] =
                                            [Field(s, p) EXCEPT !.type = "text"]])
    BY DEF WithEntity, Field
  <2>3. "text" \in FieldType \ {"enum"}
    BY DEF FieldType
  <2>. HIDE DEF fixed
  <2>. QED  BY <2>1, <2>2, <2>3 DEF Mends, RetypesField
<1>. HIDE DEF places, found, fixed, parts
<1>4. ASSUME NEW k \in DOMAIN places
      PROVE  found[k].fixable /\ \E t : found[k].fixed = {t} /\ Mends(s, t)
  <2>1. places[k] \in FieldPlaces(s) /\ places[k][2] \in parts[places[k][1]]
    BY <1>1 DEF Range
  <2>2. found[k].fixable
    BY <1>2, FixableParts
  <2>. QED  BY <1>2, <1>3, <2>1, <2>2, FixedParts
<1>5. found = [k \in DOMAIN places |-> found[k]]
  BY <1>2
<1>6. Mended(s, found) /\ AllFixable(found)
  BY <1>4, <1>5, EachMended
<1>. QED  BY <1>6 DEF found

\* The same of relationships.
RelTypesFixable(s) ==
    \A i \in DOMAIN s.rels : s.rels[i].type \in RelationshipType \cup DOMAIN RelationshipAlias

LEMMA InvalidRelationshipTypesMended ==
    ASSUME NEW s \in Schema
    PROVE  /\ Mended(s, InvalidRelationshipTypes(s))
           /\ AllFixable(InvalidRelationshipTypes(s)) <=> RelTypesFixable(s)
<1>. DEFINE P == {i \in DOMAIN s.rels : s.rels[i].type \notin RelationshipType}
            places == InOrder(P)
            found == InvalidRelationshipTypes(s)
            error(i) == Error("RELATIONSHIP_INVALID_TYPE", NoName, NoName, Describe(s.rels[i]))
            fixed(i) == [s EXCEPT !.rels[i].type = RelationshipAlias[s.rels[i].type]]
<1>1. Range(places) = P
  <2>1. P \subseteq 1..Len(s.rels) /\ Len(s.rels) \in Nat
    BY SchemaParts
  <2>. HIDE DEF P
  <2>. QED  BY <2>1, InOrderRange
<1>2. found = [k \in DOMAIN places |->
        IF s.rels[places[k]].type \in DOMAIN RelationshipAlias
        THEN FixedBy(error(places[k]), fixed(places[k])) ELSE error(places[k])]
  BY DEF InvalidRelationshipTypes, Each
<1>3. ASSUME NEW i \in DOMAIN s.rels, s.rels[i].type \in DOMAIN RelationshipAlias
      PROVE  Mends(s, fixed(i))
  <2>. DEFINE type == RelationshipAlias[s.rels[i].type]
  <2>1. type \in RelationshipType
    BY <1>3 DEF RelationshipAlias, RelationshipType
  <2>2. fixed(i) = WithRel(s, i, [s.rels[i] EXCEPT !.type = type])
    BY DEF WithRel
  <2>. HIDE DEF fixed, type
  <2>. QED  BY <1>3, <2>1, <2>2 DEF Mends, RetypesRel
<1>. HIDE DEF places, found, fixed
<1>4. ASSUME NEW k \in DOMAIN places
      PROVE  /\ found[k].fixable => \E t : found[k].fixed = {t} /\ Mends(s, t)
             /\ found[k].fixable <=> s.rels[places[k]].type \in DOMAIN RelationshipAlias
  <2>1. places[k] \in DOMAIN s.rels
    BY <1>1 DEF Range
  <2>2. CASE s.rels[places[k]].type \in DOMAIN RelationshipAlias
    <3>1. found[k] = FixedBy(error(places[k]), fixed(places[k]))
      BY <1>2, <2>2
    <3>2. found[k].fixable /\ found[k].fixed = {fixed(places[k])}
      <4>1. found[k].fixable
        BY <3>1 DEF FixedBy, Error, Finding
      <4>. QED  BY <3>1, <4>1, FixedParts
    <3>. QED  BY <1>3, <2>1, <2>2, <3>2
  <2>3. CASE ~(s.rels[places[k]].type \in DOMAIN RelationshipAlias)
    <3>1. found[k] = error(places[k])
      BY <1>2, <2>3
    <3>2. ~found[k].fixable
      BY <3>1 DEF Error, Finding
    <3>. QED  BY <2>3, <3>2
  <2>. QED  BY <2>2, <2>3
<1>5. Range(found) = {found[k] : k \in DOMAIN places}
  BY <1>2 DEF Range
<1>6. Mended(s, found)
  BY <1>4, <1>5 DEF Mended
<1>7. AllFixable(found) <=> \A i \in P : s.rels[i].type \in DOMAIN RelationshipAlias
  BY <1>1, <1>4, <1>5 DEF AllFixable, Range
<1>8. AllFixable(found) <=> RelTypesFixable(s)
  BY <1>7 DEF RelTypesFixable
<1>. QED  BY <1>6, <1>8 DEF found

-----------------------------------------------------------------------------
(* What is generated is in the order of the relationships.                 *)

LEMMA InOrderIncreases ==
    ASSUME NEW P, IsFiniteSet(P), P \subseteq Int,
           NEW k \in DOMAIN InOrder(P), NEW l \in DOMAIN InOrder(P), k < l
    PROVE  InOrder(P)[k] < InOrder(P)[l]
<1>. DEFINE upto(i) == {j \in P : j <= i}
            c == Cardinality(P)
<1>1. InOrder(P) \in [1..c -> P] /\ c \in Nat /\ Range(InOrder(P)) = P
  BY InOrderType
<1>2. ASSUME NEW n \in 1..c PROVE Cardinality(upto(InOrder(P)[n])) = n
  <2>1. InOrder(P)[n] = CHOOSE i \in P : Cardinality(upto(i)) = n
    BY DEF InOrder
  <2>2. \E i \in P : Cardinality(upto(i)) = n
    <3>1. \A m \in 1..c : \E i \in P : Cardinality(upto(i)) = m
      BY InOrderCounts
    <3>. QED  BY <1>2, <3>1
  <2>. HIDE DEF upto
  <2>. QED  BY <2>1, <2>2
<1>3. k \in 1..c /\ l \in 1..c
  BY <1>1
<1>. DEFINE a == InOrder(P)[k]
            b == InOrder(P)[l]
<1>4. a \in P /\ b \in P /\ Cardinality(upto(a)) = k /\ Cardinality(upto(b)) = l
  BY <1>1, <1>2, <1>3
<1>. HIDE DEF a, b, c
<1>5. ASSUME b <= a PROVE FALSE
  <2>1. upto(b) \subseteq upto(a)
    <3>1. \A j \in P : j \in Int
      OBVIOUS
    <3>2. \A j \in P : j <= b => j <= a
      BY <1>4, <1>5, <3>1
    <3>. QED  BY <3>2
  <2>2. IsFiniteSet(upto(a))
    BY FS_Subset
  <2>. HIDE DEF upto
  <2>3. l <= k
    BY <1>4, <2>1, <2>2, FS_Subset
  <2>4. k \in Int /\ l \in Int
    BY <1>1, <1>3 DEF c
  <2>. QED  BY <2>3, <2>4
<1>6. a \in Int /\ b \in Int
  BY <1>4
<1>7. a < b
  BY <1>5, <1>6
<1>. QED  BY <1>7 DEF a, b

LEMMA AtPositionsSorted ==
    ASSUME NEW S, NEW w, NEW s \in Seq(S), NEW P, P \subseteq DOMAIN s, Sorted(w, s)
    PROVE  Sorted(w, AtPositions(s, P))
<1>1. DOMAIN s = 1..Len(s) /\ Len(s) \in Nat
  OBVIOUS
<1>2. IsFiniteSet(P) /\ P \subseteq Int
  <2>1. IsFiniteSet(1..Len(s))
    BY <1>1, FS_Interval
  <2>. QED  BY <1>1, <2>1, FS_Subset
<1>3. InOrder(P) \in [1..Cardinality(P) -> P]
  BY <1>2, InOrderType
<1>4. \A k, l \in DOMAIN InOrder(P) : k < l => InOrder(P)[k] < InOrder(P)[l]
  BY <1>2, InOrderIncreases
<1>. QED  BY <1>3, <1>4 DEF Sorted, AtPositions

\* The properties of one side: what it is called, and its foreign key.
LEMMA GivenSorted ==
    ASSUME NEW S, NEW w \in [S -> Int], NEW d,
           NEW own \in S, own = Property(BaseName(d), FALSE, d),
           NEW key \in S, key = Property(ForeignKey(BaseName(d)), TRUE, d),
           w[own] < w[key]
    PROVE  Sorted(w, GeneratedBy(d))
<1>. DEFINE one == <<own>>
            more == IF d.type = "ManyToOne" THEN <<key>> ELSE <<>>
<1>1. GeneratedBy(d) = one \o more
  BY DEF GeneratedBy
<1>2. \A x \in S : <<x>> \in Seq(S) /\ Range(<<x>>) = {x} /\ Sorted(w, <<x>>)
  BY DEF Range, Sorted
<1>3. <<>> \in Seq(S) /\ Range(<<>>) = {} /\ Sorted(w, <<>>)
  BY DEF Range, Sorted
<1>4. one \in Seq(S) /\ Range(one) = {own} /\ Sorted(w, one)
  BY <1>2
<1>5. more \in Seq(S) /\ Range(more) \subseteq {key} /\ Sorted(w, more)
  <2>1. more = <<key>> \/ more = <<>>
    OBVIOUS
  <2>. HIDE DEF more
  <2>. QED  BY <1>2, <1>3, <2>1
<1>. HIDE DEF one, more
<1>. QED  BY <1>1, <1>4, <1>5, ConcatSorted

LEMMA GeneratedSorted ==
    ASSUME NEW s \in Schema, NEW k \in DOMAIN Generated(s.rels), NEW l \in DOMAIN Generated(s.rels),
           k < l
    PROVE  Generated(s.rels)[k].side.rel <= Generated(s.rels)[l].side.rel
<1>. DEFINE S == SideRecord(s)
            P == PropertyRecord(s)
            all == Sides(s.rels)
            sides == Distinct(all)
            v == [d \in S |-> 2 * d.rel + (IF d.isFrom THEN 0 ELSE 1)]
            w == [p \in P |-> 2 * v[p.side] + (IF p.foreignKey THEN 1 ELSE 0)]
            rows == [j \in DOMAIN sides |-> GeneratedBy(sides[j])]
<1>1. \A d \in S : d.rel \in Int /\ d.isFrom \in BOOLEAN
  BY SchemaParts DEF SideRecord
<1>2. v \in [S -> Int] /\ \A d \in S : v[d] = 2 * d.rel + (IF d.isFrom THEN 0 ELSE 1)
  <2>. HIDE DEF S
  <2>. QED  BY <1>1
<1>. HIDE DEF v
<1>3. all \in Seq(S) /\ Sorted(v, all)
  BY <1>2, SidesSorted
<1>4. sides \in Seq(S) /\ Sorted(v, sides)
  <2>1. \E Q : Q \subseteq DOMAIN all /\ sides = AtPositions(all, Q)
    BY DEF Distinct
  <2>. HIDE DEF all, sides, S
  <2>. QED  BY <1>3, <2>1, AtPositionsType, AtPositionsSorted
<1>5. \A p \in P : p.side \in S /\ p.foreignKey \in BOOLEAN
  BY DEF PropertyRecord
<1>6. w \in [P -> Int] /\ \A p \in P : w[p] \in Int /\ w[p] = 2 * v[p.side] + (IF p.foreignKey THEN 1 ELSE 0)
  <2>. HIDE DEF P, S
  <2>. QED  BY <1>2, <1>5
<1>. HIDE DEF w, sides, all
<1>7. \A d \in S : GeneratedBy(d) \in Seq(P) /\ \A p \in Range(GeneratedBy(d)) : p.side = d
  BY GivenBy
<1>8. ASSUME NEW d \in S PROVE Sorted(w, GeneratedBy(d))
  <2>. DEFINE own == Property(BaseName(d), FALSE, d)
              key == Property(ForeignKey(BaseName(d)), TRUE, d)
  <2>1. own \in P /\ key \in P /\ own.side = d /\ key.side = d /\ ~own.foreignKey /\ key.foreignKey
    <3>1. d.ref \in Name /\ d.entity \in Name
      BY DEF SideRecord
    <3>2. BaseName(d) \in Name
      BY <3>1, CamelCaseType, PluralizeType DEF BaseName
    <3>3. ForeignKey(BaseName(d)) \in Name
      BY <3>2, ForeignKeyType
    <3>. QED  BY <3>1, <3>2, <3>3 DEF Property, PropertyRecord
  <2>. HIDE DEF own, key, P, S
  <2>2. w[own] = 2 * v[d] + 0 /\ w[key] = 2 * v[d] + 1 /\ v[d] \in Int
    BY <1>2, <1>6, <2>1
  <2>3. w[own] < w[key]
    BY <2>2
  <2>4. own = Property(BaseName(d), FALSE, d) /\ key = Property(ForeignKey(BaseName(d)), TRUE, d)
    BY DEF own, key
  <2>. QED  BY <1>6, <2>1, <2>3, <2>4, GivenSorted
<1>9. Generated(s.rels) = FlattenSeq(rows)
  BY DEF Generated, GeneratedFor, sides, all
<1>. DEFINE n == Len(sides)
<1>. HIDE DEF S, P
<1>10. n \in Nat /\ DOMAIN sides = 1..n /\ \A j \in 1..n : sides[j] \in S
  BY <1>4
<1>11. rows \in [1..n -> Seq(P)] /\ \A j \in 1..n : rows[j] = GeneratedBy(sides[j])
  BY <1>7, <1>10
<1>. HIDE DEF rows, n
<1>12. \A j \in 1..n : Sorted(w, rows[j])
  BY <1>8, <1>10, <1>11
<1>13. ASSUME NEW i \in 1..n, NEW j \in 1..n, i < j, NEW x \in Range(rows[i]), NEW y \in Range(rows[j])
       PROVE  w[x] < w[y]
  <2>1. x \in P /\ y \in P /\ x.side = sides[i] /\ y.side = sides[j]
    <3>1. rows[i] \in Seq(P) /\ rows[j] \in Seq(P)
      BY <1>11
    <3>2. x \in P /\ y \in P
      BY <3>1 DEF Range
    <3>. QED  BY <1>7, <1>10, <1>11, <3>2
  <2>2. v[sides[i]] < v[sides[j]] /\ v[sides[i]] \in Int /\ v[sides[j]] \in Int
    BY <1>2, <1>4, <1>10, <1>13 DEF Sorted
  <2>3. w[x] \in {2 * v[x.side], 2 * v[x.side] + 1} /\ w[y] \in {2 * v[y.side], 2 * v[y.side] + 1}
    BY <1>6, <2>1, <2>2
  <2>. QED  BY <2>1, <2>2, <2>3
<1>14. Sorted(w, FlattenSeq(rows)) /\ FlattenSeq(rows) \in Seq(P)
  BY <1>6, <1>10, <1>11, <1>12, <1>13, FlattenSorted, FlattenType
<1>. DEFINE flat == FlattenSeq(rows)
<1>15. k \in DOMAIN flat /\ l \in DOMAIN flat
  BY <1>9
<1>. HIDE DEF flat
<1>16. flat[k] \in P /\ flat[l] \in P /\ w[flat[k]] < w[flat[l]]
  BY <1>14, <1>15 DEF Sorted, flat
<1>17. ASSUME NEW x \in P, NEW y \in P, w[x] < w[y] PROVE x.side.rel <= y.side.rel
  <2>1. x.side \in S /\ y.side \in S
    BY <1>5
  <2>2. /\ v[x.side] \in {2 * x.side.rel, 2 * x.side.rel + 1}
        /\ v[y.side] \in {2 * y.side.rel, 2 * y.side.rel + 1}
        /\ x.side.rel \in Int /\ y.side.rel \in Int
    BY <1>1, <1>2, <2>1
  <2>3. w[x] \in {2 * v[x.side], 2 * v[x.side] + 1} /\ w[y] \in {2 * v[y.side], 2 * v[y.side] + 1}
    BY <1>6, <2>2
  <2>. QED  BY <1>17, <2>2, <2>3
<1>18. flat[k].side.rel <= flat[l].side.rel
  BY <1>16, <1>17
<1>. QED  BY <1>9, <1>18 DEF flat

\* Every end of a relationship is an entity, or its name in other case.
EndsFixable(s) ==
    \A name \in Ends(s) :
        \E i \in DOMAIN s.entities : SameIgnoringCase(s.entities[i].name, name)

LEMMA MissingEntitiesMended ==
    ASSUME NEW s \in Schema
    PROVE  /\ Mended(s, MissingEntities(s))
           /\ AllFixable(MissingEntities(s)) <=> EndsFixable(s)
<1>. DEFINE Q(name) == {i \in 1..Len(s.entities) : SameIgnoringCase(s.entities[i].name, name)}
            similar(name) == IF Q(name) # {} THEN Min(Q(name)) ELSE 0
            error(i, name) ==
                Error("RELATIONSHIP_MISSING_ENTITY", name, NoName, Describe(s.rels[i]))
            from(i) == [s.rels[i] EXCEPT !.from = s.entities[similar(s.rels[i].from)].name]
            to(i) == [s.rels[i] EXCEPT !.to = s.entities[similar(s.rels[i].to)].name]
            ofFrom(i) == IF similar(s.rels[i].from) = 0 THEN error(i, s.rels[i].from)
                         ELSE FixedBy(error(i, s.rels[i].from), [s EXCEPT !.rels[i] = from(i)])
            ofTo(i) == IF similar(s.rels[i].to) = 0 THEN error(i, s.rels[i].to)
                       ELSE FixedBy(error(i, s.rels[i].to), [s EXCEPT !.rels[i] = to(i)])
            a(i) == IF s.rels[i].from \notin EntityNames(s) THEN <<ofFrom(i)>> ELSE <<>>
            b(i) == IF s.rels[i].to \notin EntityNames(s) THEN <<ofTo(i)>> ELSE <<>>
            rows == [i \in DOMAIN s.rels |-> a(i) \o b(i)]
            E == {ofFrom(i) : i \in DOMAIN s.rels} \cup {ofTo(i) : i \in DOMAIN s.rels}
            n == Len(s.rels)
            found == MissingEntities(s)
<1>1. found = FlattenSeq(rows)
  BY DEF MissingEntities, SelectInSeq
<1>2. ASSUME NEW name
      PROVE  /\ similar(name) # 0 => similar(name) \in DOMAIN s.entities
             /\ similar(name) # 0 <=> Q(name) # {}
  <2>1. Q(name) \in SUBSET (DOMAIN s.entities) /\ 0 \notin Q(name)
    BY SchemaParts
  <2>2. Q(name) # {} => Min(Q(name)) \in Q(name)
    <3>1. Q(name) \subseteq Nat
      OBVIOUS
    <3>. HIDE DEF Q
    <3>. QED  BY <3>1, FirstOf
  <2>. HIDE DEF Q
  <2>. QED  BY <2>1, <2>2
<1>3. ASSUME NEW name
      PROVE  Q(name) # {} <=> \E i \in DOMAIN s.entities : SameIgnoringCase(s.entities[i].name, name)
  BY SchemaParts
<1>. HIDE DEF similar, Q
<1>4. ASSUME NEW i \in DOMAIN s.rels, s.rels[i].from \notin EntityNames(s)
      PROVE  /\ ofFrom(i).fixable => \E t : ofFrom(i).fixed = {t} /\ Mends(s, t)
             /\ ofFrom(i).fixable <=> Q(s.rels[i].from) # {}
  <2>1. CASE similar(s.rels[i].from) = 0
    <3>1. ofFrom(i) = error(i, s.rels[i].from)
      BY <2>1
    <3>2. ~ofFrom(i).fixable
      BY <3>1 DEF Error, Finding
    <3>. QED  BY <1>2, <2>1, <3>2
  <2>2. CASE similar(s.rels[i].from) # 0
    <3>. DEFINE t == [s EXCEPT !.rels[i] = from(i)]
    <3>1. ofFrom(i) = FixedBy(error(i, s.rels[i].from), t)
      BY <2>2
    <3>2. ofFrom(i).fixable
      BY <3>1 DEF FixedBy, Error, Finding
    <3>3. ofFrom(i).fixed = {t}
      BY <3>1, FixedParts
    <3>4. s.entities[similar(s.rels[i].from)].name \in EntityNames(s)
      BY <1>2, <2>2 DEF EntityNames
    <3>5. MovesEnd(s, t)
      BY <1>4, <3>4 DEF MovesEnd, WithRel
    <3>. HIDE DEF t, ofFrom
    <3>6. \E u : ofFrom(i).fixed = {u} /\ Mends(s, u)
      BY <3>3, <3>5 DEF Mends
    <3>. QED  BY <1>2, <2>2, <3>2, <3>6
  <2>. QED  BY <2>1, <2>2
<1>5. ASSUME NEW i \in DOMAIN s.rels, s.rels[i].to \notin EntityNames(s)
      PROVE  /\ ofTo(i).fixable => \E t : ofTo(i).fixed = {t} /\ Mends(s, t)
             /\ ofTo(i).fixable <=> Q(s.rels[i].to) # {}
  <2>1. CASE similar(s.rels[i].to) = 0
    <3>1. ofTo(i) = error(i, s.rels[i].to)
      BY <2>1
    <3>2. ~ofTo(i).fixable
      BY <3>1 DEF Error, Finding
    <3>. QED  BY <1>2, <2>1, <3>2
  <2>2. CASE similar(s.rels[i].to) # 0
    <3>. DEFINE t == [s EXCEPT !.rels[i] = to(i)]
    <3>1. ofTo(i) = FixedBy(error(i, s.rels[i].to), t)
      BY <2>2
    <3>2. ofTo(i).fixable
      BY <3>1 DEF FixedBy, Error, Finding
    <3>3. ofTo(i).fixed = {t}
      BY <3>1, FixedParts
    <3>4. s.entities[similar(s.rels[i].to)].name \in EntityNames(s)
      BY <1>2, <2>2 DEF EntityNames
    <3>5. MovesEnd(s, t)
      BY <1>5, <3>4 DEF MovesEnd, WithRel
    <3>. HIDE DEF t, ofTo
    <3>6. \E u : ofTo(i).fixed = {u} /\ Mends(s, u)
      BY <3>3, <3>5 DEF Mends
    <3>. QED  BY <1>2, <2>2, <3>2, <3>6
  <2>. QED  BY <2>1, <2>2
<1>. HIDE DEF ofFrom, ofTo
<1>6. ASSUME NEW i \in DOMAIN s.rels
      PROVE  /\ rows[i] \in Seq(E)
             /\ Range(rows[i]) = (IF s.rels[i].from \notin EntityNames(s) THEN {ofFrom(i)} ELSE {})
                    \cup (IF s.rels[i].to \notin EntityNames(s) THEN {ofTo(i)} ELSE {})
  <2>1. ofFrom(i) \in E /\ ofTo(i) \in E
    OBVIOUS
  <2>. HIDE DEF E
  <2>2. \A e \in E : <<e>> \in Seq(E) /\ Range(<<e>>) = {e}
    BY DEF Range
  <2>3. <<>> \in Seq(E) /\ Range(<<>>) = {}
    BY DEF Range
  <2>4. a(i) \in Seq(E) /\ Range(a(i)) = (IF s.rels[i].from \notin EntityNames(s) THEN {ofFrom(i)} ELSE {})
    BY <2>1, <2>2, <2>3
  <2>5. b(i) \in Seq(E) /\ Range(b(i)) = (IF s.rels[i].to \notin EntityNames(s) THEN {ofTo(i)} ELSE {})
    BY <2>1, <2>2, <2>3
  <2>6. rows[i] = a(i) \o b(i)
    OBVIOUS
  <2>. HIDE DEF a, b, rows
  <2>7. rows[i] \in Seq(E) /\ Range(rows[i]) = Range(a(i)) \cup Range(b(i))
    BY <2>4, <2>5, <2>6, ConcatRange
  <2>. QED  BY <2>4, <2>5, <2>7
<1>. HIDE DEF a, b, E
<1>7. n \in Nat /\ DOMAIN s.rels = 1..n
  BY SchemaParts
<1>8. rows \in [1..n -> Seq(E)]
  <2>1. rows = [i \in 1..n |-> rows[i]]
    BY <1>7
  <2>. HIDE DEF rows, n
  <2>. QED  BY <1>6, <1>7, <2>1
<1>. HIDE DEF rows, n
<1>9. Range(found) = UNION {Range(rows[i]) : i \in 1..n}
  BY <1>1, <1>7, <1>8, FlattenRange
<1>. HIDE DEF found
<1>10. \A f \in Range(found) : \E i \in DOMAIN s.rels :
            \/ s.rels[i].from \notin EntityNames(s) /\ f = ofFrom(i)
            \/ s.rels[i].to \notin EntityNames(s) /\ f = ofTo(i)
  <2>. TAKE f \in Range(found)
  <2>1. PICK i \in 1..n : f \in Range(rows[i])
    BY <1>9
  <2>2. i \in DOMAIN s.rels
    BY <1>7
  <2>3. Range(rows[i]) = (IF s.rels[i].from \notin EntityNames(s) THEN {ofFrom(i)} ELSE {})
                    \cup (IF s.rels[i].to \notin EntityNames(s) THEN {ofTo(i)} ELSE {})
    BY <1>6, <2>2
  <2>4. \/ s.rels[i].from \notin EntityNames(s) /\ f = ofFrom(i)
        \/ s.rels[i].to \notin EntityNames(s) /\ f = ofTo(i)
    BY <2>1, <2>3
  <2>. QED  BY <2>2, <2>4
<1>11. ASSUME NEW i \in DOMAIN s.rels
       PROVE  /\ s.rels[i].from \notin EntityNames(s) => ofFrom(i) \in Range(found)
              /\ s.rels[i].to \notin EntityNames(s) => ofTo(i) \in Range(found)
  <2>1. Range(rows[i]) \subseteq Range(found)
    BY <1>7, <1>9
  <2>. QED  BY <1>6, <2>1
<1>12. Mended(s, found)
  BY <1>4, <1>5, <1>10 DEF Mended
<1>13. AllFixable(found) <=> \A i \in DOMAIN s.rels :
            /\ s.rels[i].from \notin EntityNames(s) => Q(s.rels[i].from) # {}
            /\ s.rels[i].to \notin EntityNames(s) => Q(s.rels[i].to) # {}
  BY <1>4, <1>5, <1>10, <1>11 DEF AllFixable
<1>14. \A name \in EntityNames(s) : Q(name) # {}
  BY <1>3 DEF EntityNames, SameIgnoringCase
<1>15. Ends(s) = UNION {{s.rels[i].from, s.rels[i].to} : i \in DOMAIN s.rels}
  BY DEF Ends, Range
<1>16. AllFixable(found) <=> \A name \in Ends(s) : Q(name) # {}
  BY <1>13, <1>14, <1>15
<1>17. AllFixable(found) <=> EndsFixable(s)
  BY <1>3, <1>16 DEF EndsFixable
<1>. QED  BY <1>12, <1>17 DEF found

LEMMA WithoutFieldDrops ==
    ASSUME NEW s \in Schema, NEW p \in FieldPlaces(s)
    PROVE  Mends(s, WithoutField(s, p))
<1>. DEFINE e == s.entities[p[1]]
            new == RemoveAt(e.fields, p[2])
<1>1. p[1] \in DOMAIN s.entities /\ p[2] \in DOMAIN e.fields /\ e \in EntityRecord
  BY PlaceParts
<1>2. e.fields \in Seq(FieldRecord)
  BY <1>1, EntityParts
<1>3. WithoutField(s, p) = WithEntity(s, p[1], [e EXCEPT !.fields = new])
  BY DEF WithoutField, WithEntity
<1>4. new \in Seq(FieldRecord) /\ Range(new) \subseteq Range(e.fields)
  BY <1>1, <1>2, RemoveAtType DEF Range
<1>5. Len(new) < Len(e.fields)
  BY <1>1, <1>2, RemoveAtShorter
<1>. HIDE DEF new
<1>. QED  BY <1>1, <1>3, <1>4, <1>5 DEF Mends, DropsFields

LEMMA ForeignKeyFieldDuplicatesMended ==
    ASSUME NEW s \in Schema, NEW props
    PROVE  /\ Mended(s, ForeignKeyFieldDuplicates(s, props))
           /\ AllFixable(ForeignKeyFieldDuplicates(s, props))
<1>. DEFINE generated(i, j) == Claimant(props, s.entities[i].name, s.entities[i].fields[j].name)
            parts == [i \in DOMAIN s.entities |->
                        {j \in DOMAIN s.entities[i].fields :
                            generated(i, j) # 0 /\ props[generated(i, j)].foreignKey = TRUE}]
            places == Nested(parts)
            found == ForeignKeyFieldDuplicates(s, props)
            entity(p) == s.entities[p[1]].name
            prop(p) == props[Claimant(props, entity(p), Field(s, p).name)]
<1>1. places \in Seq(FieldPlaces(s))
  BY FieldPlacesType
<1>2. found = [k \in DOMAIN places |->
        FixedBy(Error("FOREIGN_KEY_FIELD_DUPLICATE", entity(places[k]), Field(s, places[k]).name,
                      Describe(s.rels[prop(places[k]).side.rel])),
                WithoutField(s, places[k]))]
  BY DEF ForeignKeyFieldDuplicates, CollidingFields, Each, FieldsWhere
<1>. HIDE DEF places, found, prop
<1>3. ASSUME NEW k \in DOMAIN places
      PROVE  found[k].fixable /\ \E t : found[k].fixed = {t} /\ Mends(s, t)
  <2>1. Mends(s, WithoutField(s, places[k]))
    BY <1>1, WithoutFieldDrops
  <2>2. found[k].fixable
    BY <1>2 DEF FixedBy, Error, Finding
  <2>3. found[k].fixed = {WithoutField(s, places[k])}
    BY <1>2, FixedParts
  <2>. QED  BY <2>1, <2>2, <2>3
<1>4. found = [k \in DOMAIN places |-> found[k]]
  BY <1>2
<1>5. Mended(s, found) /\ AllFixable(found)
  BY <1>3, <1>4, EachMended
<1>. QED  BY <1>5 DEF found

LEMMA FieldRelationshipCollisionsMended ==
    ASSUME NEW s \in Schema, NEW props, props = Generated(s.rels)
    PROVE  /\ Mended(s, FieldRelationshipCollisions(s, props))
           /\ AllFixable(FieldRelationshipCollisions(s, props))
<1>. DEFINE generated(i, j) == Claimant(props, s.entities[i].name, s.entities[i].fields[j].name)
            parts == [i \in DOMAIN s.entities |->
                        {j \in DOMAIN s.entities[i].fields :
                            generated(i, j) # 0 /\ props[generated(i, j)].foreignKey = FALSE}]
            places == Nested(parts)
            found == FieldRelationshipCollisions(s, props)
            entity(p) == s.entities[p[1]].name
            prop(p) == props[Claimant(props, entity(p), Field(s, p).name)]
            suffix(p) == IF Field(s, p).type = "text" THEN "_text" ELSE "_value"
            renamed(p) == FreeName(Append(Field(s, p).name, suffix(p)),
                                   FieldNames(s, p[1]) \cup NamesOn(props, entity(p)))
<1>1. Range(places) = {p \in FieldPlaces(s) : p[2] \in parts[p[1]]}
  BY FieldPlacesAre
<1>2. found = [k \in DOMAIN places |->
        FixedBy(Error("FIELD_RELATIONSHIP_COLLISION", entity(places[k]), Field(s, places[k]).name,
                      Describe(s.rels[prop(places[k]).side.rel])),
                RenamedField(s, places[k], renamed(places[k])))]
  BY DEF FieldRelationshipCollisions, CollidingFields, Each, FieldsWhere
<1>3. ASSUME NEW p \in FieldPlaces(s), p[2] \in parts[p[1]]
      PROVE  Mends(s, RenamedField(s, p, renamed(p)))
  <2>1. p[1] \in DOMAIN s.entities /\ p[2] \in DOMAIN s.entities[p[1]].fields
        /\ Field(s, p) = s.entities[p[1]].fields[p[2]]
    BY PlaceParts
  <2>2. Claimant(props, entity(p), Field(s, p).name) # 0
    BY <1>3, <2>1
  <2>3. Field(s, p).name \in GivenMembers(s, entity(p)) /\ NamesOn(props, entity(p)) = GivenMembers(s, entity(p))
    BY <2>2, NamesOnIs
  <2>4. suffix(p) \in {"_text", "_value"}
    OBVIOUS
  <2>5. renamed(p) = FreeName(Append(Field(s, p).name, suffix(p)),
                              FieldNames(s, p[1]) \cup GivenMembers(s, entity(p)))
    BY <2>3
  <2>. HIDE DEF suffix, renamed
  <2>6. RenamesField(s, RenamedField(s, p, renamed(p)))
    BY <2>3, <2>4, <2>5 DEF RenamesField
  <2>. QED  BY <2>6 DEF Mends
<1>. HIDE DEF places, found, prop, renamed, parts
<1>4. ASSUME NEW k \in DOMAIN places
      PROVE  found[k].fixable /\ \E t : found[k].fixed = {t} /\ Mends(s, t)
  <2>1. places[k] \in FieldPlaces(s) /\ places[k][2] \in parts[places[k][1]]
    BY <1>1 DEF Range
  <2>2. Mends(s, RenamedField(s, places[k], renamed(places[k])))
    BY <1>3, <2>1
  <2>3. found[k].fixable
    BY <1>2 DEF FixedBy, Error, Finding
  <2>4. found[k].fixed = {RenamedField(s, places[k], renamed(places[k]))}
    BY <1>2, FixedParts
  <2>. QED  BY <2>2, <2>3, <2>4
<1>5. found = [k \in DOMAIN places |-> found[k]]
  BY <1>2
<1>6. Mended(s, found) /\ AllFixable(found)
  BY <1>4, <1>5, EachMended
<1>. QED  BY <1>6 DEF found

LEMMA CamelCaseLength ==
    ASSUME NEW name \in Name
    PROVE  Len(CamelCase(name)) = Len(name) /\ Len(PascalCase(name)) = Len(name)
<1>1. name \in Seq(Token) /\ Len(name) \in Nat /\ DOMAIN name = 1..Len(name)
  BY DEF Name
<1>2. CamelCase(name) \in Seq(Token) /\ PascalCase(name) \in Seq(Token)
  BY CamelCaseType, PascalCaseType DEF Name
<1>3. DOMAIN CamelCase(name) = DOMAIN name /\ DOMAIN PascalCase(name) = DOMAIN name
  BY DEF CamelCase, PascalCase
<1>. DEFINE c == CamelCase(name)
            p == PascalCase(name)
<1>4. c \in Seq(Token) /\ p \in Seq(Token) /\ DOMAIN c = 1..Len(name) /\ DOMAIN p = 1..Len(name)
  BY <1>1, <1>2, <1>3
<1>. HIDE DEF c, p
<1>5. Len(c) \in Nat /\ DOMAIN c = 1..Len(c) /\ Len(p) \in Nat /\ DOMAIN p = 1..Len(p)
  BY <1>4
<1>6. Len(c) = Len(name) /\ Len(p) = Len(name)
  BY <1>1, <1>4, <1>5
<1>. QED  BY <1>6 DEF c, p

LEMMA FreeNameLength ==
    ASSUME NEW base \in Name, NEW taken
    PROVE  /\ Len(FreeName(base, taken)) >= Len(base) /\ Len(base) \in Nat
           /\ Len(FreeName(base, taken)) \in Nat
<1>. DEFINE free == {n \in DOMAIN Numeral : Append(base, Numeral[n]) \notin taken}
<1>1. Len(base) \in Nat /\ base \in Seq(Token)
  BY DEF Name
<1>2. CASE base \notin taken \/ free = {}
  <2>1. FreeName(base, taken) = base
    BY <1>2 DEF FreeName
  <2>. QED  BY <1>1, <2>1
<1>3. CASE ~(base \notin taken \/ free = {})
  <2>1. FreeName(base, taken) = Append(base, Numeral[Min(free)])
    BY <1>3 DEF FreeName
  <2>2. free \subseteq Nat
    BY NamingAssumption
  <2>3. Min(free) \in free
    BY <1>3, <2>2, FirstOf
  <2>4. Numeral[Min(free)] \in Token
    BY <2>3, NamingAssumption
  <2>. HIDE DEF free
  <2>5. Len(Append(base, Numeral[Min(free)])) = Len(base) + 1
    BY <1>1, <2>4
  <2>. QED  BY <1>1, <2>1, <2>5
<1>. QED  BY <1>2, <1>3

\* A relationship that generates a side for its other end is not one-way.
LEMMA OtherSide ==
    ASSUME NEW s \in Schema, NEW d \in GeneratingSides(s)
    PROVE  /\ d \in SideRecord(s)
           /\ ~d.isFrom /\ s.rels[d.rel].type = "ManyToOne" => s.rels[d.rel].bi # "no"
<1>1. d \in Range(Sides(s.rels))
  BY DEF GeneratingSides
<1>2. d \in SideRecord(s)
  BY <1>1, SidesAre
<1>3. PICK k \in DOMAIN s.rels :
        \E j \in DOMAIN SidesOf(k, s.rels[k], InverseOf(s.rels, s.rels[k])) :
            d = SidesOf(k, s.rels[k], InverseOf(s.rels, s.rels[k]))[j]
  BY <1>1, SidesAre
<1>. DEFINE row == SidesOf(k, s.rels[k], InverseOf(s.rels, s.rels[k]))
<1>4. PICK j \in DOMAIN row : d = row[j]
  BY <1>3
<1>5. row[j].rel = k /\ (row[j].isFrom <=> j = 1) /\ DOMAIN row \subseteq 1..2
  BY SidesOfShape
<1>6. d.rel = k /\ (d.isFrom <=> j = 1) /\ j \in 1..2
  BY <1>4, <1>5
<1>7. ASSUME s.rels[k].type = "ManyToOne", s.rels[k].bi = "no" PROVE DOMAIN row = {1}
  BY <1>7 DEF SidesOf
<1>8. ~d.isFrom /\ s.rels[k].type = "ManyToOne" => s.rels[k].bi # "no"
  BY <1>4, <1>6, <1>7
<1>. QED  BY <1>2, <1>6, <1>8

LEMMA RelationshipPropertyClashesMended ==
    ASSUME NEW s \in Schema, NEW props, props = Generated(s.rels)
    PROVE  /\ Mended(s, RelationshipPropertyClashes(s, props))
           /\ \A f \in Range(RelationshipPropertyClashes(s, props)) :
                f.rule = "RELATIONSHIP_PROPERTY_CLASH"
<1>. DEFINE c(k) == Claimant(props, props[k].entity, props[k].name)
            first(k) == props[c(k)]
            P == {k \in Clashes(props) : first(k).side.rel # props[k].side.rel}
            places == InOrder(P)
            found == RelationshipPropertyClashes(s, props)
            r(k) == props[k].side.rel
            error(k) == Error("RELATIONSHIP_PROPERTY_CLASH", props[k].entity, props[k].name,
                              Describe(s.rels[r(k)]))
            toName(k) == FreeName(CamelCase(props[k].side.ref) \o PascalCase(s.rels[r(k)].to),
                                  NamesOn(props, props[k].entity))
            named(k) == [s EXCEPT !.rels[r(k)].toName = toName(k)]
            oneWay(k) == [s EXCEPT !.rels[r(k)].bi = "no"]
            result(k) == CASE props[k].side.isFrom -> FixedBy(error(k), named(k))
                           [] ~props[k].side.isFrom /\ s.rels[r(k)].type = "ManyToOne" ->
                                FixedBy(error(k), oneWay(k))
                           [] OTHER -> error(k)
<1>1. /\ props \in Seq(PropertyRecord(s))
      /\ \A k \in DOMAIN props :
                /\ props[k].side \in GeneratingSides(s)
                /\ props[k].entity = props[k].side.entity
                /\ props[k].name \in GivenNames(props[k].side)
  BY GeneratedFacts
<1>2. found = [k \in DOMAIN places |-> result(places[k])]
  BY DEF RelationshipPropertyClashes, Each
<1>3. DOMAIN props = 1..Len(props) /\ Len(props) \in Nat
  BY <1>1
<1>4. places \in Seq(P) /\ P \subseteq DOMAIN props
  <2>1. P \in SUBSET (1..Len(props))
    BY <1>3 DEF Clashes
  <2>. HIDE DEF P
  <2>. QED  BY <1>3, <2>1, InOrderSeq
<1>5. ASSUME NEW k \in P
      PROVE  /\ Clash(s, props[k].side, first(k).side) /\ props[k].side \in SideRecord(s)
             /\ first(k).side \in GeneratingSides(s) /\ props[k].side \in GeneratingSides(s)
  <2>1. k \in DOMAIN props /\ c(k) # k /\ first(k).side.rel # props[k].side.rel
    BY DEF Clashes
  <2>2. c(k) \in DOMAIN props /\ first(k).entity = props[k].entity /\ first(k).name = props[k].name
    BY <1>1, <2>1, ClaimantIs
  <2>3. c(k) < k
    <3>. DEFINE Q == {i \in 1..Len(props) : props[i].entity = props[k].entity /\ props[i].name = props[k].name}
    <3>1. k \in Q /\ Q \subseteq Nat
      BY <1>3, <2>1
    <3>2. c(k) = Min(Q)
      BY <3>1 DEF Claimant, SelectInSeq
    <3>. HIDE DEF Q, c
    <3>3. \E i \in Q : \A j \in Q : i <= j
      BY <3>1, LeastOf
    <3>4. c(k) \in Q /\ \A j \in Q : c(k) <= j
      BY <3>2, <3>3 DEF Min
    <3>5. c(k) <= k /\ c(k) \in Nat /\ k \in Nat
      BY <3>1, <3>4
    <3>. QED  BY <2>1, <3>5
  <2>4. props[c(k)].side.rel <= props[k].side.rel
    BY <2>1, <2>2, <2>3, GeneratedSorted
  <2>5. props[c(k)].side \in GeneratingSides(s) /\ props[k].side \in GeneratingSides(s)
        /\ props[c(k)].side \in SideRecord(s) /\ props[k].side \in SideRecord(s)
    BY <1>1, <2>1, <2>2, OtherSide
  <2>6. props[c(k)].side.rel \in Nat /\ props[k].side.rel \in Nat
    BY <2>5, SchemaParts DEF SideRecord
  <2>7. props[c(k)].side.rel < props[k].side.rel
    BY <2>1, <2>4, <2>6
  <2>8. /\ props[c(k)].side.entity = props[k].side.entity
        /\ props[k].name \in GivenNames(props[k].side) \cap GivenNames(props[c(k)].side)
    BY <1>1, <2>1, <2>2
  <2>. HIDE DEF c
  <2>. QED  BY <2>5, <2>7, <2>8 DEF Clash
<1>. HIDE DEF places, found, P
<1>6. ASSUME NEW k \in P
      PROVE  /\ result(k).fixable => \E t : result(k).fixed = {t} /\ Mends(s, t)
             /\ result(k).rule = "RELATIONSHIP_PROPERTY_CLASH"
  <2>1. k \in DOMAIN props /\ props[k].side \in SideRecord(s) /\ Clash(s, props[k].side, first(k).side)
        /\ props[k].side \in GeneratingSides(s) /\ first(k).side \in GeneratingSides(s)
    BY <1>4, <1>5
  <2>2. props[k].side.ref \in Name /\ r(k) \in DOMAIN s.rels
    BY <2>1 DEF SideRecord
  <2>3. s.rels[r(k)] \in RelRecord /\ s.rels[r(k)].to \in Name
    BY <2>2, SchemaParts, RelParts
  <2>4. toName(k) \in Name /\ Len(toName(k)) >= Len(props[k].side.ref) + Len(s.rels[r(k)].to)
    <3>. DEFINE a == CamelCase(props[k].side.ref)
                b == PascalCase(s.rels[r(k)].to)
                base == a \o b
    <3>1. a \in Name /\ b \in Name
      BY <2>2, <2>3, CamelCaseType, PascalCaseType
    <3>2. Len(a) = Len(props[k].side.ref) /\ Len(b) = Len(s.rels[r(k)].to)
      BY <2>2, <2>3, CamelCaseLength
    <3>. HIDE DEF a, b
    <3>3. a \o b \in Name /\ Len(a \o b) = Len(a) + Len(b)
      BY <3>1 DEF Name
    <3>. HIDE DEF base
    <3>4. base \in Name /\ Len(base) = Len(props[k].side.ref) + Len(s.rels[r(k)].to)
      BY <3>2, <3>3 DEF base
    <3>5. toName(k) = FreeName(base, NamesOn(props, props[k].entity))
      BY DEF base, a, b
    <3>6. FreeName(base, NamesOn(props, props[k].entity)) \in Name
          /\ Len(FreeName(base, NamesOn(props, props[k].entity))) >= Len(base)
      BY <3>4, FreeNameType, FreeNameLength
    <3>. HIDE DEF toName
    <3>. QED  BY <3>4, <3>5, <3>6
  <2>. HIDE DEF toName, first
  <2>5. CASE props[k].side.isFrom
    <3>1. result(k) = FixedBy(error(k), named(k))
      BY <2>5
    <3>2. named(k) = WithRel(s, r(k), [s.rels[r(k)] EXCEPT !.toName = toName(k)])
      BY DEF WithRel
    <3>. HIDE DEF result, named
    <3>3. NamesRel(s, named(k))
      BY <2>1, <2>4, <2>5, <3>2 DEF NamesRel
    <3>4. result(k).fixable /\ result(k).rule = "RELATIONSHIP_PROPERTY_CLASH"
      BY <3>1 DEF FixedBy, Error, Finding
    <3>5. result(k).fixed = {named(k)}
      BY <3>1, FixedParts
    <3>. QED  BY <3>3, <3>4, <3>5 DEF Mends
  <2>6. CASE ~props[k].side.isFrom /\ s.rels[r(k)].type = "ManyToOne"
    <3>1. result(k) = FixedBy(error(k), oneWay(k))
      BY <2>6
    <3>2. oneWay(k) = WithRel(s, r(k), [s.rels[r(k)] EXCEPT !.bi = "no"])
      BY DEF WithRel
    <3>. HIDE DEF result, oneWay
    <3>3. s.rels[r(k)].bi # "no"
      BY <2>1, <2>6, OtherSide
    <3>4. StopsInverse(s, oneWay(k))
      BY <2>1, <3>2, <3>3 DEF StopsInverse
    <3>5. result(k).fixable /\ result(k).rule = "RELATIONSHIP_PROPERTY_CLASH"
      BY <3>1 DEF FixedBy, Error, Finding
    <3>6. result(k).fixed = {oneWay(k)}
      BY <3>1, FixedParts
    <3>. QED  BY <3>4, <3>5, <3>6 DEF Mends
  <2>7. CASE ~props[k].side.isFrom /\ s.rels[r(k)].type # "ManyToOne"
    <3>1. result(k) = error(k)
      BY <2>7
    <3>. HIDE DEF result
    <3>2. ~result(k).fixable /\ result(k).rule = "RELATIONSHIP_PROPERTY_CLASH"
      BY <3>1 DEF Error, Finding
    <3>. QED  BY <3>2
  <2>. QED  BY <2>5, <2>6, <2>7
<1>. HIDE DEF result
<1>7. \A f \in Range(found) : \E k \in P : f = result(k)
  BY <1>2, <1>4 DEF Range
<1>8. /\ Mended(s, found)
      /\ \A f \in Range(found) : f.rule = "RELATIONSHIP_PROPERTY_CLASH"
  BY <1>6, <1>7 DEF Mended
<1>. QED  BY <1>8 DEF found

LEMMA UnknownIndexFieldsMended ==
    ASSUME NEW s \in Schema, NEW props
    PROVE  /\ Mended(s, UnknownIndexFields(s, props))
           /\ AllFixable(UnknownIndexFields(s, props))
<1>. DEFINE named(i, c) == s.entities[i].indexes[c].fields
            unknown(i, c) ==
                {k \in DOMAIN named(i, c) : named(i, c)[k] \notin Columns(s, props, i)}
            parts == [i \in DOMAIN s.entities |->
                {c \in DOMAIN s.entities[i].indexes : named(i, c) = <<>> \/ unknown(i, c) # {}}]
            places == Nested(parts)
            found == UnknownIndexFields(s, props)
            missing(p) ==
                IF unknown(p[1], p[2]) = {} THEN NoName
                ELSE named(p[1], p[2])[Min(unknown(p[1], p[2]))]
            error(p) == Error("INDEX_UNKNOWN_FIELD", s.entities[p[1]].name, missing(p), <<>>)
            known(p) ==
                AtPositions(named(p[1], p[2]), DOMAIN named(p[1], p[2]) \ unknown(p[1], p[2]))
            fixed(p) ==
                IF known(p) = <<>>
                THEN [s EXCEPT !.entities[p[1]].indexes = RemoveAt(s.entities[p[1]].indexes, p[2])]
                ELSE [s EXCEPT !.entities[p[1]].indexes[p[2]].fields = known(p)]
<1>1. Range(places) = {p \in IndexPlaces(s) : p[2] \in parts[p[1]]}
  BY IndexPlacesAre
<1>2. found = [k \in DOMAIN places |-> FixedBy(error(places[k]), fixed(places[k]))]
  BY DEF UnknownIndexFields, Each
<1>3. ASSUME NEW p \in IndexPlaces(s), p[2] \in parts[p[1]] PROVE Mends(s, fixed(p))
  <2>. DEFINE e == s.entities[p[1]]
              index == e.indexes[p[2]]
              columns == named(p[1], p[2])
              bad == unknown(p[1], p[2])
  <2>1. p[1] \in DOMAIN s.entities /\ p[2] \in DOMAIN e.indexes
    BY DEF IndexPlaces
  <2>2. columns \in Seq(Name) /\ index.fields = columns
    <3>1. e \in EntityRecord
      BY <2>1, SchemaParts
    <3>2. e.indexes[p[2]] \in IndexRecord
      BY <2>1, <3>1, EntityParts
    <3>. QED  BY <3>2 DEF IndexRecord
  <2>3. CASE known(p) = <<>>
    <3>1. fixed(p) = WithEntity(s, p[1], [e EXCEPT !.indexes = RemoveAt(e.indexes, p[2])])
      BY <2>3 DEF WithEntity
    <3>. HIDE DEF fixed
    <3>. QED  BY <3>1 DEF Mends, DropsIndex
  <2>4. CASE known(p) # <<>>
    <3>1. fixed(p) = WithEntity(s, p[1], [e EXCEPT !.indexes[p[2]] = [index EXCEPT !.fields = known(p)]])
      BY <2>4 DEF WithEntity
    <3>2. columns # <<>>
      <4>. HIDE DEF columns
      <4>1. columns = <<>> => AtPositions(columns, DOMAIN columns \ bad) = <<>>
        <5>. SUFFICES ASSUME columns = <<>> PROVE AtPositions(columns, DOMAIN columns \ bad) = <<>>
          OBVIOUS
        <5>1. DOMAIN columns \ bad = {}
          OBVIOUS
        <5>2. DOMAIN AtPositions(columns, {}) = {}
          BY FS_EmptySet DEF AtPositions, InOrder
        <5>3. AtPositions(columns, {}) \in Seq(Name)
          BY <2>2, AtPositionsType
        <5>. DEFINE a == AtPositions(columns, {})
        <5>. HIDE DEF a
        <5>4. a = <<>>
          BY <5>2, <5>3 DEF a
        <5>. QED  BY <5>1, <5>4 DEF a
      <4>. QED  BY <2>4, <4>1 DEF columns
    <3>3. bad # {} /\ bad \subseteq DOMAIN columns
      BY <1>3, <2>1, <3>2
    <3>. DEFINE P == DOMAIN columns \ bad
    <3>4. P \subseteq DOMAIN columns /\ P # DOMAIN columns
      BY <3>3
    <3>5. known(p) = AtPositions(columns, P)
      OBVIOUS
    <3>. HIDE DEF P, columns, fixed, known
    <3>6. known(p) \in Seq(Name) /\ Len(known(p)) < Len(columns)
      BY <2>2, <3>4, <3>5, AtPositionsType, AtPositionsShorter
    <3>7. DropsColumns(s, fixed(p))
      BY <2>2, <3>1, <3>6 DEF DropsColumns
    <3>. QED  BY <3>7 DEF Mends
  <2>. QED  BY <2>3, <2>4
<1>. HIDE DEF places, found, fixed, missing, parts
<1>4. ASSUME NEW k \in DOMAIN places
      PROVE  found[k].fixable /\ \E t : found[k].fixed = {t} /\ Mends(s, t)
  <2>1. places[k] \in IndexPlaces(s) /\ places[k][2] \in parts[places[k][1]]
    BY <1>1 DEF Range
  <2>2. found[k].fixable
    BY <1>2, FixableParts
  <2>. QED  BY <1>2, <1>3, <2>1, <2>2, FixedParts
<1>5. found = [k \in DOMAIN places |-> found[k]]
  BY <1>2
<1>6. Mended(s, found) /\ AllFixable(found)
  BY <1>4, <1>5, EachMended
<1>. QED  BY <1>6 DEF found

LEMMA RequiredRelationshipCyclesMended ==
    ASSUME NEW s \in Schema
    PROVE  Mended(s, RequiredRelationshipCycles(s)) /\ AllFixable(RequiredRelationshipCycles(s))
<1>. DEFINE edges == RequiredEdges(s)
            child(i) == edges[i][1]
            parent(i) == edges[i][2]
            cycleOf(i) ==
                {child(i)} \cup {n \in Reach(edges, child(i)) : child(i) \in Reach(edges, n)}
            onCycle == {i \in DOMAIN edges :
                            child(i) \in Reach(edges, parent(i)) \cup {parent(i)}}
            P == {i \in onCycle : \A j \in onCycle : j < i => cycleOf(j) # cycleOf(i)}
            places == InOrder(P)
            found == RequiredRelationshipCycles(s)
            fixed(i) == [s EXCEPT !.rels[i].nullable = TRUE]
<1>1. P \subseteq DOMAIN RequiredEdges(s)
  <2>2. P \subseteq onCycle /\ onCycle \subseteq DOMAIN edges
    OBVIOUS
  <2>. QED  BY <2>2
<1>2. found = [k \in DOMAIN places |->
        FixedBy(Error("REQUIRED_RELATIONSHIP_CYCLE", edges[places[k]][1], NoName,
                      Describe(s.rels[places[k]])), fixed(places[k]))]
  BY DEF RequiredRelationshipCycles, Each
<1>. HIDE DEF P, found, edges
<1>3. ASSUME NEW i \in P PROVE i \in DOMAIN s.rels /\ ~s.rels[i].nullable
  BY <1>1 DEF RequiredEdges
<1>4. places \in Seq(P)
  BY <1>3, SchemaParts, InOrderSeq
<1>5. ASSUME NEW i \in P PROVE Mends(s, fixed(i))
  BY <1>3 DEF Mends, MakesOptional, WithRel
<1>. HIDE DEF places, fixed
<1>6. ASSUME NEW k \in DOMAIN places
      PROVE  found[k].fixable /\ \E t : found[k].fixed = {t} /\ Mends(s, t)
  <2>1. places[k] \in P
    BY <1>4
  <2>2. found[k].fixable
    BY <1>2, FixableParts
  <2>. QED  BY <1>2, <1>5, <2>1, <2>2, FixedParts
<1>7. found = [k \in DOMAIN places |-> found[k]]
  BY <1>2
<1>8. Mended(s, found) /\ AllFixable(found)
  BY <1>6, <1>7, EachMended
<1>. QED  BY <1>8 DEF found

LEMMA IdFieldsMended ==
    ASSUME NEW s \in Schema
    PROVE  Mended(s, IdFields(s))
<1>. DEFINE parts == [i \in DOMAIN s.entities |->
                        {j \in DOMAIN s.entities[i].fields :
                            /\ SameIgnoringCase(s.entities[i].fields[j].name, <<"id">>)
                            /\ ~s.entities[i].fields[j].primary}]
            places == Nested(parts)
            found == IdFields(s)
<1>1. places \in Seq(FieldPlaces(s))
  BY FieldPlacesType
<1>2. found = [k \in DOMAIN places |->
        FixedBy(Warning("ID_FIELD", s.entities[places[k][1]].name,
                        Field(s, places[k]).name, <<>>),
                WithoutField(s, places[k]))]
  BY DEF IdFields, Each, FieldsWhere
<1>. HIDE DEF places, found
<1>3. ASSUME NEW k \in DOMAIN places
      PROVE  found[k].fixable /\ \E t : found[k].fixed = {t} /\ Mends(s, t)
  <2>1. Mends(s, WithoutField(s, places[k]))
    BY <1>1, WithoutFieldDrops
  <2>2. found[k].fixable
    BY <1>2, FixableParts
  <2>. QED  BY <1>2, <2>1, <2>2, FixedParts
<1>4. found = [k \in DOMAIN places |-> found[k]]
  BY <1>2
<1>5. Mended(s, found)
  BY <1>3, <1>4, EachMended
<1>. QED  BY <1>5 DEF found

LEMMA RedundantManyToManyMended ==
    ASSUME NEW s \in Schema
    PROVE  Mended(s, RedundantManyToMany(s)) /\ AllFixable(RedundantManyToMany(s))
<1>. DEFINE P == {i \in DOMAIN s.rels :
                    /\ s.rels[i].type = "ManyToMany"
                    /\ s.rels[i].from # s.rels[i].to
                    /\ JoinsOf(s, s.rels[i]) # {}}
            places == InOrder(P)
            found == RedundantManyToMany(s)
            fixed(i) == [s EXCEPT !.rels = RemoveAt(s.rels, i)]
<1>1. places \in Seq(P) /\ P \subseteq DOMAIN s.rels
  BY SchemaParts, InOrderSeq
<1>2. found = [k \in DOMAIN places |->
        FixedBy(Warning("REDUNDANT_MANY_TO_MANY", s.rels[places[k]].from, NoName,
                        Describe(s.rels[places[k]])), fixed(places[k]))]
  BY DEF RedundantManyToMany, Each
<1>. HIDE DEF P, places, found
<1>3. ASSUME NEW k \in DOMAIN places
      PROVE  found[k].fixable /\ \E t : found[k].fixed = {t} /\ Mends(s, t)
  <2>1. places[k] \in DOMAIN s.rels
    BY <1>1
  <2>2. found # <<>>
    BY <1>2
  <2>3. DropsRel(s, fixed(places[k]))
    BY <2>1, <2>2 DEF DropsRel, found
  <2>. HIDE DEF fixed
  <2>4. found[k].fixable
    BY <1>2, FixableParts
  <2>5. found[k].fixed = {fixed(places[k])}
    BY <1>2, FixedParts
  <2>. QED  BY <2>3, <2>4, <2>5 DEF Mends
<1>4. found = [k \in DOMAIN places |-> found[k]]
  BY <1>2
<1>5. Mended(s, found) /\ AllFixable(found)
  BY <1>3, <1>4, EachMended
<1>. QED  BY <1>5 DEF found

\* A pass mends, and when no pass is left every fixable finding is gone.
LEMMA FindingsMended ==
    ASSUME NEW s \in Schema
    PROVE  Mended(s, Findings(s))
<1>. DEFINE props == Generated(s.rels)
<1>1. Range(Findings(s)) = ErrorsFound(s, props) \cup Range(IdFields(s)) \cup Range(RedundantManyToMany(s))
  BY FindingsAre
<1>. DEFINE good(found) == \A f \in Range(found) : f.fixable => \E t : f.fixed = {t} /\ Mends(s, t)
<1>2. good(DuplicateEntityNames(s)) /\ good(ReservedEntityNames(s)) /\ good(DuplicateFieldNames(s))
  BY DuplicateEntityNamesMended, ReservedEntityNamesMended, DuplicateFieldNamesMended DEF Mended
<1>3. good(UnknownFieldTypes(s)) /\ good(EnumsWithoutValues(s)) /\ good(InvalidRelationshipTypes(s))
  BY UnknownFieldTypesMended, EnumsWithoutValuesMended, InvalidRelationshipTypesMended DEF Mended
<1>4. good(MissingEntities(s)) /\ good(ForeignKeyFieldDuplicates(s, props))
      /\ good(FieldRelationshipCollisions(s, props))
  BY MissingEntitiesMended, ForeignKeyFieldDuplicatesMended, FieldRelationshipCollisionsMended DEF Mended
<1>5. good(RelationshipPropertyClashes(s, props)) /\ good(UnknownIndexFields(s, props))
      /\ good(RequiredRelationshipCycles(s))
  BY RelationshipPropertyClashesMended, UnknownIndexFieldsMended, RequiredRelationshipCyclesMended DEF Mended
<1>6. good(IdFields(s)) /\ good(RedundantManyToMany(s))
  BY IdFieldsMended, RedundantManyToManyMended DEF Mended
<1>. HIDE DEF props
<1>. QED  BY <1>1, <1>2, <1>3, <1>4, <1>5, <1>6 DEF Mended, ErrorsFound

LEMMA NextFixMends ==
    ASSUME NEW s \in Schema, ~Fixed(s)
    PROVE  \E t \in Schema : Mends(s, t) /\ Findings(s)[NextFix(Findings(s))].fixed = {t}
<1>. DEFINE found == Findings(s)
            k == NextFix(found)
<1>1. Sound(s, found) /\ Mended(s, found)
  BY FindingsSound, FindingsMended
<1>. HIDE DEF found
<1>2. k \in DOMAIN found /\ found[k].fixable
  <2>. DEFINE Q == {i \in 1..Len(found) : found[i].fixable}
  <2>1. k # 0 /\ k = IF Q # {} THEN Min(Q) ELSE 0
    BY DEF Fixed, NextFix, SelectInSeq, found
  <2>2. Q # {} /\ Q \subseteq Nat
    BY <2>1
  <2>. HIDE DEF k
  <2>3. k \in Q
    <3>. HIDE DEF Q
    <3>. QED  BY <2>1, <2>2, FirstOf
  <2>4. found \in Seq(Range(found))
    BY <1>1 DEF Sound
  <2>. QED  BY <2>3, <2>4
<1>3. found[k] \in Range(found)
  BY <1>2 DEF Range
<1>4. PICK t : found[k].fixed = {t} /\ Mends(s, t)
  BY <1>1, <1>2, <1>3 DEF Mended
<1>5. t \in found[k].fixed
  BY <1>4
<1>6. t \in Schema
  BY <1>1, <1>3, <1>5 DEF Sound, Keeps
<1>. QED  BY <1>4, <1>6 DEF found

LEMMA PassMends ==
    ASSUME NEW s \in Schema, ~Fixed(s), NEW t \in Findings(s)[NextFix(Findings(s))].fixed
    PROVE  Mends(s, t) /\ t \in Schema /\ Findings(s)[NextFix(Findings(s))].fixed = {t}
BY NextFixMends

LEMMA FixedMeans ==
    ASSUME NEW s \in Schema, Fixed(s)
    PROVE  \A f \in Range(Findings(s)) : ~f.fixable
<1>. DEFINE found == Findings(s)
            Q == {i \in 1..Len(found) : found[i].fixable}
<1>1. found \in Seq(Range(found))
  BY FindingsSound DEF Sound
<1>2. (IF Q # {} THEN Min(Q) ELSE 0) = 0
  BY DEF Fixed, NextFix, SelectInSeq
<1>. HIDE DEF found
<1>3. Q = {}
  <2>1. Q # {} => Min(Q) \in Q
    <3>1. Q \subseteq Nat
      OBVIOUS
    <3>. HIDE DEF Q
    <3>. QED  BY <3>1, FirstOf
  <2>. QED  BY <1>2, <2>1
<1>4. DOMAIN found = 1..Len(found)
  BY <1>1
<1>5. \A f \in Range(found) : ~f.fixable
  BY <1>3, <1>4 DEF Range
<1>. QED  BY <1>5 DEF found

-----------------------------------------------------------------------------
(* What fixes make of entities and of relationships.                       *)

\* An entity keeps its name, gets no longer, and gets no unknown type.
EntityEdit(s, t) ==
    \E i \in DOMAIN s.entities, e \in EntityRecord :
        /\ t = WithEntity(s, i, e)
        /\ e.name = s.entities[i].name
        /\ Len(e.fields) <= Len(s.entities[i].fields)
        /\ Len(e.indexes) <= Len(s.entities[i].indexes)
        /\ \A j \in DOMAIN e.fields :
            e.fields[j].type \in FieldType \cup {f.type : f \in Range(s.entities[i].fields)}

\* A relationship gets no new end and no unknown type.
RelEdit(s, t) ==
    \E i \in DOMAIN s.rels, r \in RelRecord :
        /\ t = WithRel(s, i, r)
        /\ {r.from, r.to} \subseteq Ends(s) \cup EntityNames(s)
        /\ r.type \in RelationshipType \cup {s.rels[i].type}

MendsEntity(s, t) ==
    \/ DropsFields(s, t) \/ RetypesField(s, t) \/ RenamesField(s, t)
    \/ DropsColumns(s, t) \/ DropsIndex(s, t)

MendsRel(s, t) ==
    \/ RetypesRel(s, t) \/ MovesEnd(s, t) \/ NamesRel(s, t) \/ StopsInverse(s, t)
    \/ MakesOptional(s, t)

LEMMA MendsKinds ==
    ASSUME NEW s, NEW t
    PROVE  Mends(s, t) <=> \/ FreesName(s, t) \/ MendsEntity(s, t) \/ MendsRel(s, t)
                           \/ DropsRel(s, t)
BY DEF Mends, MendsEntity, MendsRel

LEMMA FieldReplaced ==
    ASSUME NEW e \in EntityRecord, NEW j \in DOMAIN e.fields, NEW f \in FieldRecord,
           f.type \in FieldType \cup {e.fields[j].type}
    PROVE  LET edited == [e EXCEPT !.fields[j] = f]
           IN  /\ edited \in EntityRecord /\ edited.name = e.name
               /\ DOMAIN edited.fields = DOMAIN e.fields
               /\ Len(edited.fields) <= Len(e.fields)
               /\ edited.indexes = e.indexes
               /\ Len(edited.indexes) <= Len(e.indexes)
               /\ \A k \in DOMAIN e.fields :
                    edited.fields[k] = IF k = j THEN f ELSE e.fields[k]
               /\ \A k \in DOMAIN edited.fields :
                    edited.fields[k].type \in FieldType \cup {x.type : x \in Range(e.fields)}
<1>. DEFINE edited == [e EXCEPT !.fields[j] = f]
<1>1. edited \in EntityRecord /\ edited.name = e.name
  BY FieldKept
<1>2. e.fields \in Seq(FieldRecord)
  BY EntityParts
<1>3. edited.fields = [e.fields EXCEPT ![j] = f] /\ edited.indexes = e.indexes
  BY DEF EntityRecord
<1>. HIDE DEF edited
<1>4. /\ DOMAIN edited.fields = DOMAIN e.fields /\ Len(edited.fields) = Len(e.fields)
      /\ \A k \in DOMAIN e.fields : edited.fields[k] = IF k = j THEN f ELSE e.fields[k]
  BY <1>2, <1>3
<1>5. \A k \in DOMAIN edited.fields :
            edited.fields[k].type \in FieldType \cup {x.type : x \in Range(e.fields)}
  BY <1>4 DEF Range
<1>6. Len(e.fields) \in Nat /\ Len(e.indexes) \in Nat
  BY EntityParts
<1>. QED  BY <1>1, <1>3, <1>4, <1>5, <1>6 DEF edited

LEMMA MendsEntityEdits ==
    ASSUME NEW s \in Schema, NEW t, MendsEntity(s, t)
    PROVE  EntityEdit(s, t)
<1>1. CASE DropsFields(s, t)
  <2>1. PICK i \in DOMAIN s.entities, fields \in Seq(FieldRecord) :
            /\ Range(fields) \subseteq Range(s.entities[i].fields)
            /\ Len(fields) < Len(s.entities[i].fields)
            /\ t = WithEntity(s, i, [s.entities[i] EXCEPT !.fields = fields])
    BY <1>1 DEF DropsFields
  <2>. DEFINE e == [s.entities[i] EXCEPT !.fields = fields]
  <2>2. s.entities[i] \in EntityRecord
    BY SchemaParts
  <2>3. e \in EntityRecord /\ e.name = s.entities[i].name
    BY <2>2, EntityWithFields
  <2>4. e.fields = fields /\ e.indexes = s.entities[i].indexes
    BY <2>2 DEF EntityRecord
  <2>5. Len(fields) \in Nat /\ Len(s.entities[i].fields) \in Nat /\ Len(s.entities[i].indexes) \in Nat
    BY <2>2, EntityParts
  <2>. HIDE DEF e
  <2>6. \A j \in DOMAIN e.fields : e.fields[j] \in Range(s.entities[i].fields)
    BY <2>1, <2>4 DEF Range
  <2>7. t = WithEntity(s, i, e)
    BY <2>1 DEF e
  <2>8. Len(e.fields) <= Len(s.entities[i].fields) /\ Len(e.indexes) <= Len(s.entities[i].indexes)
    BY <2>1, <2>4, <2>5
  <2>. QED  BY <2>3, <2>6, <2>7, <2>8 DEF EntityEdit
<1>2. CASE RetypesField(s, t)
  <2>1. PICK p \in FieldPlaces(s), new \in FieldType \ {"enum"} :
            t = WithEntity(s, p[1], [s.entities[p[1]] EXCEPT !.fields[p[2]] =
                                        [Field(s, p) EXCEPT !.type = new]])
    BY <1>2 DEF RetypesField
  <2>. DEFINE i == p[1]
              f == [Field(s, p) EXCEPT !.type = new]
              e == [s.entities[i] EXCEPT !.fields[p[2]] = f]
  <2>2. /\ i \in DOMAIN s.entities /\ s.entities[i] \in EntityRecord
        /\ p[2] \in DOMAIN s.entities[i].fields /\ Field(s, p) \in FieldRecord
    BY PlaceParts
  <2>3. f \in FieldRecord /\ f.type \in FieldType \cup {s.entities[i].fields[p[2]].type}
    BY <2>2, RulesAssumption DEF FieldRecord
  <2>. HIDE DEF f
  <2>. HIDE DEF i
  <2>4. /\ e \in EntityRecord /\ e.name = s.entities[i].name
        /\ Len(e.fields) <= Len(s.entities[i].fields)
        /\ Len(e.indexes) <= Len(s.entities[i].indexes)
        /\ \A k \in DOMAIN e.fields :
                e.fields[k].type \in FieldType \cup {x.type : x \in Range(s.entities[i].fields)}
    BY <2>2, <2>3, FieldReplaced
  <2>5. t = WithEntity(s, i, e)
    BY <2>1 DEF f, i
  <2>. HIDE DEF e
  <2>. QED  BY <2>2, <2>4, <2>5 DEF EntityEdit
<1>3. CASE RenamesField(s, t)
  <2>1. PICK p \in FieldPlaces(s), suffix \in {"_text", "_value"} :
            t = RenamedField(s, p, FreeName(Append(Field(s, p).name, suffix),
                    FieldNames(s, p[1]) \cup GivenMembers(s, s.entities[p[1]].name)))
    BY <1>3 DEF RenamesField
  <2>. DEFINE i == p[1]
              from == Field(s, p).name
              to == FreeName(Append(from, suffix),
                             FieldNames(s, i) \cup GivenMembers(s, s.entities[i].name))
              f == [Field(s, p) EXCEPT !.name = to]
              renamed == [s.entities[i] EXCEPT !.fields[p[2]] = f]
              mapped == MapColumns(renamed, LAMBDA n : IF n = from THEN to ELSE n)
  <2>2. /\ i \in DOMAIN s.entities /\ s.entities[i] \in EntityRecord
        /\ p[2] \in DOMAIN s.entities[i].fields /\ Field(s, p) \in FieldRecord
        /\ Field(s, p) = s.entities[i].fields[p[2]]
    BY PlaceParts
  <2>3. from \in Name /\ suffix \in Token
    BY <2>2, RulesAssumption DEF FieldRecord
  <2>4. to \in Name
    BY <2>3, SuffixType, FreeNameType
  <2>5. t = WithEntity(s, i, mapped)
    BY <2>1, <2>2 DEF RenamedField, WithEntity
  <2>. HIDE DEF from, to
  <2>6. f \in FieldRecord /\ f.type = s.entities[i].fields[p[2]].type
    BY <2>2, <2>4 DEF FieldRecord
  <2>. HIDE DEF f
  <2>. HIDE DEF i
  <2>7. /\ renamed \in EntityRecord /\ renamed.name = s.entities[i].name
        /\ Len(renamed.fields) <= Len(s.entities[i].fields)
        /\ Len(renamed.indexes) <= Len(s.entities[i].indexes)
        /\ \A k \in DOMAIN renamed.fields :
                renamed.fields[k].type \in FieldType \cup {x.type : x \in Range(s.entities[i].fields)}
    BY <2>2, <2>6, FieldReplaced
  <2>. HIDE DEF renamed
  <2>8. mapped \in EntityRecord /\ mapped.name = renamed.name
    BY <2>3, <2>4, <2>7, ColumnsMapped DEF from
  <2>9. /\ mapped.fields = renamed.fields
        /\ DOMAIN mapped.indexes = DOMAIN renamed.indexes
    BY <2>7 DEF MapColumns, Each, EntityRecord
  <2>. HIDE DEF mapped
  <2>10. Len(mapped.indexes) = Len(renamed.indexes)
    BY <2>7, <2>8, <2>9, EntityParts
  <2>. QED  BY <2>2, <2>5, <2>7, <2>8, <2>9, <2>10 DEF EntityEdit
<1>4. ASSUME NEW i \in DOMAIN s.entities, NEW indexes \in Seq(IndexRecord),
             Len(indexes) <= Len(s.entities[i].indexes),
             t = WithEntity(s, i, [s.entities[i] EXCEPT !.indexes = indexes])
      PROVE  EntityEdit(s, t)
  <2>. DEFINE e == [s.entities[i] EXCEPT !.indexes = indexes]
  <2>1. s.entities[i] \in EntityRecord
    BY SchemaParts
  <2>2. e \in EntityRecord /\ e.name = s.entities[i].name
    BY <2>1, EntityWithIndexes
  <2>3. /\ e.fields = s.entities[i].fields /\ e.indexes = indexes
        /\ Len(s.entities[i].fields) \in Nat
    BY <2>1, EntityParts DEF EntityRecord
  <2>4. t = WithEntity(s, i, e)
    BY <1>4
  <2>. HIDE DEF e
  <2>5. Len(e.fields) <= Len(s.entities[i].fields) /\ Len(e.indexes) <= Len(s.entities[i].indexes)
    BY <1>4, <2>3
  <2>. QED  BY <2>2, <2>3, <2>4, <2>5 DEF EntityEdit, Range
<1>5. CASE DropsColumns(s, t)
  <2>1. PICK p \in IndexPlaces(s), columns \in Seq(Name) :
            t = WithEntity(s, p[1], [s.entities[p[1]] EXCEPT !.indexes[p[2]] =
                            [s.entities[p[1]].indexes[p[2]] EXCEPT !.fields = columns]])
    BY <1>5 DEF DropsColumns
  <2>. DEFINE e == s.entities[p[1]]
              index == [e.indexes[p[2]] EXCEPT !.fields = columns]
              indexes == [e.indexes EXCEPT ![p[2]] = index]
  <2>2. p[1] \in DOMAIN s.entities /\ p[2] \in DOMAIN e.indexes
    BY DEF IndexPlaces
  <2>3. e \in EntityRecord
    BY <2>2, SchemaParts
  <2>4. e.indexes \in Seq(IndexRecord) /\ e.indexes[p[2]] \in IndexRecord
    BY <2>2, <2>3, EntityParts
  <2>5. index \in IndexRecord
    BY <2>4 DEF IndexRecord
  <2>6. t = WithEntity(s, p[1], [e EXCEPT !.indexes = indexes])
    BY <2>1
  <2>. HIDE DEF index
  <2>7. /\ indexes \in Seq(IndexRecord) /\ Len(indexes) = Len(e.indexes)
        /\ Len(e.indexes) \in Nat
    BY <2>2, <2>4, <2>5
  <2>. HIDE DEF indexes
  <2>8. Len(indexes) <= Len(s.entities[p[1]].indexes)
    BY <2>7
  <2>. QED  BY <1>4, <2>2, <2>6, <2>7, <2>8
<1>6. CASE DropsIndex(s, t)
  <2>1. PICK p \in IndexPlaces(s) :
            t = WithEntity(s, p[1], [s.entities[p[1]] EXCEPT !.indexes =
                                    RemoveAt(s.entities[p[1]].indexes, p[2])])
    BY <1>6 DEF DropsIndex
  <2>2. p[1] \in DOMAIN s.entities /\ p[2] \in DOMAIN s.entities[p[1]].indexes
    BY DEF IndexPlaces
  <2>3. s.entities[p[1]].indexes \in Seq(IndexRecord)
    BY <2>2, SchemaParts, EntityParts
  <2>4. /\ RemoveAt(s.entities[p[1]].indexes, p[2]) \in Seq(IndexRecord)
        /\ Len(RemoveAt(s.entities[p[1]].indexes, p[2])) <= Len(s.entities[p[1]].indexes)
    BY <2>2, <2>3, RemoveAtType, RemoveAtShorter
  <2>. QED  BY <1>4, <2>1, <2>2, <2>4
<1>. QED  BY <1>1, <1>2, <1>3, <1>5, <1>6 DEF MendsEntity

LEMMA MendsRelEdits ==
    ASSUME NEW s \in Schema, NEW t, MendsRel(s, t)
    PROVE  RelEdit(s, t)
<1>1. ASSUME NEW i \in DOMAIN s.rels
      PROVE  s.rels[i] \in RelRecord /\ {s.rels[i].from, s.rels[i].to} \subseteq Ends(s)
  BY SchemaParts, EndsOf
<1>2. CASE RetypesRel(s, t)
  <2>1. PICK i \in DOMAIN s.rels, type \in RelationshipType :
            t = WithRel(s, i, [s.rels[i] EXCEPT !.type = type])
    BY <1>2 DEF RetypesRel
  <2>. DEFINE r == [s.rels[i] EXCEPT !.type = type]
  <2>2. r \in RelRecord /\ r.from = s.rels[i].from /\ r.to = s.rels[i].to /\ r.type = type
    BY <1>1, RulesAssumption DEF RelRecord
  <2>3. t = WithRel(s, i, r)
    BY <2>1
  <2>. HIDE DEF r
  <2>. QED  BY <1>1, <2>2, <2>3 DEF RelEdit
<1>3. CASE MovesEnd(s, t)
  <2>1. PICK i \in DOMAIN s.rels, name \in EntityNames(s) :
            \/ t = WithRel(s, i, [s.rels[i] EXCEPT !.from = name])
            \/ t = WithRel(s, i, [s.rels[i] EXCEPT !.to = name])
    BY <1>3 DEF MovesEnd
  <2>2. name \in Name
    BY SchemaParts, EntityParts DEF EntityNames
  <2>. DEFINE a == [s.rels[i] EXCEPT !.from = name]
              b == [s.rels[i] EXCEPT !.to = name]
  <2>3. /\ a \in RelRecord /\ a.from = name /\ a.to = s.rels[i].to /\ a.type = s.rels[i].type
        /\ b \in RelRecord /\ b.from = s.rels[i].from /\ b.to = name /\ b.type = s.rels[i].type
    BY <1>1, <2>2 DEF RelRecord
  <2>4. t = WithRel(s, i, a) \/ t = WithRel(s, i, b)
    BY <2>1
  <2>. HIDE DEF a, b
  <2>. QED  BY <1>1, <2>3, <2>4 DEF RelEdit
<1>4. CASE NamesRel(s, t)
  <2>1. PICK d \in GeneratingSides(s), name \in Name :
            t = WithRel(s, d.rel, [s.rels[d.rel] EXCEPT !.toName = name])
    BY <1>4 DEF NamesRel
  <2>2. d.rel \in DOMAIN s.rels
    BY OtherSide DEF SideRecord
  <2>. DEFINE i == d.rel
              r == [s.rels[i] EXCEPT !.toName = name]
  <2>3. r \in RelRecord /\ r.from = s.rels[i].from /\ r.to = s.rels[i].to /\ r.type = s.rels[i].type
    BY <1>1, <2>2 DEF RelRecord
  <2>4. t = WithRel(s, i, r)
    BY <2>1
  <2>. HIDE DEF r
  <2>. QED  BY <1>1, <2>2, <2>3, <2>4 DEF RelEdit
<1>5. CASE StopsInverse(s, t)
  <2>1. PICK d \in GeneratingSides(s) :
            t = WithRel(s, d.rel, [s.rels[d.rel] EXCEPT !.bi = "no"])
    BY <1>5 DEF StopsInverse
  <2>2. d.rel \in DOMAIN s.rels
    BY OtherSide DEF SideRecord
  <2>. DEFINE i == d.rel
              r == [s.rels[i] EXCEPT !.bi = "no"]
  <2>3. r \in RelRecord /\ r.from = s.rels[i].from /\ r.to = s.rels[i].to /\ r.type = s.rels[i].type
    BY <1>1, <2>2 DEF RelRecord
  <2>4. t = WithRel(s, i, r)
    BY <2>1
  <2>. HIDE DEF r
  <2>. QED  BY <1>1, <2>2, <2>3, <2>4 DEF RelEdit
<1>6. CASE MakesOptional(s, t)
  <2>1. PICK i \in DOMAIN s.rels :
            t = WithRel(s, i, [s.rels[i] EXCEPT !.nullable = TRUE])
    BY <1>6 DEF MakesOptional
  <2>. DEFINE r == [s.rels[i] EXCEPT !.nullable = TRUE]
  <2>2. r \in RelRecord /\ r.from = s.rels[i].from /\ r.to = s.rels[i].to /\ r.type = s.rels[i].type
    BY <1>1 DEF RelRecord
  <2>3. t = WithRel(s, i, r)
    BY <2>1
  <2>. HIDE DEF r
  <2>. QED  BY <1>1, <2>2, <2>3 DEF RelEdit
<1>. QED  BY <1>2, <1>3, <1>4, <1>5, <1>6 DEF MendsRel

LEMMA EntityEditParts ==
    ASSUME NEW s \in Schema, NEW t, EntityEdit(s, t)
    PROVE  /\ t \in Schema /\ t.rels = s.rels
           /\ DOMAIN t.entities = DOMAIN s.entities /\ Len(t.entities) = Len(s.entities)
           /\ \A i \in DOMAIN s.entities :
                /\ t.entities[i].name = s.entities[i].name
                /\ Len(t.entities[i].fields) <= Len(s.entities[i].fields)
                /\ Len(t.entities[i].indexes) <= Len(s.entities[i].indexes)
           /\ EntityNames(t) = EntityNames(s)
           /\ \A p \in FieldPlaces(t) :
                Field(t, p).type \in FieldType \cup {Field(s, q).type : q \in FieldPlaces(s)}
<1>1. PICK i \in DOMAIN s.entities, e \in EntityRecord :
        /\ t = WithEntity(s, i, e)
        /\ e.name = s.entities[i].name
        /\ Len(e.fields) <= Len(s.entities[i].fields)
        /\ Len(e.indexes) <= Len(s.entities[i].indexes)
        /\ \A j \in DOMAIN e.fields :
            e.fields[j].type \in FieldType \cup {f.type : f \in Range(s.entities[i].fields)}
  BY DEF EntityEdit
<1>2. t = [s EXCEPT !.entities[i] = e]
  BY <1>1 DEF WithEntity
<1>3. t \in Schema
  BY <1>2, EntityReplaced
<1>4. t.rels = s.rels /\ t.entities = [s.entities EXCEPT ![i] = e]
  BY <1>2 DEF Schema
<1>5. /\ DOMAIN t.entities = DOMAIN s.entities /\ Len(t.entities) = Len(s.entities)
      /\ \A k \in DOMAIN s.entities : t.entities[k] = IF k = i THEN e ELSE s.entities[k]
  BY <1>4, SchemaParts
<1>6. ASSUME NEW k \in DOMAIN s.entities
      PROVE  /\ t.entities[k].name = s.entities[k].name
             /\ Len(t.entities[k].fields) <= Len(s.entities[k].fields)
             /\ Len(t.entities[k].indexes) <= Len(s.entities[k].indexes)
  <2>1. Len(s.entities[k].fields) \in Nat /\ Len(s.entities[k].indexes) \in Nat
    BY SchemaParts, EntityParts
  <2>. QED  BY <1>1, <1>5, <2>1
<1>7. EntityNames(t) = EntityNames(s)
  BY <1>5, <1>6 DEF EntityNames
<1>8. ASSUME NEW p \in FieldPlaces(t)
      PROVE  Field(t, p).type \in FieldType \cup {Field(s, q).type : q \in FieldPlaces(s)}
  <2>1. p[1] \in DOMAIN t.entities /\ p[2] \in DOMAIN t.entities[p[1]].fields
        /\ p[2] \in Nat /\ p = <<p[1], p[2]>> /\ Field(t, p) = t.entities[p[1]].fields[p[2]]
    BY <1>3, PlaceParts DEF FieldPlaces
  <2>2. ASSUME NEW k \in DOMAIN s.entities, NEW j \in DOMAIN s.entities[k].fields
        PROVE  s.entities[k].fields[j].type \in {Field(s, q).type : q \in FieldPlaces(s)}
    <3>1. j \in Nat
      BY SchemaParts, EntityParts
    <3>. DEFINE q == <<k, j>>
    <3>2. q \in FieldPlaces(s) /\ Field(s, q) = s.entities[k].fields[j]
      BY <3>1 DEF FieldPlaces, Field
    <3>. QED  BY <3>2
  <2>3. CASE p[1] = i
    <3>1. p[2] \in DOMAIN e.fields /\ Field(t, p) = e.fields[p[2]]
      BY <1>5, <2>1, <2>3
    <3>2. {f.type : f \in Range(s.entities[i].fields)} \subseteq {Field(s, q).type : q \in FieldPlaces(s)}
      BY <2>2 DEF Range
    <3>. QED  BY <1>1, <3>1, <3>2
  <2>4. CASE p[1] # i
    <3>1. p[1] \in DOMAIN s.entities /\ t.entities[p[1]] = s.entities[p[1]]
      BY <1>5, <2>1, <2>4
    <3>2. p[2] \in DOMAIN s.entities[p[1]].fields /\ Field(t, p) = s.entities[p[1]].fields[p[2]]
      BY <2>1, <3>1
    <3>. QED  BY <2>2, <3>1, <3>2
  <2>. QED  BY <2>3, <2>4
<1>. QED  BY <1>3, <1>4, <1>5, <1>6, <1>7, <1>8

LEMMA RelEditParts ==
    ASSUME NEW s \in Schema, NEW t, RelEdit(s, t)
    PROVE  /\ t \in Schema /\ t.entities = s.entities /\ EntityNames(t) = EntityNames(s)
           /\ DOMAIN t.rels = DOMAIN s.rels /\ Len(t.rels) = Len(s.rels)
           /\ Ends(t) \subseteq Ends(s) \cup EntityNames(s)
           /\ \A k \in DOMAIN t.rels : t.rels[k].type \in RelationshipType \cup {s.rels[k].type}
<1>1. PICK i \in DOMAIN s.rels, r \in RelRecord :
        /\ t = WithRel(s, i, r)
        /\ {r.from, r.to} \subseteq Ends(s) \cup EntityNames(s)
        /\ r.type \in RelationshipType \cup {s.rels[i].type}
  BY DEF RelEdit
<1>2. t = [s EXCEPT !.rels[i] = r]
  BY <1>1 DEF WithRel
<1>3. t \in Schema
  BY <1>1, <1>2, RelKept DEF Keeps
<1>4. t.entities = s.entities /\ t.rels = [s.rels EXCEPT ![i] = r]
  BY <1>2 DEF Schema
<1>5. /\ DOMAIN t.rels = DOMAIN s.rels /\ Len(t.rels) = Len(s.rels)
      /\ \A k \in DOMAIN s.rels : t.rels[k] = IF k = i THEN r ELSE s.rels[k]
  BY <1>4, SchemaParts
<1>6. \A k \in DOMAIN s.rels : {s.rels[k].from, s.rels[k].to} \subseteq Ends(s)
  BY EndsOf
<1>7. \A k \in DOMAIN t.rels : {t.rels[k].from, t.rels[k].to} \subseteq Ends(s) \cup EntityNames(s)
  <2>. TAKE k \in DOMAIN t.rels
  <2>1. CASE k = i
    BY <1>1, <1>5, <2>1
  <2>2. CASE k # i
    BY <1>5, <1>6, <2>2
  <2>. QED  BY <2>1, <2>2
<1>8. Ends(t) \subseteq Ends(s) \cup EntityNames(s)
  BY <1>7 DEF Ends, Range
<1>9. \A k \in DOMAIN t.rels : t.rels[k].type \in RelationshipType \cup {s.rels[k].type}
  BY <1>1, <1>5
<1>10. EntityNames(t) = EntityNames(s)
  BY <1>4 DEF EntityNames
<1>. QED  BY <1>3, <1>4, <1>5, <1>8, <1>9, <1>10

-----------------------------------------------------------------------------
(* Schemas whose errors all have a fix.                                    *)

\* A taken name gets a number; there are enough of them.
LEMMA FreeNameFresh ==
    ASSUME NEW base \in Name, NEW taken, IsFiniteSet(taken), taken \subseteq Name,
           Cardinality(taken) <= Len(Numeral)
    PROVE  FreeName(base, taken) \notin taken
<1>. DEFINE n == Len(Numeral)
            numbered(k) == Append(base, Numeral[k])
            free == {k \in DOMAIN Numeral : numbered(k) \notin taken}
<1>1. n \in Nat /\ DOMAIN Numeral = 1..n
  BY NamingAssumption
<1>2. ASSUME base \in taken, free = {} PROVE FALSE
  <2>. HIDE DEF n
  <2>1. base \in Seq(Token) /\ Len(base) \in Nat
    BY DEF Name
  <2>2. ASSUME NEW k \in 1..n
        PROVE  /\ numbered(k) \in Seq(Token) /\ Len(numbered(k)) = Len(base) + 1
               /\ numbered(k)[Len(base) + 1] = Numeral[k]
    <3>1. Numeral[k] \in Token
      BY <1>1, NamingAssumption
    <3>. QED  BY <2>1, <3>1
  <2>. DEFINE f == [k \in 1..n |-> numbered(k)]
              S == taken \ {base}
  <2>3. \A k \in 1..n : numbered(k) \in S
    <3>. TAKE k \in 1..n
    <3>1. numbered(k) \in taken
      BY <1>1, <1>2
    <3>2. Len(numbered(k)) # Len(base)
      BY <2>1, <2>2
    <3>. QED  BY <3>1, <3>2
  <2>4. \A k, l \in 1..n : numbered(k) = numbered(l) => k = l
    <3>. SUFFICES ASSUME NEW k \in 1..n, NEW l \in 1..n, numbered(k) = numbered(l) PROVE k = l
      OBVIOUS
    <3>1. Numeral[k] = Numeral[l]
      BY <2>2
    <3>. QED  BY <1>1, <3>1, NamingAssumption DEF IsInjective
  <2>5. IsFiniteSet(S) /\ Cardinality(S) = Cardinality(taken) - 1
    BY <1>2, FS_RemoveElement
  <2>. HIDE DEF numbered, S
  <2>6. f \in Injection(1..n, S)
    BY <2>3, <2>4 DEF Injection, IsInjective
  <2>. HIDE DEF f
  <2>7. Cardinality(1..n) <= Cardinality(S)
    BY <2>5, <2>6, FS_Injection
  <2>8. Cardinality(1..n) = n /\ Cardinality(taken) \in Nat
    BY <1>1, FS_Interval, FS_CardinalityType
  <2>. QED  BY <1>1, <2>5, <2>7, <2>8 DEF n
<1>3. CASE base \notin taken
  BY <1>3 DEF FreeName
<1>4. CASE base \in taken
  <2>1. free # {} /\ free \subseteq Nat
    BY <1>1, <1>2, <1>4
  <2>2. Min(free) \in free
    <3>. HIDE DEF free
    <3>. QED  BY <2>1, FirstOf
  <2>3. FreeName(base, taken) = numbered(Min(free))
    BY <1>4, <2>1 DEF FreeName
  <2>. HIDE DEF numbered
  <2>4. numbered(Min(free)) \notin taken
    BY <2>2
  <2>. QED  BY <2>3, <2>4
<1>. QED  BY <1>3, <1>4

LEMMA NamesFew ==
    ASSUME NEW s \in Schema
    PROVE  /\ IsFiniteSet(EntityNames(s)) /\ EntityNames(s) \subseteq Name
           /\ Cardinality(EntityNames(s)) <= Len(s.entities)
<1>. DEFINE n == Len(s.entities)
            name(i) == s.entities[i].name
            f == [i \in 1..n |-> name(i)]
<1>1. n \in Nat /\ DOMAIN s.entities = 1..n /\ \A i \in 1..n : name(i) \in Name
  BY SchemaParts, EntityParts
<1>2. EntityNames(s) = {name(i) : i \in 1..n}
  BY <1>1 DEF EntityNames
<1>. HIDE DEF name, n
<1>3. IsFiniteSet(1..n) /\ Cardinality(1..n) = n
  BY <1>1, FS_Interval
<1>4. f \in Surjection(1..n, EntityNames(s))
  <2>1. f \in [1..n -> EntityNames(s)] /\ \A e \in EntityNames(s) : \E i \in 1..n : f[i] = e
    BY <1>2
  <2>. HIDE DEF f
  <2>. QED  BY <2>1 DEF Surjection
<1>. HIDE DEF f
<1>5. IsFiniteSet(EntityNames(s)) /\ Cardinality(EntityNames(s)) <= n
  BY <1>3, <1>4, FS_Surjection
<1>. QED  BY <1>1, <1>2, <1>5 DEF n

UniqueEntities(s) ==
    \A i, j \in DOMAIN s.entities : i # j => s.entities[i].name # s.entities[j].name

\* Whatever a rule reports can be mended, and a rename loses no end.
Mendable(s) ==
    /\ UniqueEntities(s)
    /\ TypesFixable(s) /\ RelTypesFixable(s) /\ EndsFixable(s)
    /\ EntityNames(s) \cap Reserved = {} \/ Ends(s) \subseteq EntityNames(s)
    /\ Len(s.entities) <= Len(Numeral)

LEMMA MendableEntityEdit ==
    ASSUME NEW s \in Schema, NEW t, EntityEdit(s, t), Mendable(s)
    PROVE  Mendable(t)
<1>1. /\ t.rels = s.rels
      /\ DOMAIN t.entities = DOMAIN s.entities /\ Len(t.entities) = Len(s.entities)
      /\ \A i \in DOMAIN s.entities : t.entities[i].name = s.entities[i].name
      /\ EntityNames(t) = EntityNames(s)
      /\ \A p \in FieldPlaces(t) :
            Field(t, p).type \in FieldType \cup {Field(s, q).type : q \in FieldPlaces(s)}
  BY EntityEditParts
<1>2. Ends(t) = Ends(s)
  BY <1>1 DEF Ends
<1>3. UniqueEntities(t)
  BY <1>1 DEF Mendable, UniqueEntities
<1>4. TypesFixable(t)
  BY <1>1 DEF Mendable, TypesFixable
<1>5. RelTypesFixable(t)
  BY <1>1 DEF Mendable, RelTypesFixable
<1>6. EndsFixable(t)
  BY <1>1, <1>2 DEF Mendable, EndsFixable
<1>. QED  BY <1>1, <1>2, <1>3, <1>4, <1>5, <1>6 DEF Mendable

\* What does not depend on the fields.
LEMMA MendableRels ==
    ASSUME NEW s \in Schema, NEW t \in Schema, t.entities = s.entities,
           Ends(t) \subseteq Ends(s) \cup EntityNames(s), RelTypesFixable(t), Mendable(s)
    PROVE  Mendable(t)
<1>1. EntityNames(t) = EntityNames(s) /\ FieldPlaces(t) = FieldPlaces(s)
  BY DEF EntityNames, FieldPlaces
<1>2. \A p : Field(t, p) = Field(s, p)
  BY DEF Field
<1>3. UniqueEntities(t) /\ TypesFixable(t)
  BY <1>1, <1>2 DEF Mendable, UniqueEntities, TypesFixable
<1>4. EndsFixable(t)
  <2>1. \A name \in EntityNames(s) :
            \E i \in DOMAIN s.entities : SameIgnoringCase(s.entities[i].name, name)
    BY DEF EntityNames, SameIgnoringCase
  <2>. QED  BY <2>1 DEF Mendable, EndsFixable
<1>5. EntityNames(t) \cap Reserved = {} \/ Ends(t) \subseteq EntityNames(t)
  BY <1>1 DEF Mendable
<1>. QED  BY <1>3, <1>4, <1>5 DEF Mendable

LEMMA MendableFreesName ==
    ASSUME NEW s \in Schema, NEW t, FreesName(s, t), Mendable(s)
    PROVE  Mendable(t)
<1>1. PICK i \in DOMAIN s.entities :
        /\ s.entities[i].name \in Reserved
        /\ t = RenamedEntity(s, i, FreeName(Append(PascalCase(s.entities[i].name), "Record"),
                                            EntityNames(s)))
  BY DEF FreesName
<1>. DEFINE old == s.entities[i].name
            base == Append(PascalCase(old), "Record")
            to == FreeName(base, EntityNames(s))
            follow(n) == IF n = old THEN to ELSE n
            e == [s.entities[i] EXCEPT !.name = to]
            moved(r) == [r EXCEPT !.from = follow(r.from), !.to = follow(r.to)]
<1>2. old \in Name /\ s.entities[i] \in EntityRecord
  BY SchemaParts, EntityParts
<1>3. base \in Name
  <2>1. "Record" \in Token
    BY RulesAssumption
  <2>. QED  BY <1>2, <2>1, PascalCaseType, SuffixType
<1>. HIDE DEF base
<1>4. to \in Name /\ to \notin EntityNames(s)
  <2>1. Cardinality(EntityNames(s)) <= Len(Numeral)
    <3>1. Len(s.entities) <= Len(Numeral) /\ Cardinality(EntityNames(s)) <= Len(s.entities)
      BY NamesFew DEF Mendable
    <3>2. Cardinality(EntityNames(s)) \in Nat /\ Len(s.entities) \in Nat /\ Len(Numeral) \in Nat
      BY NamesFew, FS_CardinalityType, SchemaParts, NamingAssumption
    <3>. QED  BY <3>1, <3>2
  <2>. QED  BY <1>3, <2>1, NamesFew, FreeNameType, FreeNameFresh
<1>5. Keeps(s, t)
  BY <1>1, <1>4, RenamedEntityKept DEF base
<1>6. /\ t.entities = [s.entities EXCEPT ![i] = e]
      /\ t.rels = [k \in DOMAIN s.rels |-> moved(s.rels[k])]
  BY <1>1 DEF RenamedEntity, Each, base
<1>. HIDE DEF to, old
<1>7. e.name = to /\ e.fields = s.entities[i].fields
  BY <1>2 DEF EntityRecord
<1>. HIDE DEF e
<1>8. /\ DOMAIN t.entities = DOMAIN s.entities /\ t.entities[i] = e
      /\ \A k \in DOMAIN s.entities : k # i => t.entities[k] = s.entities[k]
  BY <1>6, SchemaParts
<1>9. UniqueEntities(t)
  <2>1. \A k \in DOMAIN s.entities : s.entities[k].name # to
    BY <1>4 DEF EntityNames
  <2>. QED  BY <1>7, <1>8, <2>1 DEF Mendable, UniqueEntities
<1>10. TypesFixable(t)
  <2>1. \A k \in DOMAIN s.entities : t.entities[k].fields = s.entities[k].fields
    BY <1>7, <1>8
  <2>2. FieldPlaces(t) = FieldPlaces(s)
    BY <1>8, <2>1 DEF FieldPlaces
  <2>3. \A p \in FieldPlaces(s) : Field(t, p) = Field(s, p)
    BY <2>1, PlaceParts DEF Field
  <2>. QED  BY <2>2, <2>3 DEF Mendable, TypesFixable
<1>11. RelTypesFixable(t)
  <2>1. DOMAIN t.rels = DOMAIN s.rels
    BY <1>6
  <2>2. \A k \in DOMAIN s.rels : t.rels[k].type = s.rels[k].type
    <3>. TAKE k \in DOMAIN s.rels
    <3>1. s.rels[k] \in RelRecord
      BY SchemaParts
    <3>. HIDE DEF follow
    <3>. QED  BY <1>6, <3>1 DEF RelRecord
  <2>. QED  BY <2>1, <2>2 DEF Mendable, RelTypesFixable
<1>12. Ends(s) \subseteq EntityNames(s)
  <2>1. old \in EntityNames(s) \cap Reserved
    BY <1>1 DEF EntityNames, old
  <2>. QED  BY <2>1 DEF Mendable
<1>13. Ends(t) \subseteq EntityNames(t) /\ Len(t.entities) = Len(s.entities)
  BY <1>5, <1>12 DEF Keeps
<1>14. EndsFixable(t)
  BY <1>13 DEF EndsFixable, EntityNames, SameIgnoringCase
<1>. QED  BY <1>9, <1>10, <1>11, <1>13, <1>14 DEF Mendable

LEMMA MendableStays ==
    ASSUME NEW s \in Schema, NEW t \in Schema, Mends(s, t), Mendable(s)
    PROVE  Mendable(t)
<1>1. CASE FreesName(s, t)
  BY <1>1, MendableFreesName
<1>2. CASE MendsEntity(s, t)
  BY <1>2, MendsEntityEdits, MendableEntityEdit
<1>3. CASE MendsRel(s, t)
  <2>1. /\ t.entities = s.entities /\ DOMAIN t.rels = DOMAIN s.rels
        /\ Ends(t) \subseteq Ends(s) \cup EntityNames(s)
        /\ \A k \in DOMAIN t.rels : t.rels[k].type \in RelationshipType \cup {s.rels[k].type}
    BY <1>3, MendsRelEdits, RelEditParts
  <2>2. RelTypesFixable(t)
    BY <2>1 DEF Mendable, RelTypesFixable
  <2>. QED  BY <2>1, <2>2, MendableRels
<1>4. CASE DropsRel(s, t)
  <2>1. PICK i \in DOMAIN s.rels : t = [s EXCEPT !.rels = RemoveAt(s.rels, i)]
    BY <1>4 DEF DropsRel
  <2>2. t.entities = s.entities /\ t.rels = RemoveAt(s.rels, i)
    BY <2>1 DEF Schema
  <2>3. \A k \in DOMAIN t.rels : \E j \in DOMAIN s.rels : t.rels[k] = s.rels[j]
    BY <2>2, SchemaParts, RemoveAtType
  <2>4. Ends(t) \subseteq Ends(s) \cup EntityNames(s)
    <3>1. \A k \in DOMAIN t.rels : {t.rels[k].from, t.rels[k].to} \subseteq Ends(s)
      BY <2>3, EndsOf
    <3>. QED  BY <3>1 DEF Ends, Range
  <2>5. RelTypesFixable(t)
    BY <2>3 DEF Mendable, RelTypesFixable
  <2>. QED  BY <2>2, <2>4, <2>5, MendableRels
<1>. QED  BY <1>1, <1>2, <1>3, <1>4, MendsKinds

\* Where every error has a fix, every schema a fix makes of it is mendable.
LEMMA GivenMendable ==
    ASSUME NEW s \in Schema, \A f \in Errors(s) : f.fixable,
           EntityNames(s) \cap Reserved = {} \/ Ends(s) \subseteq EntityNames(s),
           Len(s.entities) <= Len(Numeral)
    PROVE  Mendable(s)
<1>. DEFINE props == Generated(s.rels)
<1>1. ErrorsFound(s, props) \subseteq Errors(s)
  BY ErrorsFoundAre
<1>2. UniqueEntities(s)
  <2>1. Range(DuplicateEntityNames(s)) \subseteq Errors(s)
    BY <1>1 DEF ErrorsFound
  <2>2. Range(DuplicateEntityNames(s)) = {}
    BY <2>1, DuplicateEntityNamesMended
  <2>. QED  BY <2>2, DuplicateEntityNamesExact, Zenon DEF Detects, UniqueEntities
<1>3. TypesFixable(s)
  <2>1. Range(UnknownFieldTypes(s)) \subseteq Errors(s)
    BY <1>1 DEF ErrorsFound
  <2>. QED  BY <2>1, UnknownFieldTypesMended DEF AllFixable
<1>4. RelTypesFixable(s)
  <2>1. Range(InvalidRelationshipTypes(s)) \subseteq Errors(s)
    BY <1>1 DEF ErrorsFound
  <2>. QED  BY <2>1, InvalidRelationshipTypesMended DEF AllFixable
<1>5. EndsFixable(s)
  <2>1. Range(MissingEntities(s)) \subseteq Errors(s)
    BY <1>1 DEF ErrorsFound
  <2>. QED  BY <2>1, MissingEntitiesMended DEF AllFixable
<1>. QED  BY <1>2, <1>3, <1>4, <1>5 DEF Mendable

\* When nothing is left to fix, only clashes without a fix can be.
LEMMA OnlyClashesLeft ==
    ASSUME NEW s \in Schema, Fixed(s), Mendable(s)
    PROVE  Errors(s) \subseteq Range(RelationshipPropertyClashes(s, Generated(s.rels)))
<1>. DEFINE props == Generated(s.rels)
<1>1. Errors(s) = ErrorsFound(s, props) /\ Errors(s) \subseteq Range(Findings(s))
  BY ErrorsFoundAre DEF Errors
<1>2. \A f \in Errors(s) : ~f.fixable
  BY <1>1, FixedMeans
<1>3. ASSUME NEW found, AllFixable(found), Range(found) \subseteq Errors(s) PROVE Range(found) = {}
  BY <1>2, <1>3 DEF AllFixable
<1>4. Range(DuplicateEntityNames(s)) = {}
  BY DuplicateEntityNamesExact, Zenon DEF Detects, Mendable, UniqueEntities
<1>5. /\ AllFixable(ReservedEntityNames(s)) /\ AllFixable(DuplicateFieldNames(s))
      /\ AllFixable(UnknownFieldTypes(s)) /\ AllFixable(EnumsWithoutValues(s))
  BY ReservedEntityNamesMended, DuplicateFieldNamesMended, UnknownFieldTypesMended,
     EnumsWithoutValuesMended DEF Mendable
<1>6. /\ AllFixable(InvalidRelationshipTypes(s)) /\ AllFixable(MissingEntities(s))
      /\ AllFixable(ForeignKeyFieldDuplicates(s, props))
      /\ AllFixable(FieldRelationshipCollisions(s, props))
  BY InvalidRelationshipTypesMended, MissingEntitiesMended, ForeignKeyFieldDuplicatesMended,
     FieldRelationshipCollisionsMended DEF Mendable
<1>7. AllFixable(UnknownIndexFields(s, props)) /\ AllFixable(RequiredRelationshipCycles(s))
  BY UnknownIndexFieldsMended, RequiredRelationshipCyclesMended
<1>. HIDE DEF props
<1>8. /\ Range(ReservedEntityNames(s)) = {} /\ Range(DuplicateFieldNames(s)) = {}
      /\ Range(UnknownFieldTypes(s)) = {} /\ Range(EnumsWithoutValues(s)) = {}
      /\ Range(InvalidRelationshipTypes(s)) = {} /\ Range(MissingEntities(s)) = {}
  BY <1>1, <1>3, <1>5, <1>6 DEF ErrorsFound
<1>9. /\ Range(ForeignKeyFieldDuplicates(s, props)) = {}
      /\ Range(FieldRelationshipCollisions(s, props)) = {}
      /\ Range(UnknownIndexFields(s, props)) = {} /\ Range(RequiredRelationshipCycles(s)) = {}
  BY <1>1, <1>3, <1>6, <1>7 DEF ErrorsFound
<1>10. Errors(s) \subseteq Range(RelationshipPropertyClashes(s, props))
  BY <1>1, <1>4, <1>8, <1>9 DEF ErrorsFound
<1>. QED  BY <1>10 DEF props

-----------------------------------------------------------------------------
(* Where relationships are right, fixing leaves them so.                   *)

\* An optional relationship is between the same ends, under the same names.
Alike(rels, others) ==
    /\ DOMAIN others = DOMAIN rels
    /\ \A k \in DOMAIN rels :
        /\ others[k].from = rels[k].from /\ others[k].to = rels[k].to
        /\ others[k].type = rels[k].type /\ others[k].toName = rels[k].toName
        /\ others[k].bi = rels[k].bi

LEMMA InverseAlike ==
    ASSUME NEW s \in Schema, NEW t \in Schema, Alike(s.rels, t.rels), NEW k \in DOMAIN s.rels
    PROVE  SameSettings(InverseOf(s.rels, s.rels[k]), InverseOf(t.rels, t.rels[k]))
<1>. DEFINE Q(u) == {i \in 1..Len(u.rels) : u.rels[i].from = u.rels[k].to
                        /\ u.rels[i].to = u.rels[k].from /\ u.rels[i].type = u.rels[k].type}
            first(u) == IF Q(u) # {} THEN Min(Q(u)) ELSE 0
            inverse(u) == InverseOf(u.rels, u.rels[k])
<1>1. /\ DOMAIN t.rels = DOMAIN s.rels
      /\ DOMAIN s.rels = 1..Len(s.rels) /\ DOMAIN t.rels = 1..Len(t.rels)
  BY SchemaParts DEF Alike
<1>2. Q(t) = Q(s)
  BY <1>1 DEF Alike
<1>3. \A u : inverse(u) = IF first(u) = 0 THEN {} ELSE {u.rels[first(u)]}
  BY DEF InverseOf, SelectInSeq
<1>4. first(s) = 0 \/ first(s) \in DOMAIN s.rels
  <2>1. Q(s) \subseteq DOMAIN s.rels /\ Q(s) \subseteq Nat
    BY <1>1
  <2>. HIDE DEF Q
  <2>. QED  BY <2>1, FirstOf
<1>5. first(t) = first(s)
  BY <1>2
<1>. HIDE DEF first, inverse
<1>6. \/ inverse(s) = {} /\ inverse(t) = {}
      \/ \E i \in DOMAIN s.rels : inverse(s) = {s.rels[i]} /\ inverse(t) = {t.rels[i]}
  BY <1>3, <1>4, <1>5
<1>7. SameSettings(inverse(s), inverse(t))
  BY <1>6 DEF SameSettings, Alike
<1>. QED  BY <1>7 DEF inverse

LEMMA SidesAlike ==
    ASSUME NEW s \in Schema, NEW t \in Schema, Alike(s.rels, t.rels)
    PROVE  Sides(t.rels) = Sides(s.rels) /\ GeneratingSides(t) = GeneratingSides(s)
<1>. DEFINE row(u, k) == SidesOf(k, u.rels[k], InverseOf(u.rels, u.rels[k]))
<1>1. ASSUME NEW k \in DOMAIN s.rels PROVE row(t, k) = row(s, k)
  <2>. DEFINE a == s.rels[k]
              b == t.rels[k]
              inverseA == InverseOf(s.rels, s.rels[k])
              inverseB == InverseOf(t.rels, t.rels[k])
  <2>1. b.from = a.from /\ b.to = a.to /\ b.type = a.type /\ b.toName = a.toName /\ b.bi = a.bi
    BY DEF Alike
  <2>2. SameSettings(inverseA, inverseB)
    BY InverseAlike
  <2>. HIDE DEF a, b, inverseA, inverseB
  <2>3. {d.toName : d \in inverseB} = {d.toName : d \in inverseA}
    BY <2>2 DEF SameSettings
  <2>4. (\E d \in {b} \cup inverseB : d.bi = "yes") <=> (\E d \in {a} \cup inverseA : d.bi = "yes")
    <3>1. /\ (\E d \in inverseA : d.bi = "yes") <=> "yes" \in {d.bi : d \in inverseA}
          /\ (\E d \in inverseB : d.bi = "yes") <=> "yes" \in {d.bi : d \in inverseB}
      OBVIOUS
    <3>2. (\E d \in inverseA : d.bi = "yes") <=> (\E d \in inverseB : d.bi = "yes")
      BY <2>2, <3>1 DEF SameSettings
    <3>. QED  BY <2>1, <3>2
  <2>5. RefOf(b) = RefOf(a)
    BY <2>1 DEF RefOf
  <2>6. SidesOf(k, b, inverseB) = SidesOf(k, a, inverseA)
    BY <2>1, <2>3, <2>4, <2>5 DEF SidesOf
  <2>. QED  BY <2>6 DEF a, b, inverseA, inverseB
<1>2. [k \in DOMAIN t.rels |-> row(t, k)] = [k \in DOMAIN s.rels |-> row(s, k)]
  BY <1>1 DEF Alike
<1>3. Sides(t.rels) = Sides(s.rels)
  BY <1>2 DEF Sides
<1>. QED  BY <1>3 DEF GeneratingSides

Redundant(s, i) ==
    /\ s.rels[i].type = "ManyToMany"
    /\ s.rels[i].from # s.rels[i].to
    /\ JoinsOf(s, s.rels[i]) # {}

LEMMA RedundantIs ==
    ASSUME NEW s \in Schema
    PROVE  RedundantManyToMany(s) = <<>> <=> \A i \in DOMAIN s.rels : ~Redundant(s, i)
<1>. DEFINE P == {i \in DOMAIN s.rels : Redundant(s, i)}
            places == InOrder(P)
            found == RedundantManyToMany(s)
            fixed(i) == FixedBy(Warning("REDUNDANT_MANY_TO_MANY", s.rels[i].from, NoName,
                                        Describe(s.rels[i])),
                                [s EXCEPT !.rels = RemoveAt(s.rels, i)])
<1>1. found = [k \in DOMAIN places |-> fixed(places[k])]
  BY DEF RedundantManyToMany, Each, Redundant
<1>2. places \in Seq(P) /\ Range(places) = P
  <2>1. P \in SUBSET (1..Len(s.rels)) /\ Len(s.rels) \in Nat
    BY SchemaParts
  <2>. HIDE DEF P
  <2>. QED  BY <2>1, InOrderSeq, InOrderRange
<1>. HIDE DEF places, P, fixed
<1>3. found = <<>> <=> DOMAIN places = {}
  <2>. HIDE DEF found
  <2>. QED  BY <1>1
<1>4. DOMAIN places = {} <=> P = {}
  BY <1>2 DEF Range
<1>. QED  BY <1>3, <1>4 DEF P, found

LEMMA RedundantAlike ==
    ASSUME NEW s \in Schema, NEW t \in Schema, Alike(s.rels, t.rels)
    PROVE  \A i \in DOMAIN s.rels : Redundant(t, i) <=> Redundant(s, i)
<1>1. ASSUME NEW u \in Schema, NEW child
      PROVE  \A n : n \in ParentsOf(u, child) <=>
                \E k \in DOMAIN u.rels :
                    \/ u.rels[k].type = "ManyToOne" /\ u.rels[k].from = child /\ u.rels[k].to = n
                    \/ u.rels[k].type = "OneToMany" /\ u.rels[k].to = child /\ u.rels[k].from = n
  BY DEF ParentsOf, Range
<1>2. ASSUME NEW child PROVE ParentsOf(t, child) = ParentsOf(s, child)
  <2>1. \A n : n \in ParentsOf(t, child) <=> n \in ParentsOf(s, child)
    <3>. TAKE n
    <3>1. DOMAIN t.rels = DOMAIN s.rels /\ \A k \in DOMAIN s.rels :
            t.rels[k].from = s.rels[k].from /\ t.rels[k].to = s.rels[k].to /\ t.rels[k].type = s.rels[k].type
      BY DEF Alike
    <3>2. n \in ParentsOf(t, child) <=>
                \E k \in DOMAIN s.rels :
                    \/ s.rels[k].type = "ManyToOne" /\ s.rels[k].from = child /\ s.rels[k].to = n
                    \/ s.rels[k].type = "OneToMany" /\ s.rels[k].to = child /\ s.rels[k].from = n
      BY <1>1, <3>1
    <3>. QED  BY <1>1, <3>2
  <2>. QED  BY <2>1
<1>3. Ends(t) = Ends(s)
  <2>1. \A u, n : n \in Ends(u) <=> \E k \in DOMAIN u.rels : n = u.rels[k].from \/ n = u.rels[k].to
    BY DEF Ends, Range
  <2>2. \A n : n \in Ends(t) <=> n \in Ends(s)
    BY <2>1 DEF Alike
  <2>. QED  BY <2>2
<1>4. ASSUME NEW i \in DOMAIN s.rels PROVE JoinsOf(t, t.rels[i]) = JoinsOf(s, s.rels[i])
  <2>1. \A u, rel : JoinsOf(u, rel) =
            {j \in Ends(u) \ {rel.from, rel.to} : {rel.from, rel.to} \subseteq ParentsOf(u, j)}
    BY DEF JoinsOf, Ends
  <2>2. t.rels[i].from = s.rels[i].from /\ t.rels[i].to = s.rels[i].to
    BY DEF Alike
  <2>. DEFINE two == {s.rels[i].from, s.rels[i].to}
  <2>3. /\ JoinsOf(t, t.rels[i]) = {j \in Ends(t) \ two : two \subseteq ParentsOf(t, j)}
        /\ JoinsOf(s, s.rels[i]) = {j \in Ends(s) \ two : two \subseteq ParentsOf(s, j)}
    BY <2>1, <2>2
  <2>. HIDE DEF two
  <2>. QED  BY <1>2, <1>3, <2>3
<1>. QED  BY <1>4 DEF Redundant, Alike

Settled(s) ==
    EntitiesCompile(s) /\ RelationshipsApart(s) /\ RedundantManyToMany(s) = <<>>

\* Relationships and the names of entities decide it.
LEMMA SettledAlike ==
    ASSUME NEW s \in Schema, NEW t \in Schema, Alike(s.rels, t.rels), Settled(s),
           DOMAIN t.entities = DOMAIN s.entities,
           \A i \in DOMAIN s.entities : t.entities[i].name = s.entities[i].name
    PROVE  Settled(t)
<1>1. EntityNames(t) = EntityNames(s)
  BY DEF EntityNames
<1>2. EntitiesCompile(t)
  BY <1>1 DEF Settled, EntitiesCompile
<1>3. GeneratingSides(t) = GeneratingSides(s)
  BY SidesAlike
<1>4. \A r \in Range(t.rels) : {r.from, r.to} \subseteq EntityNames(t) /\ r.type \in RelationshipType
  <2>1. \A k \in DOMAIN s.rels : {s.rels[k].from, s.rels[k].to} \subseteq EntityNames(s)
                                    /\ s.rels[k].type \in RelationshipType
    BY DEF Settled, RelationshipsApart, Range
  <2>. QED  BY <1>1, <2>1 DEF Alike, Range
<1>5. RelationshipsApart(t)
  BY <1>3, <1>4 DEF Settled, RelationshipsApart
<1>6. RedundantManyToMany(t) = <<>>
  BY RedundantAlike, RedundantIs DEF Settled, Alike
<1>. QED  BY <1>2, <1>5, <1>6 DEF Settled

LEMMA NoClash ==
    ASSUME NEW s \in Schema, RelationshipsApart(s), NEW d, NEW c
    PROVE  ~Clash(s, d, c)
<1>. SUFFICES ASSUME Clash(s, d, c) PROVE FALSE
  OBVIOUS
<1>1. d \in GeneratingSides(s) /\ c \in GeneratingSides(s) /\ d.entity = c.entity /\ c.rel < d.rel
      /\ GivenNames(d) \cap GivenNames(c) # {}
  BY DEF Clash
<1>2. c.rel \in Nat /\ d.rel \in Nat
  BY <1>1, OtherSide, SchemaParts DEF SideRecord
<1>3. c.rel # d.rel
  BY <1>1, <1>2
<1>. QED  BY <1>1, <1>3 DEF RelationshipsApart

LEMMA SettledStays ==
    ASSUME NEW s \in Schema, NEW t \in Schema, Mends(s, t), Settled(s)
    PROVE  Settled(t)
<1>1. CASE FreesName(s, t)
  BY <1>1 DEF FreesName, Settled, EntitiesCompile, EntityNames
<1>2. CASE MendsEntity(s, t)
  <2>1. /\ t.rels = s.rels /\ DOMAIN t.entities = DOMAIN s.entities
        /\ \A i \in DOMAIN s.entities : t.entities[i].name = s.entities[i].name
    BY <1>2, MendsEntityEdits, EntityEditParts
  <2>2. Alike(s.rels, t.rels)
    BY <2>1 DEF Alike
  <2>. QED  BY <2>1, <2>2, SettledAlike
<1>3. CASE RetypesRel(s, t)
  <2>1. PICK i \in DOMAIN s.rels : s.rels[i].type \in DOMAIN RelationshipAlias
    BY <1>3 DEF RetypesRel
  <2>2. s.rels[i].type \in RelationshipType
    BY DEF Settled, RelationshipsApart, Range
  <2>. QED  BY <2>1, <2>2 DEF RelationshipType, RelationshipAlias
<1>4. CASE MovesEnd(s, t)
  <2>1. PICK i \in DOMAIN s.rels : s.rels[i].from \notin EntityNames(s) \/ s.rels[i].to \notin EntityNames(s)
    BY <1>4 DEF MovesEnd
  <2>2. {s.rels[i].from, s.rels[i].to} \subseteq EntityNames(s)
    BY DEF Settled, RelationshipsApart, Range
  <2>. QED  BY <2>1, <2>2
<1>5. CASE NamesRel(s, t) \/ StopsInverse(s, t)
  <2>1. \E d, c : Clash(s, d, c)
    BY <1>5 DEF NamesRel, StopsInverse
  <2>. QED  BY <2>1, NoClash DEF Settled
<1>6. CASE MakesOptional(s, t)
  <2>1. PICK i \in DOMAIN s.rels : t = WithRel(s, i, [s.rels[i] EXCEPT !.nullable = TRUE])
    BY <1>6 DEF MakesOptional
  <2>. DEFINE r == [s.rels[i] EXCEPT !.nullable = TRUE]
  <2>2. /\ r.from = s.rels[i].from /\ r.to = s.rels[i].to /\ r.type = s.rels[i].type
        /\ r.toName = s.rels[i].toName /\ r.bi = s.rels[i].bi
    BY SchemaParts DEF RelRecord
  <2>3. t = WithRel(s, i, r)
    BY <2>1
  <2>. HIDE DEF r
  <2>4. t.entities = s.entities /\ t.rels = [s.rels EXCEPT ![i] = r]
    BY <2>3 DEF WithRel, Schema
  <2>5. Alike(s.rels, t.rels)
    BY <2>2, <2>4, SchemaParts DEF Alike
  <2>. QED  BY <2>4, <2>5, SettledAlike
<1>7. CASE DropsRel(s, t)
  BY <1>7 DEF DropsRel, Settled
<1>. QED  BY <1>1, <1>2, <1>3, <1>4, <1>5, <1>6, <1>7, MendsKinds DEF MendsRel

LEMMA NoClashLeft ==
    ASSUME NEW s \in Schema, RelationshipsApart(s)
    PROVE  Range(RelationshipPropertyClashes(s, Generated(s.rels))) = {}
<1>1. \A d, c \in GeneratingSides(s) :
        d.entity = c.entity /\ d.rel # c.rel => GivenNames(d) \cap GivenNames(c) = {}
  BY DEF RelationshipsApart
<1>. QED  BY <1>1, ClashesExact, Zenon DEF Detects

-----------------------------------------------------------------------------
(* Along the passes of fixSchema.                                          *)

\* What the copy has of the schema that is being fixed.
FixInv ==
    mode = "fixing" =>
        /\ (/\ \A f \in Errors(schema) : f.fixable
            /\ EntityNames(schema) \cap Reserved = {} \/ Ends(schema) \subseteq EntityNames(schema)
            /\ Len(schema.entities) <= Len(Numeral))
                => Mendable(working)
        /\ Settled(schema) => Settled(working)

LEMMA FixInvStep ==
    ASSUME SchemaInv, FixInv, [Next]_vars
    PROVE  FixInv'
<1>1. schema \in Schema /\ working \in Schema
  BY DEF SchemaInv, TypeOK
<1>2. CASE StartFix
  <2>1. working' = schema /\ schema' = schema
    BY <1>2 DEF StartFix
  <2>. QED  BY <1>1, <2>1, GivenMendable DEF FixInv
<1>3. CASE FixPass
  <2>1. /\ mode = "fixing" /\ ~Fixed(working) /\ schema' = schema
        /\ working' \in Findings(working)[NextFix(Findings(working))].fixed
    BY <1>3 DEF FixPass
  <2>2. Mends(working, working') /\ working' \in Schema
    BY <1>1, <2>1, PassMends
  <2>3. Mendable(working) => Mendable(working')
    BY <1>1, <2>2, MendableStays
  <2>4. Settled(working) => Settled(working')
    BY <1>1, <2>2, SettledStays
  <2>. QED  BY <2>1, <2>3, <2>4 DEF FixInv
<1>4. CASE UNCHANGED vars
  BY <1>4 DEF vars, FixInv
<1>5. CASE FixDone \/ Commit \/ Reject
  BY <1>5 DEF FixDone, Commit, Reject, FixInv
<1>6. CASE EditEntities \/ EditRelationships \/ \E i \in Addressable : EditFields(i)
  <2>1. mode' = "committing"
    BY <1>6 DEF EditEntities, AddEntity, RemoveEntity, RenameEntity, EditRelationships,
           AddRelationship, RemoveRelationship, EditFields, AddField, UpdateField,
           RenameField, RemoveField, AddIndex, Propose
  <2>. QED  BY <2>1 DEF FixInv
<1>. QED  BY <1>2, <1>3, <1>4, <1>5, <1>6 DEF Next

LEMMA FixInvCleans ==
    ASSUME SchemaInv, FixInv, Len(schema.entities) <= Len(Numeral)
    PROVE  FixCleans
<1>. SUFFICES ASSUME mode = "fixing", Fixed(working), \A f \in Errors(schema) : f.fixable,
                     EntityNames(schema) \cap Reserved = {} \/ Ends(schema) \subseteq EntityNames(schema)
              PROVE  /\ \A f \in Errors(working) : f.rule = "RELATIONSHIP_PROPERTY_CLASH"
                     /\ Settled(schema) => Errors(working) = {}
  BY SidesApart DEF FixCleans, Settled
<1>1. working \in Schema /\ Mendable(working) /\ (Settled(schema) => Settled(working))
  BY DEF SchemaInv, TypeOK, FixInv
<1>. DEFINE clashes == RelationshipPropertyClashes(working, Generated(working.rels))
<1>2. Errors(working) \subseteq Range(clashes)
  BY <1>1, OnlyClashesLeft
<1>3. \A f \in Range(clashes) : f.rule = "RELATIONSHIP_PROPERTY_CLASH"
  BY <1>1, RelationshipPropertyClashesMended
<1>4. Settled(working) => Range(clashes) = {}
  BY <1>1, NoClashLeft DEF Settled
<1>. HIDE DEF clashes
<1>. QED  BY <1>1, <1>2, <1>3, <1>4

\* "Applies every mechanical fix": if each error of a schema has a fix, what
\* fixSchema returns when nothing is left to fix has no error, or only clashes of
\* relationship properties, and none where relationships were right, for any
\* schema and any number of passes; provided there are numbers to tell as many
\* names apart as there are entities, and the code does not run out of them.
\* (lint.ts 27-45, rules.ts 115-121)
THEOREM FixingCleans ==
    Spec => [](Len(schema.entities) <= Len(Numeral) => FixCleans)
<1>1. Init => FixInv
  BY DEF Init, FixInv
<1>2. SchemaInv /\ FixInv /\ [Next]_vars => FixInv'
  BY FixInvStep
<1>3. SchemaInv /\ FixInv => (Len(schema.entities) <= Len(Numeral) => FixCleans)
  BY FixInvCleans
<1>. QED  BY <1>1, <1>2, <1>3, SchemaInvHolds, PTL DEF Spec

-----------------------------------------------------------------------------
(* Fixing ends: no fix brings back what another one removed.               *)

\* A pass of fixSchema makes t of s.
Pass(s, t) == ~Fixed(s) /\ t \in Findings(s)[NextFix(Findings(s))].fixed

\* Passes that go on for ever, as the schemas they pass through.
Endless(B) == B # {} /\ B \subseteq Schema /\ \A s \in B : \E t \in B : Pass(s, t)

LEMMA PassIs ==
    ASSUME NEW s \in Schema, NEW t, Pass(s, t)
    PROVE  Mends(s, t) /\ t \in Schema /\ \A u : Pass(s, u) => u = t
BY PassMends DEF Pass

\* A number that no pass raises stays the same in the end.
LEMMA Settles ==
    ASSUME NEW B, Endless(B), NEW m \in [B -> Nat],
           \A s, t \in B : Pass(s, t) => m[t] <= m[s]
    PROVE  \E C \in SUBSET B : Endless(C) /\ \A s, t \in C : m[s] = m[t]
<1>. DEFINE P == {m[s] : s \in B}
<1>1. P # {} /\ P \subseteq Nat
  BY DEF Endless
<1>2. PICK n \in P : \A k \in P : n <= k
  <2>. HIDE DEF P
  <2>. QED  BY <1>1, LeastOf
<1>. DEFINE C == {s \in B : m[s] = n}
<1>3. C # {} /\ C \subseteq Schema
  BY <1>2 DEF Endless
<1>4. ASSUME NEW s \in C PROVE \E t \in C : Pass(s, t)
  <2>1. PICK t \in B : Pass(s, t)
    BY DEF Endless
  <2>2. m[t] <= n /\ n <= m[t] /\ m[t] \in Nat /\ n \in Nat
    BY <1>1, <1>2, <2>1
  <2>3. m[t] = n
    BY <2>2
  <2>. QED  BY <2>1, <2>3
<1>5. Endless(C)
  BY <1>3, <1>4 DEF Endless
<1>. QED  BY <1>5

LEMMA FiniteFamily ==
    ASSUME NEW S, IsFiniteSet(S), NEW f, DOMAIN f = S, \A i \in S : IsFiniteSet(f[i])
    PROVE  IsFiniteSet(UNION Range(f))
<1>. DEFINE g == [i \in S |-> f[i]]
<1>1. g \in [S -> Range(f)] /\ \A e \in Range(f) : \E i \in S : g[i] = e
  BY DEF Range
<1>. HIDE DEF g
<1>2. g \in Surjection(S, Range(f))
  BY <1>1 DEF Surjection
<1>3. IsFiniteSet(Range(f))
  BY <1>2, FS_Surjection
<1>4. \A e \in Range(f) : IsFiniteSet(e)
  BY DEF Range
<1>. QED  BY <1>3, <1>4, FS_UNION

LEMMA PlacesFinite ==
    ASSUME NEW s \in Schema
    PROVE  IsFiniteSet(FieldPlaces(s)) /\ IsFiniteSet(IndexPlaces(s))
<1>. DEFINE n == Len(s.entities)
            fields == [i \in 1..n |-> {i} \X DOMAIN s.entities[i].fields]
            indexes == [i \in 1..n |-> {i} \X DOMAIN s.entities[i].indexes]
<1>1. n \in Nat /\ DOMAIN s.entities = 1..n
  BY SchemaParts
<1>2. ASSUME NEW i \in 1..n PROVE IsFiniteSet(fields[i]) /\ IsFiniteSet(indexes[i])
  <2>. DEFINE a == DOMAIN s.entities[i].fields
              b == DOMAIN s.entities[i].indexes
  <2>1. IsFiniteSet(a) /\ IsFiniteSet(b)
    <3>1. s.entities[i] \in EntityRecord
      BY <1>1, SchemaParts
    <3>2. /\ a = 1..Len(s.entities[i].fields) /\ Len(s.entities[i].fields) \in Nat
          /\ b = 1..Len(s.entities[i].indexes) /\ Len(s.entities[i].indexes) \in Nat
      BY <3>1, EntityParts
    <3>3. \A k \in Nat : IsFiniteSet(1..k)
      BY FS_Interval
    <3>. HIDE DEF a, b
    <3>. QED  BY <3>2, <3>3
  <2>2. IsFiniteSet({i})
    BY FS_Singleton
  <2>. HIDE DEF a, b
  <2>3. IsFiniteSet({i} \X a) /\ IsFiniteSet({i} \X b)
    BY <2>1, <2>2, FS_Product
  <2>. QED  BY <2>3 DEF a, b
<1>3. FieldPlaces(s) \subseteq UNION Range(fields) /\ IndexPlaces(s) \subseteq UNION Range(indexes)
  BY <1>1 DEF FieldPlaces, IndexPlaces, Range
<1>. HIDE DEF n
<1>4. /\ DOMAIN fields = 1..n /\ DOMAIN indexes = 1..n
      /\ \A i \in 1..n : IsFiniteSet(fields[i]) /\ IsFiniteSet(indexes[i])
  BY <1>2
<1>. HIDE DEF fields, indexes
<1>5. IsFiniteSet(1..n)
  BY <1>1, FS_Interval
<1>6. IsFiniteSet(UNION Range(fields)) /\ IsFiniteSet(UNION Range(indexes))
  BY <1>4, <1>5, FiniteFamily
<1>. QED  BY <1>3, <1>6, FS_Subset

LEMMA FreesNameParts ==
    ASSUME NEW s \in Schema, NEW t, FreesName(s, t)
    PROVE  /\ DOMAIN t.entities = DOMAIN s.entities
           /\ DOMAIN t.rels = DOMAIN s.rels
           /\ \A k \in DOMAIN s.entities :
                /\ t.entities[k].fields = s.entities[k].fields
                /\ t.entities[k].indexes = s.entities[k].indexes
                /\ \/ t.entities[k].name = s.entities[k].name
                   \/ t.entities[k].name \notin Reserved \cup {NoName}
           /\ \E i \in DOMAIN s.entities :
                s.entities[i].name \in Reserved /\ t.entities[i].name \notin Reserved
           /\ \A k \in DOMAIN s.rels :
                \A n \in {t.rels[k].from, t.rels[k].to} :
                    n # NoName \/ n \in {s.rels[k].from, s.rels[k].to}
<1>1. PICK i \in DOMAIN s.entities :
        /\ s.entities[i].name \in Reserved
        /\ t = RenamedEntity(s, i, FreeName(Append(PascalCase(s.entities[i].name), "Record"),
                                            EntityNames(s)))
  BY DEF FreesName
<1>. DEFINE old == s.entities[i].name
            base == Append(PascalCase(old), "Record")
            taken == EntityNames(s)
            to == FreeName(base, taken)
            follow(n) == IF n = old THEN to ELSE n
            e == [s.entities[i] EXCEPT !.name = to]
            moved(r) == [r EXCEPT !.from = follow(r.from), !.to = follow(r.to)]
<1>2. old \in Name /\ s.entities[i] \in EntityRecord
  BY SchemaParts, EntityParts
<1>3. base \in Name /\ base # NoName
  <2>1. "Record" \in Token /\ PascalCase(old) \in Seq(Token)
    BY <1>2, RulesAssumption, PascalCaseType DEF Name
  <2>. HIDE DEF old
  <2>2. base \in Seq(Token) /\ Len(base) > 0
    BY <2>1
  <2>. QED  BY <2>2 DEF Name, NoName
<1>4. to \notin Reserved
  <2>1. base \notin Reserved /\ \A numeral \in Range(Numeral) : Append(base, numeral) \notin Reserved
    BY <1>1, RulesAssumption
  <2>. DEFINE free == {n \in DOMAIN Numeral : Append(base, Numeral[n]) \notin taken}
  <2>2. CASE base \notin taken \/ free = {}
    BY <2>1, <2>2 DEF FreeName
  <2>3. CASE ~(base \notin taken \/ free = {})
    <3>1. to = Append(base, Numeral[Min(free)])
      BY <2>3 DEF FreeName
    <3>2. Min(free) \in free
      <4>1. free # {} /\ free \subseteq Nat
        BY <2>3, NamingAssumption
      <4>. HIDE DEF free
      <4>. QED  BY <4>1, FirstOf
    <3>3. Numeral[Min(free)] \in Range(Numeral)
      BY <3>2 DEF Range
    <3>. QED  BY <2>1, <3>1, <3>3
  <2>. QED  BY <2>2, <2>3
<1>5. to # NoName
  <2>1. Len(to) >= Len(base) /\ Len(base) > 0 /\ Len(base) \in Nat /\ Len(to) \in Nat
    <3>1. base \in Seq(Token) /\ base # <<>>
      BY <1>3 DEF Name, NoName
    <3>2. Len(base) > 0
      BY <3>1
    <3>. QED  BY <1>3, <3>2, FreeNameLength
  <2>. QED  BY <2>1 DEF NoName
<1>6. /\ t.entities = [s.entities EXCEPT ![i] = e]
      /\ t.rels = [k \in DOMAIN s.rels |-> moved(s.rels[k])]
  BY <1>1 DEF RenamedEntity, Each
<1>. HIDE DEF to, old
<1>7. e.name = to /\ e.fields = s.entities[i].fields /\ e.indexes = s.entities[i].indexes
  BY <1>2 DEF EntityRecord
<1>. HIDE DEF e
<1>8. /\ DOMAIN t.entities = DOMAIN s.entities /\ t.entities[i] = e
      /\ \A k \in DOMAIN s.entities : k # i => t.entities[k] = s.entities[k]
  BY <1>6, SchemaParts
<1>9. ASSUME NEW k \in DOMAIN s.rels, NEW n \in {t.rels[k].from, t.rels[k].to}
      PROVE  n # NoName \/ n \in {s.rels[k].from, s.rels[k].to}
  <2>1. s.rels[k] \in RelRecord
    BY SchemaParts
  <2>2. t.rels[k].to = follow(s.rels[k].to) /\ t.rels[k].from = follow(s.rels[k].from)
    <3>. DEFINE r == s.rels[k]
                end == follow(r.to)
                start == follow(r.from)
    <3>1. t.rels[k] = [r EXCEPT !.from = start, !.to = end]
      BY <1>6
    <3>. HIDE DEF r, end, start
    <3>2. t.rels[k].to = end /\ t.rels[k].from = start
      BY <2>1, <3>1 DEF RelRecord, r
    <3>. QED  BY <3>2 DEF end, start, r
  <2>. QED  BY <1>5, <2>2
<1>. QED  BY <1>1, <1>4, <1>5, <1>6, <1>7, <1>8, <1>9

-----------------------------------------------------------------------------
(* Reserved names, relationships, fields and indexes only get fewer.       *)

ReservedAt(s) == {i \in DOMAIN s.entities : s.entities[i].name \in Reserved}

Parts(s) ==
    Cardinality(ReservedAt(s)) + Len(s.rels)
        + Cardinality(FieldPlaces(s)) + Cardinality(IndexPlaces(s))

\* The fixes that take none away.
MendsInPlace(s, t) ==
    \/ RetypesField(s, t) \/ RenamesField(s, t) \/ DropsColumns(s, t)
    \/ MendsRel(s, t)

LEMMA PartsAre ==
    ASSUME NEW s \in Schema
    PROVE  /\ IsFiniteSet(ReservedAt(s)) /\ Cardinality(ReservedAt(s)) \in Nat
           /\ Len(s.rels) \in Nat
           /\ Cardinality(FieldPlaces(s)) \in Nat /\ Cardinality(IndexPlaces(s)) \in Nat
           /\ Parts(s) \in Nat
<1>1. ReservedAt(s) \in SUBSET (1..Len(s.entities)) /\ Len(s.entities) \in Nat /\ Len(s.rels) \in Nat
  BY SchemaParts DEF ReservedAt
<1>2. IsFiniteSet(1..Len(s.entities))
  BY <1>1, FS_Interval
<1>3. IsFiniteSet(ReservedAt(s)) /\ IsFiniteSet(FieldPlaces(s)) /\ IsFiniteSet(IndexPlaces(s))
  BY <1>1, <1>2, FS_Subset, PlacesFinite
<1>4. /\ Cardinality(ReservedAt(s)) \in Nat
      /\ Cardinality(FieldPlaces(s)) \in Nat /\ Cardinality(IndexPlaces(s)) \in Nat
  BY <1>3, FS_CardinalityType
<1>. QED  BY <1>1, <1>3, <1>4 DEF Parts

LEMMA FewerParts ==
    ASSUME NEW s \in Schema, NEW t \in Schema,
           ReservedAt(t) \subseteq ReservedAt(s), Len(t.rels) <= Len(s.rels),
           FieldPlaces(t) \subseteq FieldPlaces(s), IndexPlaces(t) \subseteq IndexPlaces(s)
    PROVE  /\ Parts(t) <= Parts(s)
           /\ Parts(t) = Parts(s) =>
                /\ ReservedAt(t) = ReservedAt(s) /\ Len(t.rels) = Len(s.rels)
                /\ FieldPlaces(t) = FieldPlaces(s) /\ IndexPlaces(t) = IndexPlaces(s)
<1>1. /\ Cardinality(ReservedAt(t)) <= Cardinality(ReservedAt(s))
      /\ Cardinality(ReservedAt(t)) = Cardinality(ReservedAt(s)) => ReservedAt(t) = ReservedAt(s)
  BY PartsAre, FS_Subset
<1>2. /\ Cardinality(FieldPlaces(t)) <= Cardinality(FieldPlaces(s))
      /\ Cardinality(FieldPlaces(t)) = Cardinality(FieldPlaces(s)) => FieldPlaces(t) = FieldPlaces(s)
  BY PlacesFinite, FS_Subset
<1>3. /\ Cardinality(IndexPlaces(t)) <= Cardinality(IndexPlaces(s))
      /\ Cardinality(IndexPlaces(t)) = Cardinality(IndexPlaces(s)) => IndexPlaces(t) = IndexPlaces(s)
  BY PlacesFinite, FS_Subset
<1>. DEFINE a(u) == Cardinality(ReservedAt(u))
            b(u) == Cardinality(FieldPlaces(u))
            c(u) == Cardinality(IndexPlaces(u))
            l(u) == Len(u.rels)
<1>4. /\ a(s) \in Nat /\ b(s) \in Nat /\ c(s) \in Nat /\ l(s) \in Nat
      /\ a(t) \in Nat /\ b(t) \in Nat /\ c(t) \in Nat /\ l(t) \in Nat
  BY PartsAre
<1>5. Parts(s) = a(s) + l(s) + b(s) + c(s) /\ Parts(t) = a(t) + l(t) + b(t) + c(t)
  BY DEF Parts
<1>6. a(t) <= a(s) /\ l(t) <= l(s) /\ b(t) <= b(s) /\ c(t) <= c(s)
  BY <1>1, <1>2, <1>3
<1>. HIDE DEF a, b, c, l
<1>7. /\ Parts(t) <= Parts(s)
      /\ Parts(t) = Parts(s) => a(t) = a(s) /\ l(t) = l(s) /\ b(t) = b(s) /\ c(t) = c(s)
  BY <1>4, <1>5, <1>6
<1>. QED  BY <1>1, <1>2, <1>3, <1>7 DEF a, b, c, l

LEMMA PlacesShrink ==
    ASSUME NEW s \in Schema, NEW t \in Schema, DOMAIN t.entities = DOMAIN s.entities,
           \A k \in DOMAIN s.entities :
                /\ Len(t.entities[k].fields) <= Len(s.entities[k].fields)
                /\ Len(t.entities[k].indexes) <= Len(s.entities[k].indexes)
    PROVE  /\ FieldPlaces(t) \subseteq FieldPlaces(s) /\ IndexPlaces(t) \subseteq IndexPlaces(s)
           /\ \A k \in DOMAIN s.entities :
                /\ Len(t.entities[k].fields) # Len(s.entities[k].fields)
                        => FieldPlaces(t) # FieldPlaces(s)
                /\ Len(t.entities[k].indexes) # Len(s.entities[k].indexes)
                        => IndexPlaces(t) # IndexPlaces(s)
<1>1. ASSUME NEW k \in DOMAIN s.entities
      PROVE  /\ DOMAIN s.entities[k].fields = 1..Len(s.entities[k].fields)
             /\ DOMAIN t.entities[k].fields = 1..Len(t.entities[k].fields)
             /\ DOMAIN s.entities[k].indexes = 1..Len(s.entities[k].indexes)
             /\ DOMAIN t.entities[k].indexes = 1..Len(t.entities[k].indexes)
             /\ Len(s.entities[k].fields) \in Nat /\ Len(t.entities[k].fields) \in Nat
             /\ Len(s.entities[k].indexes) \in Nat /\ Len(t.entities[k].indexes) \in Nat
  <2>1. s.entities[k] \in EntityRecord /\ t.entities[k] \in EntityRecord
    BY SchemaParts
  <2>. QED  BY <2>1, EntityParts
<1>2. FieldPlaces(t) \subseteq FieldPlaces(s)
  <2>1. \A k \in DOMAIN s.entities : DOMAIN t.entities[k].fields \subseteq DOMAIN s.entities[k].fields
    BY <1>1
  <2>. QED  BY <2>1 DEF FieldPlaces
<1>3. IndexPlaces(t) \subseteq IndexPlaces(s)
  <2>1. \A k \in DOMAIN s.entities : DOMAIN t.entities[k].indexes \subseteq DOMAIN s.entities[k].indexes
    BY <1>1
  <2>. QED  BY <2>1 DEF IndexPlaces
<1>4. ASSUME NEW k \in DOMAIN s.entities, Len(t.entities[k].fields) # Len(s.entities[k].fields)
      PROVE  FieldPlaces(t) # FieldPlaces(s)
  <2>. DEFINE n == Len(s.entities[k].fields)
              p == <<k, n>>
  <2>1. n \in Nat /\ n \in DOMAIN s.entities[k].fields /\ n \notin DOMAIN t.entities[k].fields
    BY <1>1, <1>4
  <2>. HIDE DEF n
  <2>2. p \in FieldPlaces(s) /\ p \notin FieldPlaces(t)
    BY <2>1 DEF FieldPlaces
  <2>. QED  BY <2>2
<1>5. ASSUME NEW k \in DOMAIN s.entities, Len(t.entities[k].indexes) # Len(s.entities[k].indexes)
      PROVE  IndexPlaces(t) # IndexPlaces(s)
  <2>. DEFINE n == Len(s.entities[k].indexes)
              p == <<k, n>>
  <2>1. n \in Nat /\ n \in DOMAIN s.entities[k].indexes /\ n \notin DOMAIN t.entities[k].indexes
    BY <1>1, <1>5
  <2>. HIDE DEF n
  <2>2. p \in IndexPlaces(s) /\ p \notin IndexPlaces(t)
    BY <2>1 DEF IndexPlaces
  <2>. QED  BY <2>2
<1>. QED  BY <1>2, <1>3, <1>4, <1>5

\* Names are not empty, and there are numbers enough for all the members that
\* the fields and relationships of the schema give a class.
EnoughNumerals(s) ==
    \A i \in DOMAIN s.entities :
        Len(s.entities[i].fields) + 4 * Len(s.rels) <= Len(Numeral)

Named(s) == NoName \notin EntityNames(s) \cup Ends(s)

LEMMA DropsRelParts ==
    ASSUME NEW s \in Schema, NEW t, DropsRel(s, t)
    PROVE  /\ t.entities = s.entities /\ Len(t.rels) < Len(s.rels)
           /\ \A k \in DOMAIN t.rels : \E i \in DOMAIN s.rels : t.rels[k] = s.rels[i]
<1>1. PICK i \in DOMAIN s.rels : t = [s EXCEPT !.rels = RemoveAt(s.rels, i)]
  BY DEF DropsRel
<1>2. t.entities = s.entities /\ t.rels = RemoveAt(s.rels, i)
  BY <1>1 DEF Schema
<1>3. Len(RemoveAt(s.rels, i)) < Len(s.rels)
  BY SchemaParts, RemoveAtShorter
<1>4. s.rels \in Seq(Range(s.rels))
  BY SchemaParts DEF Range
<1>5. RemoveAt(s.rels, i) \in Seq(Range(s.rels))
  BY <1>4, RemoveAtType
<1>6. \A k \in DOMAIN t.rels : t.rels[k] \in Range(s.rels)
  BY <1>2, <1>5
<1>. QED  BY <1>2, <1>3, <1>6 DEF Range

LEMMA MendsParts ==
    ASSUME NEW s \in Schema, NEW t \in Schema, Mends(s, t)
    PROVE  /\ Parts(t) <= Parts(s)
           /\ Parts(t) = Parts(s) =>
                MendsInPlace(s, t) /\ ReservedAt(t) = ReservedAt(s) /\ Len(t.rels) = Len(s.rels)
<1>0. Len(s.rels) \in Nat /\ Len(t.rels) \in Nat
  BY SchemaParts
<1>1. CASE FreesName(s, t)
  <2>1. /\ FieldPlaces(t) = FieldPlaces(s) /\ IndexPlaces(t) = IndexPlaces(s)
        /\ ReservedAt(t) \subseteq ReservedAt(s) /\ ReservedAt(t) # ReservedAt(s)
    BY <1>1, FreesNameParts DEF FieldPlaces, IndexPlaces, ReservedAt
  <2>2. Len(t.rels) = Len(s.rels)
    BY <1>1, FreesNameParts, SchemaParts
  <2>. QED  BY <1>0, <2>1, <2>2, FewerParts
<1>2. CASE MendsEntity(s, t)
  <2>1. EntityEdit(s, t)
    BY <1>2, MendsEntityEdits
  <2>2. /\ t.rels = s.rels /\ DOMAIN t.entities = DOMAIN s.entities
        /\ \A k \in DOMAIN s.entities :
            /\ t.entities[k].name = s.entities[k].name
            /\ Len(t.entities[k].fields) <= Len(s.entities[k].fields)
            /\ Len(t.entities[k].indexes) <= Len(s.entities[k].indexes)
    BY <2>1, EntityEditParts
  <2>3. ReservedAt(t) = ReservedAt(s)
    BY <2>2 DEF ReservedAt
  <2>4. /\ FieldPlaces(t) \subseteq FieldPlaces(s) /\ IndexPlaces(t) \subseteq IndexPlaces(s)
        /\ \A k \in DOMAIN s.entities :
            /\ Len(t.entities[k].fields) # Len(s.entities[k].fields)
                    => FieldPlaces(t) # FieldPlaces(s)
            /\ Len(t.entities[k].indexes) # Len(s.entities[k].indexes)
                    => IndexPlaces(t) # IndexPlaces(s)
    BY <2>2, PlacesShrink
  <2>5. CASE DropsFields(s, t)
    <3>1. PICK i \in DOMAIN s.entities, fields \in Seq(FieldRecord) :
            /\ Len(fields) < Len(s.entities[i].fields)
            /\ t = WithEntity(s, i, [s.entities[i] EXCEPT !.fields = fields])
      BY <2>5 DEF DropsFields
    <3>2. t.entities[i].fields = fields
      BY <3>1, SchemaParts DEF WithEntity, Schema, EntityRecord
    <3>3. Len(t.entities[i].fields) # Len(s.entities[i].fields)
      <4>1. Len(fields) \in Nat /\ Len(s.entities[i].fields) \in Nat
        BY SchemaParts, EntityParts
      <4>. QED  BY <3>1, <3>2, <4>1
    <3>. QED  BY <1>0, <2>2, <2>3, <2>4, <3>3, FewerParts
  <2>6. CASE DropsIndex(s, t)
    <3>1. PICK p \in IndexPlaces(s) :
            t = WithEntity(s, p[1], [s.entities[p[1]] EXCEPT !.indexes =
                                        RemoveAt(s.entities[p[1]].indexes, p[2])])
      BY <2>6 DEF DropsIndex
    <3>. DEFINE i == p[1]
                indexes == RemoveAt(s.entities[i].indexes, p[2])
    <3>2. i \in DOMAIN s.entities /\ p[2] \in DOMAIN s.entities[i].indexes
      BY DEF IndexPlaces
    <3>3. t = WithEntity(s, i, [s.entities[i] EXCEPT !.indexes = indexes])
      BY <3>1
    <3>4. Len(indexes) # Len(s.entities[i].indexes)
      <4>1. s.entities[i].indexes \in Seq(IndexRecord)
        BY <3>2, SchemaParts, EntityParts
      <4>. QED  BY <3>2, <4>1, RemoveAtShorter
    <3>. HIDE DEF i, indexes
    <3>5. t.entities[i].indexes = indexes
      BY <3>2, <3>3, SchemaParts DEF WithEntity, Schema, EntityRecord
    <3>. QED  BY <1>0, <2>2, <2>3, <2>4, <3>2, <3>4, <3>5, FewerParts
  <2>7. CASE RetypesField(s, t) \/ RenamesField(s, t) \/ DropsColumns(s, t)
    BY <1>0, <2>2, <2>3, <2>4, <2>7, FewerParts DEF MendsInPlace
  <2>. QED  BY <1>2, <2>5, <2>6, <2>7 DEF MendsEntity
<1>3. CASE MendsRel(s, t)
  <2>1. t.entities = s.entities /\ Len(t.rels) = Len(s.rels)
    BY <1>3, MendsRelEdits, RelEditParts
  <2>2. /\ ReservedAt(t) = ReservedAt(s)
        /\ FieldPlaces(t) = FieldPlaces(s) /\ IndexPlaces(t) = IndexPlaces(s)
    BY <2>1 DEF ReservedAt, FieldPlaces, IndexPlaces
  <2>. QED  BY <1>0, <1>3, <2>1, <2>2, FewerParts DEF MendsInPlace
<1>4. CASE DropsRel(s, t)
  <2>1. t.entities = s.entities /\ Len(t.rels) < Len(s.rels)
    BY <1>4, DropsRelParts
  <2>2. /\ ReservedAt(t) = ReservedAt(s)
        /\ FieldPlaces(t) = FieldPlaces(s) /\ IndexPlaces(t) = IndexPlaces(s)
    BY <2>1 DEF ReservedAt, FieldPlaces, IndexPlaces
  <2>. QED  BY <1>0, <2>1, <2>2, FewerParts
<1>. QED  BY <1>1, <1>2, <1>3, <1>4, MendsKinds

LEMMA EnoughStays ==
    ASSUME NEW s \in Schema, NEW t \in Schema, DOMAIN t.entities = DOMAIN s.entities,
           \A k \in DOMAIN s.entities :
                Len(t.entities[k].fields) <= Len(s.entities[k].fields),
           Len(t.rels) <= Len(s.rels), EnoughNumerals(s)
    PROVE  EnoughNumerals(t)
<1>1. Len(s.rels) \in Nat /\ Len(t.rels) \in Nat /\ Len(Numeral) \in Nat
  BY SchemaParts, NamingAssumption
<1>2. ASSUME NEW k \in DOMAIN t.entities
      PROVE  Len(t.entities[k].fields) + 4 * Len(t.rels) <= Len(Numeral)
  <2>1. s.entities[k] \in EntityRecord /\ t.entities[k] \in EntityRecord
    BY <1>2, SchemaParts
  <2>2. Len(s.entities[k].fields) \in Nat /\ Len(t.entities[k].fields) \in Nat
    BY <2>1, EntityParts
  <2>3. Len(s.entities[k].fields) + 4 * Len(s.rels) <= Len(Numeral)
    BY <1>2 DEF EnoughNumerals
  <2>. DEFINE a == Len(s.entities[k].fields)
              b == Len(t.entities[k].fields)
              m == Len(s.rels)
              n == Len(t.rels)
              top == Len(Numeral)
  <2>4. /\ a \in Nat /\ b \in Nat /\ m \in Nat /\ n \in Nat /\ top \in Nat
        /\ b <= a /\ n <= m /\ a + 4 * m <= top
    BY <1>1, <1>2, <2>2, <2>3
  <2>. HIDE DEF a, b, m, n, top
  <2>5. b + 4 * n <= top
    BY <2>4
  <2>. QED  BY <2>5 DEF b, n, top
<1>. QED  BY <1>2 DEF EnoughNumerals

LEMMA MendsNamed ==
    ASSUME NEW s \in Schema, NEW t \in Schema, Mends(s, t), Named(s), EnoughNumerals(s)
    PROVE  Named(t) /\ EnoughNumerals(t)
<1>0. Len(s.rels) \in Nat /\ \A k \in DOMAIN s.entities : Len(s.entities[k].fields) \in Nat
  BY SchemaParts, EntityParts
<1>1. CASE FreesName(s, t)
  <2>1. /\ DOMAIN t.entities = DOMAIN s.entities /\ DOMAIN t.rels = DOMAIN s.rels
        /\ \A k \in DOMAIN s.entities :
            /\ t.entities[k].fields = s.entities[k].fields
            /\ t.entities[k].name = s.entities[k].name \/ t.entities[k].name # NoName
        /\ \A k \in DOMAIN s.rels :
            \A n \in {t.rels[k].from, t.rels[k].to} :
                n # NoName \/ n \in {s.rels[k].from, s.rels[k].to}
    BY <1>1, FreesNameParts
  <2>2. NoName \notin EntityNames(t)
    BY <2>1 DEF Named, EntityNames
  <2>3. NoName \notin Ends(t)
    <3>1. \A k \in DOMAIN s.rels : {s.rels[k].from, s.rels[k].to} \subseteq Ends(s)
      BY EndsOf
    <3>2. \A k \in DOMAIN t.rels : NoName \notin {t.rels[k].from, t.rels[k].to}
      BY <2>1, <3>1 DEF Named
    <3>. QED  BY <3>2 DEF Ends, Range
  <2>4. Len(t.rels) = Len(s.rels)
    BY <2>1, SchemaParts
  <2>. QED  BY <1>0, <2>1, <2>2, <2>3, <2>4, EnoughStays DEF Named
<1>2. CASE MendsEntity(s, t)
  <2>1. EntityEdit(s, t)
    BY <1>2, MendsEntityEdits
  <2>2. /\ t.rels = s.rels /\ DOMAIN t.entities = DOMAIN s.entities
        /\ EntityNames(t) = EntityNames(s)
        /\ \A k \in DOMAIN s.entities :
            Len(t.entities[k].fields) <= Len(s.entities[k].fields)
    BY <2>1, EntityEditParts
  <2>. QED  BY <1>0, <2>2, EnoughStays DEF Named, Ends
<1>3. CASE MendsRel(s, t)
  <2>1. /\ t.entities = s.entities /\ Len(t.rels) = Len(s.rels)
        /\ Ends(t) \subseteq Ends(s) \cup EntityNames(s)
    BY <1>3, MendsRelEdits, RelEditParts
  <2>2. EntityNames(t) = EntityNames(s)
    BY <2>1 DEF EntityNames
  <2>. QED  BY <1>0, <2>1, <2>2, EnoughStays DEF Named
<1>4. CASE DropsRel(s, t)
  <2>1. /\ t.entities = s.entities /\ Len(t.rels) < Len(s.rels)
        /\ \A k \in DOMAIN t.rels : \E i \in DOMAIN s.rels : t.rels[k] = s.rels[i]
    BY <1>4, DropsRelParts
  <2>2. EntityNames(t) = EntityNames(s)
    BY <2>1 DEF EntityNames
  <2>3. Ends(t) \subseteq Ends(s)
    <3>1. \A k \in DOMAIN s.rels : {s.rels[k].from, s.rels[k].to} \subseteq Ends(s)
      BY EndsOf
    <3>2. \A k \in DOMAIN t.rels : {t.rels[k].from, t.rels[k].to} \subseteq Ends(s)
      BY <2>1, <3>1
    <3>. QED  BY <3>2 DEF Ends, Range
  <2>4. Len(t.rels) <= Len(s.rels)
    BY <1>0, <2>1, SchemaParts
  <2>. QED  BY <1>0, <2>1, <2>2, <2>3, <2>4, EnoughStays DEF Named
<1>. QED  BY <1>1, <1>2, <1>3, <1>4, MendsKinds

-----------------------------------------------------------------------------
(* Columns, wrong types and unfinished relationships only get fewer.       *)

ColumnPlaces(s) ==
    {q \in IndexPlaces(s) \X Nat :
        q[2] \in DOMAIN s.entities[q[1][1]].indexes[q[1][2]].fields}

MistypedAt(s) == {p \in FieldPlaces(s) : Mistyped(Field(s, p))}

\* What fixes still can make of a relationship between entities of such names.
Undone(names, r) ==
    (IF r.type \in DOMAIN RelationshipAlias THEN {"type"} ELSE {})
    \cup (IF r.from \notin names THEN {"from"} ELSE {})
    \cup (IF r.to \notin names THEN {"to"} ELSE {})
    \cup (IF r.nullable THEN {} ELSE {"nullable"})
    \cup (IF r.bi = "no" THEN {} ELSE {"bi"})

Kinds == {"type", "from", "to", "nullable", "bi"}

UndoneAt(s) == {w \in (DOMAIN s.rels) \X Kinds : w[2] \in Undone(EntityNames(s), s.rels[w[1]])}

Todo(s) ==
    Cardinality(ColumnPlaces(s)) + Cardinality(MistypedAt(s)) + Cardinality(UndoneAt(s))

LEMMA ColumnPlacesFinite ==
    ASSUME NEW s \in Schema
    PROVE  IsFiniteSet(ColumnPlaces(s))
<1>. DEFINE P == IndexPlaces(s)
            columns(p) == DOMAIN s.entities[p[1]].indexes[p[2]].fields
            f == [p \in P |-> {p} \X columns(p)]
<1>1. IsFiniteSet(P)
  BY PlacesFinite
<1>2. ASSUME NEW p \in P PROVE IsFiniteSet(f[p])
  <2>1. p[1] \in DOMAIN s.entities /\ p[2] \in DOMAIN s.entities[p[1]].indexes
    BY DEF IndexPlaces
  <2>2. s.entities[p[1]].indexes[p[2]] \in IndexRecord
    BY <2>1, SchemaParts, EntityParts
  <2>. DEFINE n == Len(s.entities[p[1]].indexes[p[2]].fields)
  <2>3. n \in Nat /\ columns(p) = 1..n
    BY <2>2 DEF IndexRecord
  <2>. HIDE DEF columns, n, P
  <2>4. IsFiniteSet(columns(p))
    BY <2>3, FS_Interval
  <2>5. IsFiniteSet({p} \X columns(p))
    BY <2>4, FS_Singleton, FS_Product
  <2>. QED  BY <2>5
<1>3. ColumnPlaces(s) \subseteq UNION Range(f)
  <2>1. ASSUME NEW q \in ColumnPlaces(s) PROVE q[1] \in P /\ q \in {q[1]} \X columns(q[1])
    <3>1. q[1] \in P /\ q[2] \in columns(q[1]) /\ q = <<q[1], q[2]>>
      BY DEF ColumnPlaces
    <3>. HIDE DEF P, columns
    <3>. QED  BY <3>1
  <2>. HIDE DEF P, columns
  <2>. QED  BY <2>1 DEF Range
<1>4. DOMAIN f = P
  OBVIOUS
<1>. HIDE DEF f, P
<1>5. IsFiniteSet(UNION Range(f))
  BY <1>1, <1>2, <1>4, FiniteFamily
<1>. QED  BY <1>3, <1>5, FS_Subset

LEMMA FewerTodo ==
    ASSUME NEW s \in Schema, NEW t \in Schema, ColumnPlaces(t) \subseteq ColumnPlaces(s),
           MistypedAt(t) \subseteq MistypedAt(s), UndoneAt(t) \subseteq UndoneAt(s)
    PROVE  /\ Todo(s) \in Nat /\ Todo(t) <= Todo(s)
           /\ Todo(t) = Todo(s) =>
                /\ ColumnPlaces(t) = ColumnPlaces(s) /\ MistypedAt(t) = MistypedAt(s)
                /\ UndoneAt(t) = UndoneAt(s)
<1>1. /\ IsFiniteSet(ColumnPlaces(s)) /\ IsFiniteSet(MistypedAt(s)) /\ IsFiniteSet(UndoneAt(s))
      /\ IsFiniteSet(ColumnPlaces(t)) /\ IsFiniteSet(MistypedAt(t)) /\ IsFiniteSet(UndoneAt(t))
  <2>1. ASSUME NEW u \in Schema PROVE IsFiniteSet(MistypedAt(u)) /\ IsFiniteSet(UndoneAt(u))
    <3>1. MistypedAt(u) \subseteq FieldPlaces(u) /\ UndoneAt(u) \subseteq (DOMAIN u.rels) \X Kinds
      BY DEF MistypedAt, UndoneAt
    <3>. DEFINE D == DOMAIN u.rels
                n == Len(u.rels)
    <3>2. IsFiniteSet(D)
      <4>1. n \in Nat /\ D = 1..n
        BY SchemaParts
      <4>. HIDE DEF D, n
      <4>. QED  BY <4>1, FS_Interval
    <3>3. IsFiniteSet(Kinds)
      <4>1. /\ IsFiniteSet({"type"}) /\ IsFiniteSet({"from"}) /\ IsFiniteSet({"to"})
            /\ IsFiniteSet({"nullable"}) /\ IsFiniteSet({"bi"})
        BY FS_Singleton
      <4>2. IsFiniteSet({"type"} \cup {"from"}) /\ IsFiniteSet({"to"} \cup {"nullable"})
        BY <4>1, FS_Union
      <4>3. IsFiniteSet(({"type"} \cup {"from"}) \cup ({"to"} \cup {"nullable"}))
        BY <4>2, FS_Union
      <4>4. IsFiniteSet((({"type"} \cup {"from"}) \cup ({"to"} \cup {"nullable"})) \cup {"bi"})
        BY <4>1, <4>3, FS_Union
      <4>5. Kinds = (({"type"} \cup {"from"}) \cup ({"to"} \cup {"nullable"})) \cup {"bi"}
        BY DEF Kinds
      <4>. QED  BY <4>4, <4>5
    <3>4. IsFiniteSet(D \X Kinds)
      <4>. HIDE DEF D
      <4>. QED  BY <3>2, <3>3, FS_Product
    <3>. DEFINE P == D \X Kinds
    <3>5. IsFiniteSet(P)
      BY <3>4
    <3>6. UndoneAt(u) \subseteq P
      BY <3>1
    <3>7. IsFiniteSet(FieldPlaces(u))
      BY PlacesFinite
    <3>. HIDE DEF P
    <3>. QED  BY <3>1, <3>5, <3>6, <3>7, FS_Subset
  <2>. QED  BY <2>1, ColumnPlacesFinite
<1>. DEFINE a(u) == Cardinality(ColumnPlaces(u))
            b(u) == Cardinality(MistypedAt(u))
            c(u) == Cardinality(UndoneAt(u))
<1>2. /\ a(s) \in Nat /\ b(s) \in Nat /\ c(s) \in Nat
      /\ a(t) \in Nat /\ b(t) \in Nat /\ c(t) \in Nat
  BY <1>1, FS_CardinalityType
<1>3. a(t) <= a(s) /\ (a(t) = a(s) => ColumnPlaces(t) = ColumnPlaces(s))
  BY <1>1, FS_Subset
<1>4. b(t) <= b(s) /\ (b(t) = b(s) => MistypedAt(t) = MistypedAt(s))
  BY <1>1, FS_Subset
<1>5. c(t) <= c(s) /\ (c(t) = c(s) => UndoneAt(t) = UndoneAt(s))
  BY <1>1, FS_Subset
<1>6. Todo(s) = a(s) + b(s) + c(s) /\ Todo(t) = a(t) + b(t) + c(t)
  BY DEF Todo
<1>. HIDE DEF a, b, c
<1>7. /\ Todo(s) \in Nat /\ Todo(t) <= Todo(s)
      /\ Todo(t) = Todo(s) => a(t) = a(s) /\ b(t) = b(s) /\ c(t) = c(s)
  BY <1>2, <1>3, <1>4, <1>5, <1>6
<1>. QED  BY <1>3, <1>4, <1>5, <1>7

LEMMA EntityTodo ==
    ASSUME NEW s \in Schema, NEW i \in DOMAIN s.entities, NEW e \in EntityRecord,
           e.name = s.entities[i].name, NEW t, t = WithEntity(s, i, e)
    PROVE  /\ t.rels = s.rels /\ UndoneAt(t) = UndoneAt(s)
           /\ DOMAIN t.entities = DOMAIN s.entities /\ t.entities[i] = e
           /\ \A k \in DOMAIN s.entities : k # i => t.entities[k] = s.entities[k]
<1>1. t.rels = s.rels /\ t.entities = [s.entities EXCEPT ![i] = e]
  BY DEF WithEntity, Schema
<1>2. /\ DOMAIN t.entities = DOMAIN s.entities /\ t.entities[i] = e
      /\ \A k \in DOMAIN s.entities : k # i => t.entities[k] = s.entities[k]
  BY <1>1, SchemaParts
<1>3. EntityNames(t) = EntityNames(s)
  BY <1>2 DEF EntityNames
<1>. QED  BY <1>1, <1>2, <1>3 DEF UndoneAt

LEMMA RetypesFieldTodo ==
    ASSUME NEW s \in Schema, NEW t \in Schema, RetypesField(s, t)
    PROVE  Todo(t) < Todo(s) /\ Todo(s) \in Nat
<1>1. PICK p \in FieldPlaces(s), new \in FieldType \ {"enum"} :
        /\ Mistyped(Field(s, p))
        /\ t = WithEntity(s, p[1], [s.entities[p[1]] EXCEPT !.fields[p[2]] =
                                        [Field(s, p) EXCEPT !.type = new]])
  BY DEF RetypesField
<1>. DEFINE i == p[1]
            j == p[2]
            f == [Field(s, p) EXCEPT !.type = new]
            e == [s.entities[i] EXCEPT !.fields[j] = f]
<1>2. /\ i \in DOMAIN s.entities /\ s.entities[i] \in EntityRecord
      /\ j \in DOMAIN s.entities[i].fields /\ Field(s, p) \in FieldRecord /\ p = <<i, j>>
  BY PlaceParts
<1>3. f \in FieldRecord /\ f.type = new
  BY <1>2, RulesAssumption DEF FieldRecord
<1>4. ~Mistyped(f)
  BY <1>3 DEF Mistyped, TypeAlias, FieldType
<1>5. t = WithEntity(s, i, e)
  BY <1>1
<1>. HIDE DEF f, i, j
<1>6. /\ e \in EntityRecord /\ e.name = s.entities[i].name
      /\ DOMAIN e.fields = DOMAIN s.entities[i].fields /\ e.indexes = s.entities[i].indexes
      /\ \A k \in DOMAIN e.fields : e.fields[k] = IF k = j THEN f ELSE s.entities[i].fields[k]
  <2>1. f.type \in FieldType
    BY <1>3
  <2>. QED  BY <1>2, <1>3, <2>1, FieldReplaced
<1>. HIDE DEF e
<1>7. /\ UndoneAt(t) = UndoneAt(s)
      /\ DOMAIN t.entities = DOMAIN s.entities /\ t.entities[i] = e
      /\ \A k \in DOMAIN s.entities : k # i => t.entities[k] = s.entities[k]
  BY <1>2, <1>5, <1>6, EntityTodo
<1>8. ColumnPlaces(t) = ColumnPlaces(s)
  <2>1. \A k \in DOMAIN s.entities : t.entities[k].indexes = s.entities[k].indexes
    BY <1>6, <1>7
  <2>2. IndexPlaces(t) = IndexPlaces(s)
    BY <1>7, <2>1 DEF IndexPlaces
  <2>3. \A q \in IndexPlaces(s) : t.entities[q[1]].indexes = s.entities[q[1]].indexes
    BY <2>1 DEF IndexPlaces
  <2>. QED  BY <2>2, <2>3 DEF ColumnPlaces
<1>9. FieldPlaces(t) = FieldPlaces(s)
  BY <1>6, <1>7 DEF FieldPlaces
<1>10. \A q \in FieldPlaces(s) : q # p => Field(t, q) = Field(s, q)
  <2>. SUFFICES ASSUME NEW q \in FieldPlaces(s), q # p PROVE Field(t, q) = Field(s, q)
    OBVIOUS
  <2>1. q[1] \in DOMAIN s.entities /\ q[2] \in DOMAIN s.entities[q[1]].fields /\ q = <<q[1], q[2]>>
    BY PlaceParts
  <2>2. q[1] # i \/ q[2] # j
    BY <1>2, <2>1
  <2>. QED  BY <1>6, <1>7, <2>1, <2>2 DEF Field
<1>11. Field(t, p) = f
  BY <1>2, <1>6, <1>7 DEF Field, i, j
<1>12. MistypedAt(t) \subseteq MistypedAt(s) /\ MistypedAt(t) # MistypedAt(s)
  BY <1>1, <1>4, <1>9, <1>10, <1>11 DEF MistypedAt
<1>13. Todo(s) \in Nat /\ Todo(t) <= Todo(s) /\ Todo(t) # Todo(s)
  BY <1>7, <1>8, <1>12, FewerTodo
<1>14. Todo(t) \in Nat
  BY FewerTodo
<1>. QED  BY <1>13, <1>14

LEMMA RenamesFieldParts ==
    ASSUME NEW s \in Schema, NEW t \in Schema, RenamesField(s, t)
    PROVE  /\ Todo(t) = Todo(s) /\ t.rels = s.rels /\ FieldPlaces(t) = FieldPlaces(s)
           /\ \A k \in DOMAIN s.entities : t.entities[k].name = s.entities[k].name
           /\ \E p \in FieldPlaces(s), suffix \in {"_text", "_value"} :
                LET given == GivenMembers(s, s.entities[p[1]].name)
                IN  /\ Field(s, p).name \in given
                    /\ Field(t, p).name = FreeName(Append(Field(s, p).name, suffix),
                                                   FieldNames(s, p[1]) \cup given)
                    /\ \A q \in FieldPlaces(s) : q # p => Field(t, q) = Field(s, q)
<1>1. PICK p \in FieldPlaces(s), suffix \in {"_text", "_value"} :
        /\ Field(s, p).name \in GivenMembers(s, s.entities[p[1]].name)
        /\ t = RenamedField(s, p, FreeName(Append(Field(s, p).name, suffix),
                    FieldNames(s, p[1]) \cup GivenMembers(s, s.entities[p[1]].name)))
  BY DEF RenamesField
<1>. DEFINE i == p[1]
            j == p[2]
            from == Field(s, p).name
            to == FreeName(Append(from, suffix),
                           FieldNames(s, i) \cup GivenMembers(s, s.entities[i].name))
            f == [Field(s, p) EXCEPT !.name = to]
            renamed == [s.entities[i] EXCEPT !.fields[j] = f]
            e == MapColumns(renamed, LAMBDA n : IF n = from THEN to ELSE n)
<1>2. /\ i \in DOMAIN s.entities /\ s.entities[i] \in EntityRecord
      /\ j \in DOMAIN s.entities[i].fields /\ Field(s, p) \in FieldRecord
      /\ Field(s, p) = s.entities[i].fields[j] /\ p = <<i, j>>
  BY PlaceParts
<1>3. from \in Name /\ to \in Name
  <2>1. from \in Name /\ suffix \in Token
    BY <1>2, RulesAssumption DEF FieldRecord
  <2>. QED  BY <2>1, SuffixType, FreeNameType
<1>4. t = WithEntity(s, i, e)
  BY <1>1, <1>2 DEF RenamedField, WithEntity
<1>. HIDE DEF from, to
<1>5. f \in FieldRecord /\ (Mistyped(f) <=> Mistyped(Field(s, p))) /\ f.type = Field(s, p).type
      /\ f.name = to
  BY <1>2, <1>3 DEF FieldRecord, Mistyped
<1>. HIDE DEF f, i, j
<1>6. /\ renamed \in EntityRecord /\ renamed.name = s.entities[i].name
      /\ DOMAIN renamed.fields = DOMAIN s.entities[i].fields
      /\ renamed.indexes = s.entities[i].indexes
      /\ \A k \in DOMAIN s.entities[i].fields :
            renamed.fields[k] = IF k = j THEN f ELSE s.entities[i].fields[k]
  BY <1>2, <1>5, FieldReplaced
<1>. HIDE DEF renamed
<1>7. /\ e \in EntityRecord /\ e.name = renamed.name
      /\ e.fields = renamed.fields /\ DOMAIN e.indexes = DOMAIN renamed.indexes
      /\ \A c \in DOMAIN renamed.indexes :
            DOMAIN e.indexes[c].fields = DOMAIN renamed.indexes[c].fields
  <2>1. e \in EntityRecord /\ e.name = renamed.name
    BY <1>3, <1>6, ColumnsMapped
  <2>. DEFINE moved(c) == [renamed.indexes[c] EXCEPT !.fields =
                    [k \in DOMAIN renamed.indexes[c].fields |->
                        IF renamed.indexes[c].fields[k] = from THEN to
                        ELSE renamed.indexes[c].fields[k]]]
  <2>2. e = [renamed EXCEPT !.indexes = [c \in DOMAIN renamed.indexes |-> moved(c)]]
    BY <1>6 DEF MapColumns, Each, EntityRecord
  <2>3. \A c \in DOMAIN renamed.indexes :
            renamed.indexes[c] \in IndexRecord /\ DOMAIN moved(c).fields = DOMAIN renamed.indexes[c].fields
    BY <1>6, EntityParts DEF IndexRecord
  <2>. HIDE DEF moved, e
  <2>4. e.fields = renamed.fields /\ e.indexes = [c \in DOMAIN renamed.indexes |-> moved(c)]
    BY <1>6, <2>2 DEF EntityRecord
  <2>. QED  BY <2>1, <2>3, <2>4
<1>. HIDE DEF e
<1>8. /\ UndoneAt(t) = UndoneAt(s) /\ t.rels = s.rels
      /\ DOMAIN t.entities = DOMAIN s.entities /\ t.entities[i] = e
      /\ \A k \in DOMAIN s.entities : k # i => t.entities[k] = s.entities[k]
  BY <1>2, <1>4, <1>6, <1>7, EntityTodo
<1>9. ColumnPlaces(t) = ColumnPlaces(s)
  <2>1. IndexPlaces(t) = IndexPlaces(s)
    BY <1>6, <1>7, <1>8 DEF IndexPlaces
  <2>2. ASSUME NEW q \in IndexPlaces(s)
        PROVE  DOMAIN t.entities[q[1]].indexes[q[2]].fields = DOMAIN s.entities[q[1]].indexes[q[2]].fields
    <3>1. q[1] \in DOMAIN s.entities /\ q[2] \in DOMAIN s.entities[q[1]].indexes
      BY DEF IndexPlaces
    <3>. QED  BY <1>6, <1>7, <1>8, <3>1
  <2>. QED  BY <2>1, <2>2 DEF ColumnPlaces
<1>10. FieldPlaces(t) = FieldPlaces(s)
  BY <1>6, <1>7, <1>8 DEF FieldPlaces
<1>11. ASSUME NEW q \in FieldPlaces(s)
       PROVE  /\ Mistyped(Field(t, q)) <=> Mistyped(Field(s, q))
              /\ Field(t, q) = IF q = p THEN f ELSE Field(s, q)
  <2>1. q[1] \in DOMAIN s.entities /\ q[2] \in DOMAIN s.entities[q[1]].fields /\ q = <<q[1], q[2]>>
    BY PlaceParts
  <2>2. CASE q = p
    <3>1. Field(t, q) = f
      BY <1>2, <1>6, <1>7, <1>8, <2>2 DEF Field, i, j
    <3>. QED  BY <1>5, <2>2, <3>1
  <2>3. CASE q # p
    <3>1. q[1] # i \/ q[2] # j
      BY <1>2, <2>1, <2>3
    <3>2. Field(t, q) = Field(s, q)
      BY <1>6, <1>7, <1>8, <2>1, <3>1 DEF Field
    <3>. QED  BY <2>3, <3>2
  <2>. QED  BY <2>2, <2>3
<1>12. MistypedAt(t) = MistypedAt(s)
  BY <1>10, <1>11 DEF MistypedAt
<1>13. Todo(t) = Todo(s)
  BY <1>8, <1>9, <1>12 DEF Todo
<1>14. \A k \in DOMAIN s.entities : t.entities[k].name = s.entities[k].name
  BY <1>6, <1>7, <1>8
<1>15. Field(t, p).name = to
  BY <1>5, <1>11
<1>16. /\ Field(s, p).name \in GivenMembers(s, s.entities[p[1]].name)
       /\ Field(t, p).name = FreeName(Append(Field(s, p).name, suffix),
                FieldNames(s, p[1]) \cup GivenMembers(s, s.entities[p[1]].name))
       /\ \A q \in FieldPlaces(s) : q # p => Field(t, q) = Field(s, q)
  BY <1>1, <1>11, <1>15 DEF to, from, i
<1>. QED  BY <1>8, <1>10, <1>13, <1>14, <1>16

LEMMA DropsColumnsTodo ==
    ASSUME NEW s \in Schema, NEW t \in Schema, DropsColumns(s, t)
    PROVE  Todo(t) < Todo(s)
<1>1. PICK p \in IndexPlaces(s), columns \in Seq(Name) :
        /\ Len(columns) < Len(s.entities[p[1]].indexes[p[2]].fields)
        /\ t = WithEntity(s, p[1], [s.entities[p[1]] EXCEPT !.indexes[p[2]] =
                            [s.entities[p[1]].indexes[p[2]] EXCEPT !.fields = columns]])
  BY DEF DropsColumns
<1>. DEFINE i == p[1]
            c == p[2]
            old == s.entities[i].indexes[c]
            index == [old EXCEPT !.fields = columns]
            indexes == [s.entities[i].indexes EXCEPT ![c] = index]
            e == [s.entities[i] EXCEPT !.indexes = indexes]
<1>2. /\ i \in DOMAIN s.entities /\ c \in DOMAIN s.entities[i].indexes /\ p = <<i, c>>
      /\ s.entities[i] \in EntityRecord
  BY SchemaParts DEF IndexPlaces
<1>3. s.entities[i].indexes \in Seq(IndexRecord) /\ old \in IndexRecord
  BY <1>2, EntityParts
<1>4. t = WithEntity(s, i, e) /\ Len(columns) < Len(old.fields)
  BY <1>1
<1>. HIDE DEF i, c
<1>5. index \in IndexRecord /\ index.fields = columns
  BY <1>3 DEF IndexRecord
<1>. HIDE DEF index
<1>6. /\ indexes \in Seq(IndexRecord) /\ DOMAIN indexes = DOMAIN s.entities[i].indexes
      /\ \A k \in DOMAIN indexes : indexes[k] = IF k = c THEN index ELSE s.entities[i].indexes[k]
  BY <1>2, <1>3, <1>5
<1>. HIDE DEF indexes
<1>7. /\ e \in EntityRecord /\ e.name = s.entities[i].name
      /\ e.fields = s.entities[i].fields /\ e.indexes = indexes
  BY <1>2, <1>6 DEF EntityRecord
<1>. HIDE DEF e
<1>8. /\ UndoneAt(t) = UndoneAt(s)
      /\ DOMAIN t.entities = DOMAIN s.entities /\ t.entities[i] = e
      /\ \A k \in DOMAIN s.entities : k # i => t.entities[k] = s.entities[k]
  BY <1>2, <1>4, <1>7, EntityTodo
<1>9. MistypedAt(t) = MistypedAt(s)
  <2>1. \A k \in DOMAIN s.entities : t.entities[k].fields = s.entities[k].fields
    BY <1>7, <1>8
  <2>2. FieldPlaces(t) = FieldPlaces(s)
    BY <1>8, <2>1 DEF FieldPlaces
  <2>3. \A q \in FieldPlaces(s) : Field(t, q) = Field(s, q)
    BY <2>1 DEF Field, FieldPlaces
  <2>. QED  BY <2>2, <2>3 DEF MistypedAt
<1>10. IndexPlaces(t) = IndexPlaces(s)
  BY <1>6, <1>7, <1>8 DEF IndexPlaces
<1>. DEFINE n == Len(old.fields)
<1>11. /\ DOMAIN old.fields = 1..n /\ n \in Nat /\ n \in DOMAIN old.fields
       /\ DOMAIN columns \subseteq DOMAIN old.fields /\ n \notin DOMAIN columns
  <2>1. old.fields \in Seq(Name)
    BY <1>3 DEF IndexRecord
  <2>2. Len(columns) \in Nat /\ DOMAIN columns = 1..Len(columns)
    OBVIOUS
  <2>. QED  BY <1>4, <2>1, <2>2
<1>. HIDE DEF n
<1>12. ColumnPlaces(t) \subseteq ColumnPlaces(s)
  <2>1. ASSUME NEW q \in IndexPlaces(s)
        PROVE  DOMAIN t.entities[q[1]].indexes[q[2]].fields
                    \subseteq DOMAIN s.entities[q[1]].indexes[q[2]].fields
    <3>1. q[1] \in DOMAIN s.entities /\ q[2] \in DOMAIN s.entities[q[1]].indexes
      BY DEF IndexPlaces
    <3>2. CASE q[1] = i /\ q[2] = c
      BY <1>5, <1>6, <1>7, <1>8, <1>11, <3>1, <3>2
    <3>3. CASE q[1] # i \/ q[2] # c
      <4>1. t.entities[q[1]].indexes[q[2]] = s.entities[q[1]].indexes[q[2]]
        BY <1>6, <1>7, <1>8, <3>1, <3>3
      <4>. QED  BY <4>1
    <3>. QED  BY <3>2, <3>3
  <2>. QED  BY <1>10, <2>1 DEF ColumnPlaces
<1>13. ColumnPlaces(t) # ColumnPlaces(s)
  <2>. DEFINE q == <<p, n>>
  <2>1. t.entities[i].indexes[c].fields = columns
    BY <1>2, <1>5, <1>6, <1>7, <1>8
  <2>2. n \in DOMAIN s.entities[p[1]].indexes[p[2]].fields
    BY <1>11 DEF i, c
  <2>3. n \notin DOMAIN t.entities[p[1]].indexes[p[2]].fields
    BY <1>11, <2>1 DEF i, c
  <2>4. q \in ColumnPlaces(s) /\ q \notin ColumnPlaces(t)
    BY <1>11, <2>2, <2>3 DEF ColumnPlaces
  <2>. QED  BY <2>4
<1>14. Todo(t) <= Todo(s) /\ Todo(t) # Todo(s) /\ Todo(s) \in Nat
  BY <1>8, <1>9, <1>12, <1>13, FewerTodo
<1>15. Todo(t) \in Nat
  BY FewerTodo
<1>. QED  BY <1>14, <1>15

LEMMA RelTodo ==
    ASSUME NEW s \in Schema, NEW i \in DOMAIN s.rels, NEW r \in RelRecord,
           NEW t \in Schema, t = WithRel(s, i, r),
           Undone(EntityNames(s), r) \subseteq Undone(EntityNames(s), s.rels[i])
    PROVE  /\ Todo(t) <= Todo(s)
           /\ Undone(EntityNames(s), r) # Undone(EntityNames(s), s.rels[i]) => Todo(t) # Todo(s)
<1>1. t.entities = s.entities /\ t.rels = [s.rels EXCEPT ![i] = r]
  BY DEF WithRel, Schema
<1>2. EntityNames(t) = EntityNames(s) /\ FieldPlaces(t) = FieldPlaces(s)
      /\ IndexPlaces(t) = IndexPlaces(s) /\ \A p : Field(t, p) = Field(s, p)
  BY <1>1 DEF EntityNames, FieldPlaces, IndexPlaces, Field
<1>3. ColumnPlaces(t) = ColumnPlaces(s) /\ MistypedAt(t) = MistypedAt(s)
  BY <1>1, <1>2 DEF ColumnPlaces, MistypedAt
<1>4. DOMAIN t.rels = DOMAIN s.rels /\ t.rels[i] = r
      /\ \A k \in DOMAIN s.rels : k # i => t.rels[k] = s.rels[k]
  BY <1>1, SchemaParts
<1>. DEFINE N == EntityNames(s)
<1>5. \A k \in DOMAIN s.rels : Undone(N, t.rels[k]) \subseteq Undone(N, s.rels[k])
  BY <1>4
<1>6. \A u : Undone(N, u) \subseteq Kinds
  BY DEF Undone, Kinds
<1>. HIDE DEF N
<1>7. UndoneAt(t) = {w \in (DOMAIN s.rels) \X Kinds : w[2] \in Undone(N, t.rels[w[1]])}
      /\ UndoneAt(s) = {w \in (DOMAIN s.rels) \X Kinds : w[2] \in Undone(N, s.rels[w[1]])}
  BY <1>2, <1>4 DEF UndoneAt, N
<1>8. UndoneAt(t) \subseteq UndoneAt(s)
  BY <1>5, <1>7
<1>9. ASSUME Undone(N, r) # Undone(N, s.rels[i]) PROVE UndoneAt(t) # UndoneAt(s)
  <2>1. PICK kind \in Kinds : kind \in Undone(N, s.rels[i]) /\ kind \notin Undone(N, t.rels[i])
    BY <1>4, <1>5, <1>6, <1>9
  <2>2. <<i, kind>> \in UndoneAt(s) /\ <<i, kind>> \notin UndoneAt(t)
    BY <1>7, <2>1
  <2>. QED  BY <2>2
<1>. QED  BY <1>3, <1>8, <1>9, FewerTodo DEF N

LEMMA MendsRelTodo ==
    ASSUME NEW s \in Schema, NEW t \in Schema, MendsRel(s, t)
    PROVE  Todo(t) <= Todo(s) /\ (Todo(t) = Todo(s) => NamesRel(s, t))
<1>. DEFINE N == EntityNames(s)
<1>1. \A i \in DOMAIN s.rels : s.rels[i] \in RelRecord
  BY SchemaParts
<1>2. CASE RetypesRel(s, t)
  <2>1. PICK i \in DOMAIN s.rels, type \in RelationshipType :
            /\ s.rels[i].type \in DOMAIN RelationshipAlias
            /\ t = WithRel(s, i, [s.rels[i] EXCEPT !.type = type])
    BY <1>2 DEF RetypesRel
  <2>. DEFINE r == [s.rels[i] EXCEPT !.type = type]
  <2>2. /\ r \in RelRecord /\ r.from = s.rels[i].from /\ r.to = s.rels[i].to /\ r.type = type
        /\ r.nullable = s.rels[i].nullable /\ r.bi = s.rels[i].bi
    BY <1>1, RulesAssumption DEF RelRecord
  <2>3. t = WithRel(s, i, r)
    BY <2>1
  <2>4. type \notin DOMAIN RelationshipAlias
    BY DEF RelationshipType, RelationshipAlias
  <2>. HIDE DEF r, N
  <2>5. /\ Undone(N, r) \subseteq Undone(N, s.rels[i])
        /\ "type" \in Undone(N, s.rels[i]) /\ "type" \notin Undone(N, r)
    BY <2>1, <2>2, <2>4 DEF Undone
  <2>. QED  BY <2>2, <2>3, <2>5, RelTodo DEF N
<1>3. CASE MovesEnd(s, t)
  <2>1. PICK i \in DOMAIN s.rels, name \in N :
            \/ /\ s.rels[i].from \notin N
               /\ t = WithRel(s, i, [s.rels[i] EXCEPT !.from = name])
            \/ /\ s.rels[i].to \notin N
               /\ t = WithRel(s, i, [s.rels[i] EXCEPT !.to = name])
    BY <1>3 DEF MovesEnd
  <2>2. name \in Name
    BY SchemaParts, EntityParts DEF EntityNames
  <2>. DEFINE a == [s.rels[i] EXCEPT !.from = name]
              b == [s.rels[i] EXCEPT !.to = name]
              old == s.rels[i]
  <2>3. /\ a \in RelRecord /\ a.from = name /\ a.to = old.to /\ a.type = old.type
        /\ a.nullable = old.nullable /\ a.bi = old.bi
        /\ b \in RelRecord /\ b.from = old.from /\ b.to = name /\ b.type = old.type
        /\ b.nullable = old.nullable /\ b.bi = old.bi
    BY <1>1, <2>2 DEF RelRecord
  <2>4. \/ s.rels[i].from \notin N /\ t = WithRel(s, i, a)
        \/ s.rels[i].to \notin N /\ t = WithRel(s, i, b)
    BY <2>1
  <2>. HIDE DEF a, b, N
  <2>5. CASE s.rels[i].from \notin N /\ t = WithRel(s, i, a)
    <3>1. /\ Undone(N, a) \subseteq Undone(N, s.rels[i])
          /\ "from" \in Undone(N, s.rels[i]) /\ "from" \notin Undone(N, a)
      BY <2>1, <2>3, <2>5 DEF Undone
    <3>. QED  BY <2>3, <2>5, <3>1, RelTodo DEF N
  <2>6. CASE s.rels[i].to \notin N /\ t = WithRel(s, i, b)
    <3>1. /\ Undone(N, b) \subseteq Undone(N, s.rels[i])
          /\ "to" \in Undone(N, s.rels[i]) /\ "to" \notin Undone(N, b)
      BY <2>1, <2>3, <2>6 DEF Undone
    <3>. QED  BY <2>3, <2>6, <3>1, RelTodo DEF N
  <2>. QED  BY <2>4, <2>5, <2>6
<1>4. CASE NamesRel(s, t)
  <2>1. PICK d \in GeneratingSides(s), name \in Name :
            t = WithRel(s, d.rel, [s.rels[d.rel] EXCEPT !.toName = name])
    BY <1>4 DEF NamesRel
  <2>2. d.rel \in DOMAIN s.rels
    BY OtherSide DEF SideRecord
  <2>. DEFINE i == d.rel
              r == [s.rels[i] EXCEPT !.toName = name]
  <2>3. /\ r \in RelRecord /\ r.from = s.rels[i].from /\ r.to = s.rels[i].to
        /\ r.type = s.rels[i].type /\ r.nullable = s.rels[i].nullable /\ r.bi = s.rels[i].bi
    BY <1>1, <2>2 DEF RelRecord
  <2>4. t = WithRel(s, i, r)
    BY <2>1
  <2>. HIDE DEF r, i, N
  <2>5. Undone(N, r) = Undone(N, s.rels[i])
    BY <2>3 DEF Undone
  <2>. QED  BY <1>4, <2>2, <2>3, <2>4, <2>5, RelTodo DEF N, i
<1>5. CASE StopsInverse(s, t)
  <2>1. PICK d \in GeneratingSides(s) :
            /\ s.rels[d.rel].bi # "no"
            /\ t = WithRel(s, d.rel, [s.rels[d.rel] EXCEPT !.bi = "no"])
    BY <1>5 DEF StopsInverse
  <2>2. d.rel \in DOMAIN s.rels
    BY OtherSide DEF SideRecord
  <2>. DEFINE i == d.rel
              r == [s.rels[i] EXCEPT !.bi = "no"]
  <2>3. /\ r \in RelRecord /\ r.from = s.rels[i].from /\ r.to = s.rels[i].to
        /\ r.type = s.rels[i].type /\ r.nullable = s.rels[i].nullable /\ r.bi = "no"
    BY <1>1, <2>2 DEF RelRecord
  <2>4. t = WithRel(s, i, r) /\ s.rels[i].bi # "no"
    BY <2>1
  <2>. HIDE DEF r, i, N
  <2>5. /\ Undone(N, r) \subseteq Undone(N, s.rels[i])
        /\ "bi" \in Undone(N, s.rels[i]) /\ "bi" \notin Undone(N, r)
    BY <2>3, <2>4 DEF Undone
  <2>. QED  BY <2>2, <2>3, <2>4, <2>5, RelTodo DEF N, i
<1>6. CASE MakesOptional(s, t)
  <2>1. PICK i \in DOMAIN s.rels :
            ~s.rels[i].nullable /\ t = WithRel(s, i, [s.rels[i] EXCEPT !.nullable = TRUE])
    BY <1>6 DEF MakesOptional
  <2>. DEFINE r == [s.rels[i] EXCEPT !.nullable = TRUE]
  <2>2. /\ r \in RelRecord /\ r.from = s.rels[i].from /\ r.to = s.rels[i].to
        /\ r.type = s.rels[i].type /\ r.nullable /\ r.bi = s.rels[i].bi
    BY <1>1 DEF RelRecord
  <2>3. t = WithRel(s, i, r)
    BY <2>1
  <2>. HIDE DEF r, N
  <2>4. /\ Undone(N, r) \subseteq Undone(N, s.rels[i])
        /\ "nullable" \in Undone(N, s.rels[i]) /\ "nullable" \notin Undone(N, r)
    BY <2>1, <2>2 DEF Undone
  <2>. QED  BY <2>2, <2>3, <2>4, RelTodo DEF N
<1>. QED  BY <1>2, <1>3, <1>4, <1>5, <1>6 DEF MendsRel

LEMMA MendsInPlaceTodo ==
    ASSUME NEW s \in Schema, NEW t \in Schema, MendsInPlace(s, t)
    PROVE  /\ Todo(s) \in Nat /\ Todo(t) <= Todo(s)
           /\ Todo(t) = Todo(s) => RenamesField(s, t) \/ NamesRel(s, t)
<1>1. Todo(s) \in Nat /\ Todo(t) \in Nat
  BY FewerTodo
<1>2. CASE RetypesField(s, t)
  BY <1>1, <1>2, RetypesFieldTodo
<1>3. CASE RenamesField(s, t)
  BY <1>1, <1>3, RenamesFieldParts
<1>4. CASE DropsColumns(s, t)
  BY <1>1, <1>4, DropsColumnsTodo
<1>5. CASE MendsRel(s, t)
  BY <1>1, <1>5, MendsRelTodo
<1>. QED  BY <1>2, <1>3, <1>4, <1>5 DEF MendsInPlace

-----------------------------------------------------------------------------
(* A relationship that gets a name leaves those declared before it alone.  *)

Row(s, k) == SidesOf(k, s.rels[k], InverseOf(s.rels, s.rels[k]))

LEMMA RowShape ==
    ASSUME NEW s, NEW k, NEW j \in DOMAIN Row(s, k)
    PROVE  /\ Row(s, k)[j].rel = k /\ (Row(s, k)[j].isFrom <=> j = 1)
           /\ DOMAIN Row(s, k) \subseteq 1..2
<1>. DEFINE rels == s.rels
            row == SidesOf(k, rels[k], InverseOf(rels, rels[k]))
<1>1. Row(s, k) = row
  BY DEF Row
<1>. HIDE DEF rels
<1>2. j \in DOMAIN row
  BY <1>1
<1>3. row[j].rel = k /\ (row[j].isFrom <=> j = 1) /\ DOMAIN row \subseteq 1..2
  BY <1>2, SidesOfShape
<1>. QED  BY <1>1, <1>3

LEMMA SideOfRow ==
    ASSUME NEW s \in Schema
    PROVE  \A d : d \in Range(Sides(s.rels)) <=>
                \E k \in DOMAIN s.rels : d.rel = k /\ \E j \in DOMAIN Row(s, k) : d = Row(s, k)[j]
<1>1. ASSUME NEW k \in DOMAIN s.rels, NEW j \in DOMAIN Row(s, k) PROVE Row(s, k)[j].rel = k
  BY RowShape
<1>. QED  BY <1>1, SidesAre DEF Row

LEMMA HereSide ==
    ASSUME NEW s \in Schema, NEW d \in Range(Sides(s.rels)), d.isFrom
    PROVE  /\ d.rel \in DOMAIN s.rels
           /\ d.entity = s.rels[d.rel].from /\ d.other = s.rels[d.rel].to
           /\ d.ref = RefOf(s.rels[d.rel])
<1>1. PICK k \in DOMAIN s.rels : d.rel = k /\ \E j \in DOMAIN Row(s, k) : d = Row(s, k)[j]
  BY SideOfRow
<1>2. PICK j \in DOMAIN Row(s, k) : d = Row(s, k)[j]
  BY <1>1
<1>3. j = 1
  BY <1>2, RowShape
<1>4. /\ Row(s, k)[1].entity = s.rels[k].from /\ Row(s, k)[1].other = s.rels[k].to
      /\ Row(s, k)[1].ref = RefOf(s.rels[k])
  <2>. DEFINE rel == s.rels[k]
              inverse == InverseOf(s.rels, s.rels[k])
  <2>1. Row(s, k) = SidesOf(k, rel, inverse)
    BY DEF Row
  <2>. HIDE DEF rel, inverse
  <2>2. 1 \in DOMAIN SidesOf(k, rel, inverse)
    BY <1>2, <1>3, <2>1
  <2>3. /\ SidesOf(k, rel, inverse)[1].entity = rel.from
        /\ SidesOf(k, rel, inverse)[1].other = rel.to
        /\ SidesOf(k, rel, inverse)[1].ref = RefOf(rel)
    BY <2>2 DEF SidesOf
  <2>. QED  BY <2>1, <2>3 DEF rel
<1>. QED  BY <1>1, <1>2, <1>3, <1>4

\* t is s where the relationship of a generating side got another name.
Names(s, t, r) ==
    \E d \in GeneratingSides(s), name \in Name :
        /\ d.isFrom /\ d.rel = r
        /\ t = WithRel(s, r, [s.rels[r] EXCEPT !.toName = name])

LEMMA NamesParts ==
    ASSUME NEW s \in Schema, NEW t, NEW r, Names(s, t, r)
    PROVE  /\ r \in DOMAIN s.rels /\ t.entities = s.entities
           /\ DOMAIN t.rels = DOMAIN s.rels /\ Len(t.rels) = Len(s.rels)
           /\ \A k \in DOMAIN s.rels :
                /\ t.rels[k].from = s.rels[k].from /\ t.rels[k].to = s.rels[k].to
                /\ t.rels[k].type = s.rels[k].type /\ t.rels[k].bi = s.rels[k].bi
                /\ k # r => t.rels[k] = s.rels[k]
<1>1. PICK d \in GeneratingSides(s), name \in Name :
        /\ d.isFrom /\ d.rel = r
        /\ t = WithRel(s, r, [s.rels[r] EXCEPT !.toName = name])
  BY DEF Names
<1>2. r \in DOMAIN s.rels
  BY <1>1, OtherSide DEF SideRecord
<1>. DEFINE new == [s.rels[r] EXCEPT !.toName = name]
<1>3. /\ new.from = s.rels[r].from /\ new.to = s.rels[r].to
      /\ new.type = s.rels[r].type /\ new.bi = s.rels[r].bi
  BY <1>2, SchemaParts DEF RelRecord
<1>4. t.entities = s.entities /\ t.rels = [s.rels EXCEPT ![r] = new]
  BY <1>1 DEF WithRel, Schema
<1>. HIDE DEF new
<1>. QED  BY <1>2, <1>3, <1>4, SchemaParts

LEMMA RowKept ==
    ASSUME NEW s \in Schema, NEW t, NEW r, Names(s, t, r), NEW k \in DOMAIN s.rels, k < r
    PROVE  Row(t, k) = Row(s, k)
<1>1. PICK d \in GeneratingSides(s) : d.isFrom /\ d.rel = r
  BY DEF Names
<1>2. /\ r \in DOMAIN s.rels /\ DOMAIN t.rels = DOMAIN s.rels /\ Len(t.rels) = Len(s.rels)
      /\ \A i \in DOMAIN s.rels :
            /\ t.rels[i].from = s.rels[i].from /\ t.rels[i].to = s.rels[i].to
            /\ t.rels[i].type = s.rels[i].type /\ t.rels[i].bi = s.rels[i].bi
            /\ i # r => t.rels[i] = s.rels[i]
  BY NamesParts
<1>3. DOMAIN s.rels = 1..Len(s.rels) /\ k \in Int /\ r \in Int
  BY <1>2, SchemaParts
<1>4. t.rels[k] = s.rels[k]
  BY <1>2, <1>3
<1>. DEFINE Q(u) == {i \in 1..Len(u.rels) : u.rels[i].from = u.rels[k].to
                        /\ u.rels[i].to = u.rels[k].from /\ u.rels[i].type = u.rels[k].type}
            first(u) == IF Q(u) # {} THEN Min(Q(u)) ELSE 0
            inverse(u) == InverseOf(u.rels, u.rels[k])
            rel == s.rels[k]
<1>5. Q(t) = Q(s)
  BY <1>2, <1>3
<1>6. \A u : inverse(u) = IF first(u) = 0 THEN {} ELSE {u.rels[first(u)]}
  BY DEF InverseOf, SelectInSeq
<1>7. first(s) = 0 \/ first(s) \in Q(s)
  <2>1. Q(s) \subseteq Nat
    BY <1>3
  <2>. HIDE DEF Q
  <2>. QED  BY <2>1, FirstOf
<1>8. first(t) = first(s)
  BY <1>5
<1>9. CASE inverse(t) = inverse(s)
  BY <1>4, <1>9 DEF Row
<1>10. CASE inverse(t) # inverse(s)
  <2>. DEFINE a == s.rels[r]
              b == t.rels[r]
  <2>1. first(s) = r /\ r \in Q(s) /\ inverse(s) = {a} /\ inverse(t) = {b}
    <3>1. first(s) # 0 /\ first(s) \in Q(s)
      BY <1>6, <1>7, <1>8, <1>10
    <3>2. first(s) = r
      <4>1. first(s) # r => t.rels[first(s)] = s.rels[first(s)]
        BY <1>2, <1>3, <3>1
      <4>. HIDE DEF first, inverse
      <4>. QED  BY <1>6, <1>8, <1>10, <3>1, <4>1
    <3>. HIDE DEF first, inverse
    <3>. QED  BY <1>6, <1>8, <3>1, <3>2
  <2>2. a.from = rel.to /\ a.to = rel.from /\ a.type = rel.type /\ b.bi = a.bi
    BY <1>2, <2>1
  <2>3. /\ d.entity = a.from /\ d.other = a.to /\ d.ref = RefOf(a)
    BY <1>1, HereSide DEF GeneratingSides
  <2>. DEFINE both == \E x \in {rel} \cup {a} : x.bi = "yes"
              there == [entity |-> rel.to, other |-> rel.from, type |-> rel.type,
                        ref |-> RefOf(a), rel |-> k, isFrom |-> FALSE]
  <2>4. ~(rel.type \in {"ManyToMany", "OneToOne"} /\ both)
    <3>1. SUFFICES ASSUME rel.type \in {"ManyToMany", "OneToOne"}, both PROVE FALSE
      OBVIOUS
    <3>. DEFINE names == {x.toName : x \in {a}} \ {NoName}
                ref == IF names # {} THEN CHOOSE n \in names : TRUE ELSE rel.from
    <3>2. ref = RefOf(a)
      <4>1. names = IF a.toName = NoName THEN {} ELSE {a.toName}
        OBVIOUS
      <4>2. CASE a.toName = NoName
        BY <2>2, <4>1, <4>2 DEF RefOf
      <4>3. CASE a.toName # NoName
        <5>1. names = {a.toName}
          BY <4>1, <4>3
        <5>. HIDE DEF names
        <5>2. (CHOOSE n \in names : TRUE) = a.toName
          BY <5>1
        <5>. QED  BY <4>3, <5>1, <5>2 DEF RefOf
      <4>. QED  BY <4>2, <4>3
    <3>3. Row(s, k) = SidesOf(k, rel, {a})
      BY <2>1 DEF Row
    <3>. HIDE DEF a, b, ref
    <3>4. 2 \in DOMAIN SidesOf(k, rel, {a}) /\ SidesOf(k, rel, {a})[2] = there
      <4>. HIDE DEF rel
      <4>1. \E x \in {rel} \cup {a} : x.bi = "yes"
        BY <3>1
      <4>2. rel.type \notin {"ManyToOne", "OneToMany"}
        BY <3>1
      <4>3. SidesOf(k, rel, {a})
                = <<[entity |-> rel.from, other |-> rel.to, type |-> rel.type,
                     ref |-> RefOf(rel), rel |-> k, isFrom |-> TRUE],
                    [entity |-> rel.to, other |-> rel.from, type |-> rel.type,
                     ref |-> ref, rel |-> k, isFrom |-> FALSE]>>
        BY <3>1, <4>1, <4>2 DEF SidesOf, ref
      <4>. QED  BY <3>2, <4>3
    <3>5. there \in Range(Sides(s.rels))
      <4>. HIDE DEF rel
      <4>1. there.rel = k
        OBVIOUS
      <4>. QED  BY <3>3, <3>4, <4>1, SideOfRow
    <3>6. /\ there.entity = d.entity /\ there.other = d.other /\ there.ref = d.ref
          /\ there.rel < d.rel
      BY <1>1, <2>2, <2>3
    <3>. HIDE DEF there
    <3>. QED  BY <3>5, <3>6 DEF GeneratingSides
  <2>5. (\E x \in {rel} \cup {b} : x.bi = "yes") <=> both
    BY <2>2
  <2>6. Row(s, k) = SidesOf(k, rel, {a}) /\ Row(t, k) = SidesOf(k, rel, {b})
    BY <1>4, <2>1 DEF Row
  <2>. HIDE DEF a, b, rel
  <2>7. SidesOf(k, rel, {a}) = SidesOf(k, rel, {b})
    <3>1. CASE rel.type \in {"ManyToOne", "OneToMany"}
      BY <3>1 DEF SidesOf
    <3>2. CASE rel.type \in {"ManyToMany", "OneToOne"}
      BY <2>4, <2>5, <3>2 DEF SidesOf
    <3>3. CASE rel.type \notin {"ManyToOne", "OneToMany", "ManyToMany", "OneToOne"}
      BY <3>3 DEF SidesOf
    <3>. QED  BY <3>1, <3>2, <3>3
  <2>. QED  BY <2>6, <2>7
<1>. QED  BY <1>9, <1>10

SidesBefore(s, q) == {c \in GeneratingSides(s) : c.rel < q}

LEMMA SidesBeforeKept ==
    ASSUME NEW s \in Schema, NEW t \in Schema, NEW r, Names(s, t, r), NEW q \in Int, q <= r
    PROVE  SidesBefore(t, q) = SidesBefore(s, q)
<1>1. r \in DOMAIN s.rels /\ DOMAIN t.rels = DOMAIN s.rels
  BY NamesParts
<1>2. DOMAIN s.rels \subseteq Int /\ r \in Int
  BY <1>1, SchemaParts
<1>3. \A d : d.rel < q => (d \in Range(Sides(t.rels)) <=> d \in Range(Sides(s.rels)))
  <2>1. \A k \in DOMAIN s.rels : k < q => Row(t, k) = Row(s, k)
    BY <1>2, RowKept
  <2>. SUFFICES ASSUME NEW d, d.rel < q
                PROVE  d \in Range(Sides(t.rels)) <=> d \in Range(Sides(s.rels))
    OBVIOUS
  <2>2. d.rel \in DOMAIN s.rels => Row(t, d.rel) = Row(s, d.rel)
    BY <2>1
  <2>. DEFINE is(u) == d.rel \in DOMAIN s.rels /\ \E j \in DOMAIN Row(u, d.rel) : d = Row(u, d.rel)[j]
  <2>3. (d \in Range(Sides(s.rels)) <=> is(s)) /\ (d \in Range(Sides(t.rels)) <=> is(t))
    BY <1>1, SideOfRow
  <2>4. is(s) <=> is(t)
    BY <2>2
  <2>. HIDE DEF is
  <2>. QED  BY <2>3, <2>4
<1>. DEFINE A == Range(Sides(s.rels))
            B == Range(Sides(t.rels))
            ahead(b, c) ==
                /\ b.entity = c.entity /\ b.other = c.other /\ b.ref = c.ref
                /\ b.rel < c.rel \/ (b.rel = c.rel /\ b.isFrom /\ ~c.isFrom)
<1>4. \A d \in A \cup B : d.rel \in Int
  BY <1>1, <1>2, SideOfRow
<1>5. /\ GeneratingSides(s) = {c \in A : ~\E b \in A : ahead(b, c)}
      /\ GeneratingSides(t) = {c \in B : ~\E b \in B : ahead(b, c)}
  BY DEF GeneratingSides
<1>. HIDE DEF A, B
<1>6. ASSUME NEW b \in A \cup B, NEW c \in A \cup B, ahead(b, c), c.rel < q
      PROVE  b.rel < q
  BY <1>4, <1>6
<1>7. \A d : d.rel < q => (d \in B <=> d \in A)
  BY <1>3 DEF A, B
<1>. HIDE DEF ahead
<1>8. \A c : c.rel < q => (c \in GeneratingSides(t) <=> c \in GeneratingSides(s))
  BY <1>5, <1>6, <1>7
<1>. QED  BY <1>8 DEF SidesBefore

\* The lengths, from that of its reference on, that a relationship shares with
\* members of sides declared before it: what it can still clash with.
RoomOf(s, q) ==
    {n \in Nat : /\ n >= Len(RefOf(s.rels[q]))
                 /\ \E c \in SidesBefore(s, q) : \E g \in GivenNames(c) : Len(g) >= n}

LEMMA GivenLength ==
    ASSUME NEW s \in Schema, NEW d \in SideRecord(s)
    PROVE  /\ Len(d.ref) \in Nat /\ BaseName(d) \in Name
           /\ \A g \in GivenNames(d) :
                g \in Name /\ Len(g) \in Nat /\ Len(d.ref) <= Len(g) /\ Len(g) <= Len(d.ref) + 2
<1>. DEFINE ref == d.ref
            many == d.type \in {"OneToMany", "ManyToMany"}
            long == Pluralize(ref)
            base == CamelCase(IF many THEN long ELSE ref)
<1>1. ref \in Name /\ long \in Name
  BY PluralizeType DEF SideRecord
<1>2. Len(ref) \in Nat /\ (Len(long) = Len(ref) \/ Len(long) = Len(ref) + 1)
  <2>1. "s" \in Token /\ ref \in Seq(Token)
    BY <1>1, NamingAssumption DEF Name
  <2>. HIDE DEF ref
  <2>. QED  BY <2>1 DEF Pluralize
<1>. HIDE DEF ref, long
<1>3. base \in Name /\ Len(base) \in Nat /\ Len(ref) <= Len(base) /\ Len(base) <= Len(ref) + 1
  <2>1. CASE many
    <3>1. base = CamelCase(long) /\ CamelCase(long) \in Name /\ Len(CamelCase(long)) = Len(long)
      BY <1>1, <2>1, CamelCaseType, CamelCaseLength
    <3>. QED  BY <1>2, <3>1
  <2>2. CASE ~many
    <3>1. base = CamelCase(ref) /\ CamelCase(ref) \in Name /\ Len(CamelCase(ref)) = Len(ref)
      BY <1>1, <2>2, CamelCaseType, CamelCaseLength
    <3>. QED  BY <1>2, <3>1
  <2>. QED  BY <2>1, <2>2
<1>4. BaseName(d) = base
  BY DEF BaseName, ref, long
<1>. HIDE DEF base
<1>5. ForeignKey(base) \in Name /\ Len(ForeignKey(base)) = Len(base) + 1
  <2>1. "Id" \in Token /\ base \in Seq(Token)
    BY <1>3, NamingAssumption DEF Name
  <2>. QED  BY <2>1 DEF ForeignKey, Name
<1>6. \A g \in GivenNames(d) : g = base \/ g = ForeignKey(base)
  BY <1>4, GivenNamesAre
<1>7. \A g \in GivenNames(d) :
            g \in Name /\ Len(g) \in Nat /\ Len(ref) <= Len(g) /\ Len(g) <= Len(ref) + 2
  BY <1>2, <1>3, <1>5, <1>6
<1>. QED  BY <1>2, <1>3, <1>4, <1>7 DEF ref

LEMMA TwoBooleans == IsFiniteSet(BOOLEAN) /\ Cardinality(BOOLEAN) = 2
<1>1. /\ IsFiniteSet({TRUE}) /\ Cardinality({TRUE}) = 1
      /\ IsFiniteSet({FALSE}) /\ Cardinality({FALSE}) = 1
  BY FS_Singleton
<1>. DEFINE yes == {TRUE}
            no == {FALSE}
            both == yes \cap no
<1>2. both = {} /\ BOOLEAN = yes \cup no
  OBVIOUS
<1>3. Cardinality(both) = 0
  BY <1>2, FS_EmptySet
<1>. HIDE DEF yes, no
<1>4. /\ IsFiniteSet(yes \cup no)
      /\ Cardinality(yes \cup no) = Cardinality(yes) + Cardinality(no) - Cardinality(both)
  BY <1>1, FS_Union DEF yes, no
<1>. HIDE DEF both
<1>5. Cardinality(yes \cup no) = 2
  BY <1>1, <1>3, <1>4 DEF yes, no
<1>. QED  BY <1>2, <1>4, <1>5, Zenon

LEMMA SidesFinite ==
    ASSUME NEW s \in Schema
    PROVE  /\ IsFiniteSet(GeneratingSides(s))
           /\ Cardinality(GeneratingSides(s)) <= 2 * Len(s.rels)
<1>. DEFINE D == (DOMAIN s.rels) \X BOOLEAN
            S == Range(Sides(s.rels))
            f == [d \in S |-> <<d.rel, d.isFrom>>]
            n == Len(s.rels)
<1>1. IsFiniteSet(D) /\ Cardinality(D) = 2 * n /\ n \in Nat
  <2>1. n \in Nat /\ DOMAIN s.rels = 1..n
    BY SchemaParts
  <2>. HIDE DEF n
  <2>2. IsFiniteSet(1..n) /\ Cardinality(1..n) = n
    BY <2>1, FS_Interval
  <2>. DEFINE N == 1..n
              B == BOOLEAN
  <2>. HIDE DEF N, B
  <2>3. Cardinality(N \X B) = Cardinality(N) * Cardinality(B) /\ IsFiniteSet(N \X B)
    BY <2>2, TwoBooleans, FS_Product DEF N, B
  <2>4. Cardinality(N) = n /\ Cardinality(B) = 2
    BY <2>2, TwoBooleans DEF N, B
  <2>5. Cardinality(N \X B) = 2 * n
    BY <2>1, <2>3, <2>4
  <2>. QED  BY <2>1, <2>3, <2>5 DEF N, B
<1>2. ASSUME NEW d \in S, NEW c \in S, d.rel = c.rel, d.isFrom = c.isFrom PROVE d = c
  <2>1. PICK k \in DOMAIN s.rels : d.rel = k /\ \E j \in DOMAIN Row(s, k) : d = Row(s, k)[j]
    BY SideOfRow
  <2>2. PICK i \in DOMAIN Row(s, k) : d = Row(s, k)[i]
    BY <2>1
  <2>3. PICK j \in DOMAIN Row(s, k) : c = Row(s, k)[j]
    BY <1>2, <2>1, SideOfRow
  <2>4. (d.isFrom <=> i = 1) /\ (c.isFrom <=> j = 1) /\ i \in 1..2 /\ j \in 1..2
    BY <2>2, <2>3, RowShape
  <2>5. i = j
    BY <1>2, <2>4
  <2>. QED  BY <2>2, <2>3, <2>5
<1>3. \A d \in S : d.rel \in DOMAIN s.rels /\ d.isFrom \in BOOLEAN
  BY SidesAre DEF SideRecord
<1>. HIDE DEF S
<1>4. f \in [S -> D] /\ \A d, c \in S : f[d] = f[c] => d = c
  BY <1>2, <1>3
<1>. HIDE DEF f, D, n
<1>5. f \in Injection(S, D)
  BY <1>4 DEF Injection, IsInjective
<1>6. IsFiniteSet(S) /\ Cardinality(S) <= 2 * n /\ Cardinality(S) \in Nat
  BY <1>1, <1>5, FS_Injection, FS_CardinalityType
<1>7. GeneratingSides(s) \subseteq S
  BY DEF GeneratingSides, S
<1>8. IsFiniteSet(GeneratingSides(s)) /\ Cardinality(GeneratingSides(s)) <= Cardinality(S)
  BY <1>6, <1>7, FS_Subset
<1>9. Cardinality(GeneratingSides(s)) \in Nat
  BY <1>8, FS_CardinalityType
<1>10. Cardinality(GeneratingSides(s)) <= 2 * n
  BY <1>1, <1>6, <1>8, <1>9
<1>. QED  BY <1>8, <1>10 DEF n

LEMMA RoomFinite ==
    ASSUME NEW s \in Schema, NEW q
    PROVE  IsFiniteSet(RoomOf(s, q)) /\ Cardinality(RoomOf(s, q)) \in Nat
<1>. DEFINE S == GeneratingSides(s)
            f == [c \in S |-> 0..(Len(c.ref) + 2)]
<1>1. \A c \in S : c \in SideRecord(s)
  BY OtherSide
<1>2. \A c \in S : Len(c.ref) \in Nat /\ IsFiniteSet(f[c])
  <2>. TAKE c \in S
  <2>1. Len(c.ref) \in Nat
    BY <1>1, GivenLength
  <2>. DEFINE n == Len(c.ref) + 2
  <2>2. n \in Nat /\ f[c] = 0..n
    BY <2>1
  <2>. HIDE DEF n, f
  <2>3. IsFiniteSet(0..n)
    BY <2>2, FS_Interval
  <2>. QED  BY <2>1, <2>2, <2>3
<1>3. RoomOf(s, q) \subseteq UNION Range(f)
  <2>. SUFFICES ASSUME NEW n \in RoomOf(s, q) PROVE \E c \in S : n \in f[c]
    BY DEF Range
  <2>0. PICK c \in S : n \in Nat /\ \E g \in GivenNames(c) : Len(g) >= n
    BY DEF RoomOf, SidesBefore
  <2>1. PICK g \in GivenNames(c) : Len(g) >= n
    BY <2>0
  <2>2. Len(g) \in Nat /\ Len(g) <= Len(c.ref) + 2 /\ Len(c.ref) \in Nat
    BY <1>1, GivenLength
  <2>3. n \in 0..(Len(c.ref) + 2)
    BY <2>0, <2>1, <2>2
  <2>. QED  BY <2>3
<1>4. IsFiniteSet(S) /\ DOMAIN f = S
  BY SidesFinite
<1>. HIDE DEF f, S
<1>5. IsFiniteSet(UNION Range(f))
  BY <1>2, <1>4, FiniteFamily
<1>. QED  BY <1>3, <1>5, FS_Subset, FS_CardinalityType

LEMMA RoomStays ==
    ASSUME NEW s \in Schema, NEW t \in Schema, NEW r, Names(s, t, r),
           NEW q \in DOMAIN s.rels, q < r
    PROVE  RoomOf(t, q) = RoomOf(s, q)
<1>1. r \in DOMAIN s.rels /\ (q # r => t.rels[q] = s.rels[q])
  BY NamesParts
<1>2. q \in Int /\ r \in Int
  BY <1>1, SchemaParts
<1>3. SidesBefore(t, q) = SidesBefore(s, q)
  BY <1>2, SidesBeforeKept
<1>. QED  BY <1>1, <1>2, <1>3 DEF RoomOf

LEMMA RoomShrinks ==
    ASSUME NEW s \in Schema, NEW t \in Schema, NamesRel(s, t), Named(s)
    PROVE  \E r \in DOMAIN s.rels :
                Names(s, t, r) /\ Cardinality(RoomOf(t, r)) < Cardinality(RoomOf(s, r))
<1>1. PICK d \in GeneratingSides(s), c \in GeneratingSides(s), name \in Name :
        /\ Clash(s, d, c) /\ d.isFrom
        /\ Len(name) >= Len(d.ref) + Len(s.rels[d.rel].to)
        /\ t = WithRel(s, d.rel, [s.rels[d.rel] EXCEPT !.toName = name])
  BY DEF NamesRel
<1>. DEFINE r == d.rel
            low == Len(d.ref)
<1>2. Names(s, t, r)
  BY <1>1 DEF Names
<1>3. /\ d \in SideRecord(s) /\ c \in SideRecord(s) /\ r \in DOMAIN s.rels
      /\ d.ref = RefOf(s.rels[r]) /\ low \in Nat
  BY <1>1, OtherSide, HereSide, GivenLength DEF GeneratingSides
<1>4. Len(name) > low /\ Len(name) \in Nat
  <2>1. s.rels[r].to \in Seq(Token) /\ s.rels[r].to # <<>>
    BY <1>3, SchemaParts, EndsOf DEF RelRecord, Name, Named, NoName
  <2>2. Len(s.rels[r].to) \in Nat /\ Len(s.rels[r].to) > 0 /\ Len(name) \in Nat
    BY <2>1 DEF Name
  <2>3. Len(name) >= low + Len(s.rels[r].to)
    BY <1>1
  <2>. HIDE DEF low, r
  <2>. QED  BY <1>3, <2>2, <2>3
<1>5. RefOf(t.rels[r]) = name
  <2>. DEFINE new == [s.rels[r] EXCEPT !.toName = name]
  <2>1. new.toName = name
    BY <1>3, SchemaParts DEF RelRecord
  <2>2. t.rels = [s.rels EXCEPT ![r] = new]
    BY <1>1 DEF WithRel, Schema
  <2>. HIDE DEF new
  <2>3. t.rels[r] = new
    BY <1>3, <2>2, SchemaParts
  <2>4. name # NoName
    BY <1>3, <1>4 DEF NoName
  <2>. QED  BY <2>1, <2>3, <2>4 DEF RefOf
<1>6. SidesBefore(t, r) = SidesBefore(s, r)
  <2>1. r \in Int
    BY <1>3, SchemaParts
  <2>. QED  BY <1>2, <2>1, SidesBeforeKept
<1>7. low \in RoomOf(s, r)
  <2>1. PICK g : g \in GivenNames(d) /\ g \in GivenNames(c)
    BY <1>1 DEF Clash
  <2>2. Len(g) >= low /\ c \in SidesBefore(s, r)
    BY <1>1, <1>3, <2>1, GivenLength DEF Clash, SidesBefore
  <2>. QED  BY <1>3, <2>1, <2>2 DEF RoomOf
<1>8. low \notin RoomOf(t, r)
  BY <1>3, <1>4, <1>5 DEF RoomOf
<1>9. RoomOf(t, r) \subseteq RoomOf(s, r)
  <2>. SUFFICES ASSUME NEW n \in Nat, n >= Len(name) PROVE n >= low
    BY <1>3, <1>5, <1>6 DEF RoomOf
  <2>. QED  BY <1>3, <1>4
<1>. HIDE DEF r, low
<1>10. Cardinality(RoomOf(t, r)) <= Cardinality(RoomOf(s, r))
       /\ Cardinality(RoomOf(t, r)) # Cardinality(RoomOf(s, r))
  BY <1>7, <1>8, <1>9, RoomFinite, FS_Subset
<1>11. Cardinality(RoomOf(t, r)) \in Nat /\ Cardinality(RoomOf(s, r)) \in Nat
  BY RoomFinite
<1>12. Cardinality(RoomOf(t, r)) < Cardinality(RoomOf(s, r))
  BY <1>10, <1>11
<1>. QED  BY <1>2, <1>3, <1>12 DEF r

-----------------------------------------------------------------------------
(* A field that gets a free name collides with no generated member.        *)

LEMMA MembersFew ==
    ASSUME NEW s \in Schema, NEW entity
    PROVE  LET given == GivenMembers(s, entity)
           IN  /\ IsFiniteSet(given) /\ given \subseteq Name
               /\ Cardinality(given) <= 4 * Len(s.rels) /\ Cardinality(given) \in Nat
<1>. DEFINE S == {d \in GeneratingSides(s) : d.entity = entity}
            B == BOOLEAN
            given == GivenMembers(s, entity)
            name(d, key) == IF key /\ d.type = "ManyToOne" THEN ForeignKey(BaseName(d)) ELSE BaseName(d)
            f == [x \in S \X B |-> name(x[1], x[2])]
            n == Len(s.rels)
<1>1. \A d \in S : d \in SideRecord(s)
  BY OtherSide
<1>2. given = UNION {GivenNames(d) : d \in S}
  BY DEF GivenMembers
<1>3. given \subseteq Name
  BY <1>1, <1>2, GivenLength
<1>4. \A d \in S : GivenNames(d) = {name(d, TRUE), name(d, FALSE)}
  BY GivenNamesAre
<1>5. f \in Surjection(S \X B, given)
  <2>. HIDE DEF S, name, given
  <2>1. \A d \in S, key \in B : name(d, key) \in given
    BY <1>2, <1>4
  <2>2. ASSUME NEW g \in given PROVE \E d \in S, key \in B : g = name(d, key)
    <3>1. PICK d \in S : g \in GivenNames(d)
      BY <1>2
    <3>2. g = name(d, TRUE) \/ g = name(d, FALSE)
      BY <1>4, <3>1
    <3>3. TRUE \in B /\ FALSE \in B
      OBVIOUS
    <3>. HIDE DEF B
    <3>. QED  BY <3>2, <3>3
  <2>3. f \in [S \X B -> given] /\ \A g \in given : \E x \in S \X B : f[x] = g
    <3>1. ASSUME NEW g \in given PROVE \E x \in S \X B : f[x] = g
      <4>1. PICK d \in S, key \in B : g = name(d, key)
        BY <2>2
      <4>. DEFINE x == <<d, key>>
      <4>2. x \in S \X B /\ f[x] = g
        BY <4>1
      <4>. QED  BY <4>2
    <3>2. f \in [S \X B -> given]
      BY <2>1
    <3>. QED  BY <3>1, <3>2
  <2>. HIDE DEF f, B
  <2>. QED  BY <2>3 DEF Surjection
<1>6. /\ IsFiniteSet(S) /\ Cardinality(S) <= 2 * n /\ Cardinality(S) \in Nat /\ n \in Nat
  <2>1. S \subseteq GeneratingSides(s) /\ n \in Nat
    BY SchemaParts
  <2>. HIDE DEF S
  <2>2. /\ IsFiniteSet(S) /\ Cardinality(S) <= Cardinality(GeneratingSides(s))
        /\ IsFiniteSet(GeneratingSides(s)) /\ Cardinality(GeneratingSides(s)) <= 2 * n
    BY <2>1, SidesFinite, FS_Subset
  <2>3. Cardinality(S) \in Nat /\ Cardinality(GeneratingSides(s)) \in Nat
    BY <2>2, FS_CardinalityType
  <2>. HIDE DEF n
  <2>. QED  BY <2>1, <2>2, <2>3
<1>7. IsFiniteSet(B) /\ Cardinality(B) = 2
  BY TwoBooleans
<1>. HIDE DEF S, B, f, given, n
<1>8. IsFiniteSet(S \X B) /\ Cardinality(S \X B) = Cardinality(S) * Cardinality(B)
  BY <1>6, <1>7, FS_Product
<1>9. Cardinality(S \X B) = 2 * Cardinality(S)
  BY <1>6, <1>7, <1>8
<1>10. IsFiniteSet(given) /\ Cardinality(given) <= Cardinality(S \X B)
  BY <1>5, <1>8, FS_Surjection
<1>11. Cardinality(given) \in Nat
  BY <1>10, FS_CardinalityType
<1>12. Cardinality(given) <= 4 * n
  BY <1>6, <1>9, <1>10, <1>11
<1>. QED  BY <1>3, <1>10, <1>11, <1>12 DEF given, n

LEMMA FieldsFew ==
    ASSUME NEW s \in Schema, NEW i \in DOMAIN s.entities
    PROVE  /\ IsFiniteSet(FieldNames(s, i)) /\ FieldNames(s, i) \subseteq Name
           /\ Cardinality(FieldNames(s, i)) <= Len(s.entities[i].fields)
           /\ Cardinality(FieldNames(s, i)) \in Nat
<1>. DEFINE n == Len(s.entities[i].fields)
            f == [j \in 1..n |-> s.entities[i].fields[j].name]
<1>1. /\ n \in Nat /\ DOMAIN s.entities[i].fields = 1..n
      /\ \A j \in 1..n : s.entities[i].fields[j] \in FieldRecord
  BY SchemaParts, EntityParts
<1>2. FieldNames(s, i) = {f[j] : j \in 1..n} /\ FieldNames(s, i) \subseteq Name
  BY <1>1 DEF FieldNames, FieldRecord
<1>3. f \in Surjection(1..n, FieldNames(s, i))
  <2>1. DOMAIN f = 1..n /\ f = [j \in 1..n |-> f[j]]
    OBVIOUS
  <2>. HIDE DEF f, n
  <2>2. f \in [1..n -> FieldNames(s, i)] /\ \A e \in FieldNames(s, i) : \E j \in 1..n : f[j] = e
    BY <1>2, <2>1
  <2>. QED  BY <2>2 DEF Surjection
<1>. HIDE DEF f, n
<1>4. IsFiniteSet(1..n) /\ Cardinality(1..n) = n
  BY <1>1, FS_Interval
<1>5. IsFiniteSet(FieldNames(s, i)) /\ Cardinality(FieldNames(s, i)) <= n
  BY <1>3, <1>4, FS_Surjection
<1>6. Cardinality(FieldNames(s, i)) \in Nat
  BY <1>5, FS_CardinalityType
<1>. QED  BY <1>2, <1>5, <1>6 DEF n

\* The fields a relationship generates too.
Colliding(s) ==
    {p \in FieldPlaces(s) : Field(s, p).name \in GivenMembers(s, s.entities[p[1]].name)}

LEMMA CollidingFinite ==
    ASSUME NEW s \in Schema
    PROVE  IsFiniteSet(Colliding(s)) /\ Cardinality(Colliding(s)) \in Nat
<1>1. Colliding(s) \subseteq FieldPlaces(s)
  BY DEF Colliding
<1>. QED  BY <1>1, PlacesFinite, FS_Subset, FS_CardinalityType

LEMMA CollidingShrinks ==
    ASSUME NEW s \in Schema, NEW t \in Schema, RenamesField(s, t), EnoughNumerals(s)
    PROVE  Cardinality(Colliding(t)) < Cardinality(Colliding(s))
<1>1. /\ t.rels = s.rels /\ FieldPlaces(t) = FieldPlaces(s)
      /\ \A k \in DOMAIN s.entities : t.entities[k].name = s.entities[k].name
  BY RenamesFieldParts
<1>2. PICK p \in FieldPlaces(s), suffix \in {"_text", "_value"} :
        LET given == GivenMembers(s, s.entities[p[1]].name)
        IN  /\ Field(s, p).name \in given
            /\ Field(t, p).name = FreeName(Append(Field(s, p).name, suffix),
                                           FieldNames(s, p[1]) \cup given)
            /\ \A q \in FieldPlaces(s) : q # p => Field(t, q) = Field(s, q)
  BY RenamesFieldParts
<1>. DEFINE i == p[1]
            own == FieldNames(s, i)
            given == GivenMembers(s, s.entities[i].name)
            base == Append(Field(s, p).name, suffix)
<1>3. i \in DOMAIN s.entities /\ Field(s, p) \in FieldRecord
  BY PlaceParts
<1>4. base \in Name
  <2>1. Field(s, p).name \in Name /\ suffix \in Token
    BY <1>3, RulesAssumption DEF FieldRecord
  <2>. QED  BY <2>1, SuffixType
<1>5. /\ IsFiniteSet(own \cup given) /\ own \cup given \subseteq Name
      /\ Cardinality(own \cup given) <= Len(Numeral)
  <2>. DEFINE a == Len(s.entities[i].fields)
              n == Len(s.rels)
              top == Len(Numeral)
  <2>1. /\ IsFiniteSet(own) /\ own \subseteq Name /\ Cardinality(own) <= a /\ Cardinality(own) \in Nat
    BY <1>3, FieldsFew
  <2>2. /\ IsFiniteSet(given) /\ given \subseteq Name
        /\ Cardinality(given) <= 4 * n /\ Cardinality(given) \in Nat
    BY MembersFew
  <2>3. a + 4 * n <= top
    BY <1>3 DEF EnoughNumerals
  <2>4. a \in Nat /\ n \in Nat /\ top \in Nat
    BY <1>3, SchemaParts, EntityParts, NamingAssumption
  <2>. HIDE DEF own, given, a, n, top
  <2>5. /\ IsFiniteSet(own \cup given)
        /\ Cardinality(own \cup given) = Cardinality(own) + Cardinality(given) - Cardinality(own \cap given)
    BY <2>1, <2>2, FS_Union
  <2>6. IsFiniteSet(own \cap given)
    <3>1. own \cap given \subseteq own
      OBVIOUS
    <3>. QED  BY <2>1, <3>1, FS_Subset
  <2>7. Cardinality(own \cap given) \in Nat
    BY <2>6, FS_CardinalityType
  <2>8. Cardinality(own \cup given) <= top
    BY <2>1, <2>2, <2>3, <2>4, <2>5, <2>7
  <2>. QED  BY <2>1, <2>2, <2>5, <2>8 DEF top
<1>6. Field(t, p).name \notin given
  <2>1. Field(t, p).name = FreeName(base, own \cup given)
    BY <1>2
  <2>. HIDE DEF own, given, base
  <2>2. FreeName(base, own \cup given) \notin own \cup given
    BY <1>4, <1>5, FreeNameFresh
  <2>. QED  BY <2>1, <2>2
<1>7. \A e : GivenMembers(t, e) = GivenMembers(s, e)
  BY <1>1 DEF GivenMembers, GeneratingSides
<1>8. \A q \in FieldPlaces(s) : t.entities[q[1]].name = s.entities[q[1]].name
  BY <1>1 DEF FieldPlaces
<1>9. Colliding(t) \subseteq Colliding(s) /\ p \in Colliding(s) /\ p \notin Colliding(t)
  BY <1>1, <1>2, <1>6, <1>7, <1>8 DEF Colliding
<1>10. Cardinality(Colliding(t)) <= Cardinality(Colliding(s))
       /\ Cardinality(Colliding(t)) # Cardinality(Colliding(s))
  BY <1>9, CollidingFinite, FS_Subset
<1>11. Cardinality(Colliding(t)) \in Nat /\ Cardinality(Colliding(s)) \in Nat
  BY CollidingFinite
<1>. QED  BY <1>10, <1>11

-----------------------------------------------------------------------------
(* No schema has passes for ever: each number settles, then the next one,  *)
(* and the last one cannot.                                                *)

\* Passes that do not rename a field only rename relationships from the q-th on,
\* and each leaves the relationship less to clash with.
NamesFrom(B, q) ==
    \A s, t \in B : Pass(s, t) /\ ~RenamesField(s, t) =>
        \E r \in DOMAIN s.rels :
            r >= q /\ Names(s, t, r) /\ Cardinality(RoomOf(t, r)) < Cardinality(RoomOf(s, r))

LEMMA EndlessInPlace ==
    ASSUME NEW B, Endless(B), \A s \in B : Named(s) /\ EnoughNumerals(s)
    PROVE  \E C \in SUBSET B : /\ Endless(C) /\ NamesFrom(C, 1)
                               /\ \A s, t \in C : Len(s.rels) = Len(t.rels)
<1>1. PICK C \in SUBSET B : Endless(C) /\ \A s, t \in C : Parts(s) = Parts(t)
  <2>. DEFINE m == [s \in B |-> Parts(s)]
  <2>1. B \subseteq Schema
    BY DEF Endless
  <2>2. m \in [B -> Nat] /\ \A s \in B : m[s] = Parts(s)
    BY <2>1, PartsAre
  <2>3. \A s, t \in B : Pass(s, t) => Parts(t) <= Parts(s)
    BY <2>1, PassIs, MendsParts
  <2>4. \A s, t \in B : Pass(s, t) => m[t] <= m[s]
    BY <2>2, <2>3
  <2>. HIDE DEF m
  <2>5. PICK C \in SUBSET B : Endless(C) /\ \A s, t \in C : m[s] = m[t]
    BY <2>2, <2>4, Settles
  <2>. QED  BY <2>2, <2>5
<1>2. C \subseteq Schema
  BY <1>1 DEF Endless
<1>3. \A s, t \in C : Pass(s, t) => MendsInPlace(s, t) /\ Len(t.rels) = Len(s.rels)
  BY <1>1, <1>2, PassIs, MendsParts
<1>4. PICK D \in SUBSET C : Endless(D) /\ \A s, t \in D : Todo(s) = Todo(t)
  <2>. DEFINE m == [s \in C |-> Todo(s)]
  <2>1. ASSUME NEW s \in C PROVE Todo(s) \in Nat
    <3>1. PICK t \in C : Pass(s, t)
      BY <1>1 DEF Endless
    <3>. QED  BY <1>2, <1>3, <3>1, MendsInPlaceTodo
  <2>2. m \in [C -> Nat] /\ \A s \in C : m[s] = Todo(s)
    BY <2>1
  <2>3. \A s, t \in C : Pass(s, t) => Todo(t) <= Todo(s)
    BY <1>2, <1>3, MendsInPlaceTodo
  <2>4. \A s, t \in C : Pass(s, t) => m[t] <= m[s]
    BY <2>2, <2>3
  <2>. HIDE DEF m
  <2>5. PICK D \in SUBSET C : Endless(D) /\ \A s, t \in D : m[s] = m[t]
    BY <1>1, <2>2, <2>4, Settles
  <2>. QED  BY <2>2, <2>5
<1>5. \A s, t \in D : Pass(s, t) => RenamesField(s, t) \/ NamesRel(s, t)
  BY <1>2, <1>3, <1>4, MendsInPlaceTodo
<1>6. PICK E \in SUBSET D : Endless(E) /\ \A s, t \in E : Len(s.rels) = Len(t.rels)
  <2>. DEFINE m == [s \in D |-> Len(s.rels)]
  <2>1. m \in [D -> Nat] /\ \A s \in D : m[s] = Len(s.rels)
    BY <1>2, <1>4, SchemaParts
  <2>2. \A s \in D : Len(s.rels) \in Nat
    BY <1>2, <1>4, SchemaParts
  <2>3. \A s, t \in D : Pass(s, t) => m[t] <= m[s]
    BY <1>3, <1>4, <2>1, <2>2
  <2>. HIDE DEF m
  <2>4. PICK E \in SUBSET D : Endless(E) /\ \A s, t \in E : m[s] = m[t]
    BY <1>4, <2>1, <2>3, Settles
  <2>. QED  BY <2>1, <2>4
<1>7. ASSUME NEW s \in E, NEW t \in E, Pass(s, t), ~RenamesField(s, t)
      PROVE  \E r \in DOMAIN s.rels : /\ r >= 1 /\ Names(s, t, r)
                                      /\ Cardinality(RoomOf(t, r)) < Cardinality(RoomOf(s, r))
  <2>1. NamesRel(s, t) /\ Named(s) /\ s \in Schema /\ t \in Schema
    BY <1>2, <1>4, <1>5, <1>6, <1>7
  <2>2. \A r \in DOMAIN s.rels : r >= 1
    BY <2>1, SchemaParts
  <2>. QED  BY <2>1, <2>2, RoomShrinks
<1>8. NamesFrom(E, 1)
  BY <1>7 DEF NamesFrom
<1>9. E \in SUBSET B
  BY <1>1, <1>4, <1>6
<1>. QED  BY <1>6, <1>8, <1>9

LEMMA NamesLater ==
    ASSUME NEW B, Endless(B), NEW q \in Nat, NamesFrom(B, q), \A s \in B : q \in DOMAIN s.rels
    PROVE  \E C \in SUBSET B : Endless(C) /\ NamesFrom(C, q + 1)
<1>0. B \subseteq Schema
  BY DEF Endless
<1>. DEFINE m == [s \in B |-> Cardinality(RoomOf(s, q))]
<1>1. \A s \in B : Cardinality(RoomOf(s, q)) \in Nat
  BY <1>0, RoomFinite
<1>2. m \in [B -> Nat] /\ \A s \in B : m[s] = Cardinality(RoomOf(s, q))
  BY <1>1
<1>3. ASSUME NEW s \in B, NEW t \in B, Pass(s, t)
      PROVE  m[t] <= m[s]
  <2>1. s \in Schema /\ t \in Schema
    BY <1>0
  <2>2. CASE RenamesField(s, t)
    <3>1. t.rels = s.rels
      BY <2>1, <2>2, RenamesFieldParts
    <3>2. RoomOf(t, q) = RoomOf(s, q)
      BY <3>1 DEF RoomOf, SidesBefore, GeneratingSides
    <3>. QED  BY <1>1, <1>2, <3>2
  <2>3. CASE ~RenamesField(s, t)
    <3>1. PICK r \in DOMAIN s.rels :
            r >= q /\ Names(s, t, r) /\ Cardinality(RoomOf(t, r)) < Cardinality(RoomOf(s, r))
      BY <1>3, <2>3 DEF NamesFrom
    <3>2. CASE r = q
      BY <1>1, <1>2, <3>1, <3>2
    <3>3. CASE r # q
      <4>1. r \in Nat
        BY <2>1, SchemaParts
      <4>2. q < r
        BY <3>1, <3>3, <4>1
      <4>3. RoomOf(t, q) = RoomOf(s, q)
        BY <2>1, <3>1, <4>2, RoomStays
      <4>. QED  BY <1>1, <1>2, <4>3
    <3>. QED  BY <3>2, <3>3
  <2>. QED  BY <2>2, <2>3
<1>. HIDE DEF m
<1>4. PICK C \in SUBSET B : Endless(C) /\ \A s, t \in C : m[s] = m[t]
  BY <1>2, <1>3, Settles
<1>5. ASSUME NEW s \in C, NEW t \in C, Pass(s, t), ~RenamesField(s, t)
      PROVE  \E r \in DOMAIN s.rels : /\ r >= q + 1 /\ Names(s, t, r)
                                      /\ Cardinality(RoomOf(t, r)) < Cardinality(RoomOf(s, r))
  <2>1. PICK r \in DOMAIN s.rels :
          r >= q /\ Names(s, t, r) /\ Cardinality(RoomOf(t, r)) < Cardinality(RoomOf(s, r))
    BY <1>4, <1>5 DEF NamesFrom
  <2>2. r # q
    BY <1>1, <1>2, <1>4, <2>1
  <2>3. r \in Nat
    BY <1>0, <1>4, SchemaParts
  <2>4. r >= q + 1
    BY <2>1, <2>2, <2>3
  <2>. QED  BY <2>1, <2>4
<1>6. NamesFrom(C, q + 1)
  BY <1>5 DEF NamesFrom
<1>. QED  BY <1>4, <1>6

LEMMA EndlessRenames ==
    ASSUME NEW B, Endless(B), \A s \in B : Named(s) /\ EnoughNumerals(s)
    PROVE  \E C \in SUBSET B : Endless(C) /\ \A s, t \in C : Pass(s, t) => RenamesField(s, t)
<1>1. PICK C \in SUBSET B : /\ Endless(C) /\ NamesFrom(C, 1)
                            /\ \A s, t \in C : Len(s.rels) = Len(t.rels)
  BY EndlessInPlace
<1>2. PICK first \in C : first \in Schema
  BY <1>1 DEF Endless
<1>. DEFINE n == Len(first.rels)
<1>3. n \in Nat /\ \A s \in C : DOMAIN s.rels = 1..n
  <2>1. \A s \in C : s \in Schema /\ Len(s.rels) = n
    BY <1>1 DEF Endless
  <2>. QED  BY <1>2, <2>1, SchemaParts
<1>. HIDE DEF n
<1>. DEFINE A == {k \in 0..n : \E D \in SUBSET C : Endless(D) /\ NamesFrom(D, n + 1 - k)}
<1>4. A \subseteq Nat /\ A # {}
  <2>1. n \in 0..n /\ n + 1 - n = 1
    BY <1>3
  <2>2. C \in SUBSET C /\ Endless(C) /\ NamesFrom(C, n + 1 - n)
    BY <1>1, <2>1
  <2>3. n \in A
    BY <2>1, <2>2
  <2>4. 0..n \subseteq Nat
    BY <1>3
  <2>. QED  BY <2>3, <2>4
<1>5. PICK k \in A : \A j \in A : k <= j
  <2>. HIDE DEF A
  <2>. QED  BY <1>4, LeastOf
<1>6. k \in 0..n
  OBVIOUS
<1>7. PICK D \in SUBSET C : Endless(D) /\ NamesFrom(D, n + 1 - k)
  OBVIOUS
<1>8. k = 0
  <2>. SUFFICES ASSUME k # 0 PROVE FALSE
    OBVIOUS
  <2>. DEFINE q == n + 1 - k
  <2>1. q \in Nat /\ q \in 1..n /\ q + 1 = n + 1 - (k - 1) /\ k - 1 \in 0..n /\ ~(k <= k - 1)
    BY <1>3, <1>6
  <2>2. \A s \in D : q \in DOMAIN s.rels
    BY <1>3, <1>7, <2>1
  <2>3. Endless(D) /\ NamesFrom(D, q)
    BY <1>7
  <2>. HIDE DEF q
  <2>4. PICK F \in SUBSET D : Endless(F) /\ NamesFrom(F, q + 1)
    BY <2>1, <2>2, <2>3, NamesLater
  <2>5. F \in SUBSET C /\ NamesFrom(F, n + 1 - (k - 1))
    BY <1>7, <2>1, <2>4
  <2>6. k - 1 \in A
    BY <2>1, <2>4, <2>5
  <2>. QED  BY <1>5, <2>1, <2>6
<1>9. ASSUME NEW s \in D, NEW t \in D, Pass(s, t), ~RenamesField(s, t)
      PROVE  FALSE
  <2>1. n + 1 - k = n + 1
    BY <1>3, <1>8
  <2>2. \E r \in DOMAIN s.rels : r >= n + 1
    BY <1>7, <1>9, <2>1 DEF NamesFrom
  <2>3. DOMAIN s.rels = 1..n
    BY <1>3, <1>7
  <2>. QED  BY <1>3, <2>2, <2>3
<1>10. D \in SUBSET B /\ Endless(D)
  BY <1>1, <1>7
<1>. QED  BY <1>9, <1>10

LEMMA NoEndless ==
    ASSUME NEW B, Endless(B), \A s \in B : Named(s) /\ EnoughNumerals(s)
    PROVE  FALSE
<1>1. PICK C \in SUBSET B : Endless(C) /\ \A s, t \in C : Pass(s, t) => RenamesField(s, t)
  BY EndlessRenames
<1>2. C \subseteq Schema
  BY <1>1 DEF Endless
<1>3. \A s, t \in C : Pass(s, t) => Cardinality(Colliding(t)) < Cardinality(Colliding(s))
  BY <1>1, <1>2, CollidingShrinks
<1>. DEFINE m == [s \in C |-> Cardinality(Colliding(s))]
<1>4. \A s \in C : Cardinality(Colliding(s)) \in Nat
  BY <1>2, CollidingFinite
<1>5. m \in [C -> Nat] /\ \A s \in C : m[s] = Cardinality(Colliding(s))
  BY <1>4
<1>6. \A s, t \in C : Pass(s, t) => m[t] < m[s]
  BY <1>3, <1>5
<1>7. \A s \in C : m[s] \in Nat
  BY <1>5
<1>8. \A s, t \in C : Pass(s, t) => m[t] <= m[s]
  BY <1>6, <1>7
<1>. HIDE DEF m
<1>9. PICK D \in SUBSET C : Endless(D) /\ \A s, t \in D : m[s] = m[t]
  BY <1>1, <1>5, <1>8, Settles
<1>10. PICK s \in D, t \in D : Pass(s, t)
  BY <1>9 DEF Endless
<1>11. m[t] < m[s] /\ m[s] = m[t] /\ m[s] \in Nat
  BY <1>6, <1>7, <1>9, <1>10
<1>. QED  BY <1>11

-----------------------------------------------------------------------------
(* The passes of one call.                                                 *)

\* What n passes make of s.
Passes(s, n) ==
    {t \in Schema : \E run \in [0..n -> Schema] :
        /\ run[0] = s /\ run[n] = t
        /\ \A k \in 0..(n - 1) : Pass(run[k], run[k + 1])}

LEMMA PassesAfterOne ==
    ASSUME NEW s \in Schema, NEW t \in Schema, Pass(s, t), NEW n \in Nat, Passes(s, n + 1) # {}
    PROVE  Passes(t, n) # {}
<1>1. PICK run \in [0..(n + 1) -> Schema] :
        run[0] = s /\ \A k \in 0..((n + 1) - 1) : Pass(run[k], run[k + 1])
  BY DEF Passes
<1>2. run[1] = t
  <2>1. Pass(run[0], run[0 + 1]) /\ 0 + 1 = 1 /\ run[0] = s
    BY <1>1
  <2>. QED  BY <2>1, PassIs
<1>. DEFINE rest == [k \in 0..n |-> run[k + 1]]
<1>3. rest \in [0..n -> Schema] /\ rest[0] = t /\ rest[n] \in Schema
  BY <1>1, <1>2
<1>4. ASSUME NEW k \in 0..(n - 1) PROVE Pass(rest[k], rest[k + 1])
  <2>1. k \in 0..n /\ k + 1 \in 0..n /\ k + 1 \in 0..((n + 1) - 1)
    OBVIOUS
  <2>2. rest[k] = run[k + 1] /\ rest[k + 1] = run[(k + 1) + 1]
    BY <2>1
  <2>. QED  BY <1>1, <2>1, <2>2
<1>. HIDE DEF rest
<1>5. rest[n] \in Passes(t, n)
  BY <1>3, <1>4 DEF Passes
<1>. QED  BY <1>5

\* The passes of fixSchema come to an end on every schema, without its cap: no
\* fix undoes another.  Entities and ends of relationships have names, and there
\* are numbers to tell apart the members of a class.  (lint.ts 36-43)
THEOREM FixingEnds ==
    \A s \in Schema : Named(s) /\ EnoughNumerals(s) => \E n \in Nat : Passes(s, n) = {}
<1>. DEFINE B == {s \in Schema : /\ Named(s) /\ EnoughNumerals(s)
                                 /\ \A n \in Nat : Passes(s, n) # {}}
<1>. SUFFICES ASSUME NEW s \in B PROVE FALSE
  OBVIOUS
<1>1. ASSUME NEW a \in B PROVE \E b \in B : Pass(a, b)
  <2>1. PICK run \in [0..1 -> Schema] : run[0] = a /\ \A k \in 0..(1 - 1) : Pass(run[k], run[k + 1])
    <3>1. Passes(a, 1) # {}
      OBVIOUS
    <3>. QED  BY <3>1 DEF Passes
  <2>2. Pass(a, run[1]) /\ run[1] \in Schema
    <3>1. 0 \in 0..(1 - 1) /\ 0 + 1 = 1
      OBVIOUS
    <3>. QED  BY <2>1, <3>1
  <2>3. Named(run[1]) /\ EnoughNumerals(run[1])
    BY <2>2, PassIs, MendsNamed
  <2>4. ASSUME NEW n \in Nat PROVE Passes(run[1], n) # {}
    <3>1. Passes(a, n + 1) # {}
      OBVIOUS
    <3>. QED  BY <2>2, <3>1, PassesAfterOne
  <2>. QED  BY <2>2, <2>3, <2>4
<1>2. B # {} /\ B \subseteq Schema /\ \A a \in B : Named(a) /\ EnoughNumerals(a)
  OBVIOUS
<1>. HIDE DEF B
<1>3. Endless(B)
  BY <1>1, <1>2 DEF Endless
<1>. QED  BY <1>2, <1>3, NoEndless
=============================================================================
