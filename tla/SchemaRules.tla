----------------------------- MODULE SchemaRules -----------------------------
(***************************************************************************)
(* The lint rules of schema-tools (rules.ts) and their fixes.  A finding   *)
(* carries the schema its fix would produce.  The rules without a fix that *)
(* are warnings, and those about the spelling of a name (invalid           *)
(* characters, length, style), are left out; `uniques` are treated by every*)
(* rule exactly like `indexes` and are kept with them.                     *)
(***************************************************************************)
EXTENDS SchemaNaming

CONSTANTS
    Reserved    \* entity names the generated code cannot use

FieldType == {"text", "integer", "enum"}

\* Wrong spellings with an unambiguous meaning; others have no fix.
TypeAlias == [number |-> "integer"]

RelationshipType == {"OneToMany", "ManyToOne", "ManyToMany", "OneToOne"}

RelationshipAlias == [many_to_one |-> "ManyToOne", one_to_many |-> "OneToMany"]

ASSUME RulesAssumption ==
    /\ \A name \in Reserved :
        LET safe == Append(PascalCase(name), "Record")
        IN  /\ name # <<>> /\ safe \notin Reserved
            /\ \A numeral \in Range(Numeral) : Append(safe, numeral) \notin Reserved
    /\ FieldType \cup DOMAIN TypeAlias \cup RelationshipType
        \cup {"Record", "_text", "_value"} \subseteq Token

-----------------------------------------------------------------------------
(* Positions and edits.                                                    *)

Each(seq, Make(_)) == [k \in DOMAIN seq |-> Make(seq[k])]

\* Rules run over entities in order, and over the parts of each in order.
Nested(parts) ==
    FlattenSeq([i \in DOMAIN parts |->
        [k \in 1..Cardinality(parts[i]) |-> <<i, InOrder(parts[i])[k]>>]])

\* The fields that satisfy a rule's condition, as pairs of positions.
FieldsWhere(s, Test(_, _)) ==
    Nested([i \in DOMAIN s.entities |-> {j \in DOMAIN s.entities[i].fields : Test(i, j)}])

Field(s, p) == s.entities[p[1]].fields[p[2]]

FieldNames(s, i) ==
    {s.entities[i].fields[j].name : j \in DOMAIN s.entities[i].fields}

EntityNames(s) == {s.entities[i].name : i \in DOMAIN s.entities}

\* Applies a renaming to the columns of every index of an entity.
MapColumns(entity, To(_)) ==
    [entity EXCEPT !.indexes =
        Each(@, LAMBDA c : [c EXCEPT !.fields = Each(@, To)])]

\* renameField: the indexes keep pointing at the field.
RenamedField(s, p, to) ==
    LET from == Field(s, p).name
        entity == [s.entities[p[1]] EXCEPT !.fields[p[2]].name = to]
    IN  [s EXCEPT !.entities[p[1]] =
            MapColumns(entity, LAMBDA n : IF n = from THEN to ELSE n)]

\* renameEntity: every relationship end that names the entity follows.
RenamedEntity(s, i, to) ==
    LET from == s.entities[i].name
        follow(n) == IF n = from THEN to ELSE n
    IN  [entities |-> [s.entities EXCEPT ![i].name = to],
         rels |-> Each(s.rels, LAMBDA r :
            [r EXCEPT !.from = follow(@), !.to = follow(@)])]

WithoutField(s, p) == [s EXCEPT !.entities[p[1]].fields = RemoveAt(@, p[2])]

\* Mutant: the generated name is not checked against the taken ones.
FirstName(base, taken) == base

\* The first of base, base2, base3, ... not taken (base itself if Numeral runs out).
FreeName(base, taken) ==
    LET free == {n \in DOMAIN Numeral : Append(base, Numeral[n]) \notin taken}
    IN  IF base \notin taken \/ free = {} THEN base ELSE Append(base, Numeral[Min(free)])

-----------------------------------------------------------------------------
(* Findings.                                                               *)

Finding(rule, severity, entity, field, rel) ==
    [rule |-> rule, severity |-> severity, entity |-> entity, field |-> field,
     rel |-> rel, fixable |-> FALSE, fixed |-> {}]

FixedBy(finding, s) == [finding EXCEPT !.fixable = TRUE, !.fixed = {s}]

Error(rule, entity, field, rel) == Finding(rule, "error", entity, field, rel)

Warning(rule, entity, field, rel) == Finding(rule, "warning", entity, field, rel)

DuplicateEntityNames(s) ==
    LET second == InOrder({i \in DOMAIN s.entities :
            Cardinality({j \in 1..(i - 1) :
                            s.entities[j].name = s.entities[i].name}) = 1})
    IN  Each(second, LAMBDA i :
            Error("DUPLICATE_ENTITY_NAME", s.entities[i].name, NoName, <<>>))

ReservedEntityNames(s) ==
    LET reserved == InOrder({i \in DOMAIN s.entities : s.entities[i].name \in Reserved})
        safe(name) == FreeName(Append(PascalCase(name), "Record"), EntityNames(s))
    IN  Each(reserved, LAMBDA i :
            LET name == s.entities[i].name
            IN  FixedBy(Error("RESERVED_ENTITY_NAME", name, NoName, <<>>),
                        RenamedEntity(s, i, safe(name))))

DuplicateFieldNames(s) ==
    LET fields(i) == s.entities[i].fields
        earlier(i, j) == {k \in 1..(j - 1) : fields(i)[k].name = fields(i)[j].name}
        second == FieldsWhere(s, LAMBDA i, j : Cardinality(earlier(i, j)) = 1)
        keepFirst(i, name) ==
            AtPositions(fields(i), {j \in DOMAIN fields(i) :
                fields(i)[j].name # name \/ earlier(i, j) = {}})
    IN  Each(second, LAMBDA p :
            LET name == Field(s, p).name
            IN  FixedBy(Error("DUPLICATE_FIELD_NAME", s.entities[p[1]].name, name, <<>>),
                        [s EXCEPT !.entities[p[1]].fields = keepFirst(p[1], name)]))

UnknownFieldTypes(s) ==
    LET unknown == FieldsWhere(s, LAMBDA i, j : s.entities[i].fields[j].type \notin FieldType)
    IN  Each(unknown, LAMBDA p :
            LET f == Field(s, p)
                e == Error("UNKNOWN_FIELD_TYPE", s.entities[p[1]].name, f.name, <<>>)
            IN  IF f.type \in DOMAIN TypeAlias
                THEN FixedBy(e, [s EXCEPT !.entities[p[1]].fields[p[2]].type =
                                    TypeAlias[f.type]])
                ELSE e)

EnumsWithoutValues(s) ==
    LET empty == FieldsWhere(s, LAMBDA i, j :
            s.entities[i].fields[j].type = "enum" /\ ~s.entities[i].fields[j].values)
    IN  Each(empty, LAMBDA p :
            FixedBy(Error("ENUM_WITHOUT_VALUES", s.entities[p[1]].name,
                          Field(s, p).name, <<>>),
                    [s EXCEPT !.entities[p[1]].fields[p[2]].type = "text"]))

InvalidRelationshipTypes(s) ==
    LET invalid == InOrder({i \in DOMAIN s.rels : s.rels[i].type \notin RelationshipType})
    IN  Each(invalid, LAMBDA i :
            LET e == Error("RELATIONSHIP_INVALID_TYPE", NoName, NoName, Describe(s.rels[i]))
            IN  IF s.rels[i].type \in DOMAIN RelationshipAlias
                THEN FixedBy(e, [s EXCEPT !.rels[i].type = RelationshipAlias[@]])
                ELSE e)

MissingEntities(s) ==
    LET atFrom(i) == s.rels[i].from \notin EntityNames(s)
        atTo(i) == s.rels[i].to \notin EntityNames(s)
        similar(name) == SelectInSeq(s.entities, LAMBDA e : SameIgnoringCase(e.name, name))
        error(i, name) ==
            Error("RELATIONSHIP_MISSING_ENTITY", name, NoName, Describe(s.rels[i]))
        ofFrom(i) ==
            LET name == s.rels[i].from
            IN  IF similar(name) = 0 THEN error(i, name)
                ELSE FixedBy(error(i, name),
                        [s EXCEPT !.rels[i].from = s.entities[similar(name)].name])
        ofTo(i) ==
            LET name == s.rels[i].to
            IN  IF similar(name) = 0 THEN error(i, name)
                ELSE FixedBy(error(i, name),
                        [s EXCEPT !.rels[i].to = s.entities[similar(name)].name])
    IN  FlattenSeq([i \in DOMAIN s.rels |->
            (IF atFrom(i) THEN <<ofFrom(i)>> ELSE <<>>)
            \o (IF atTo(i) THEN <<ofTo(i)>> ELSE <<>>)])

\* Fields whose name a relationship generates too, with the generated property.
CollidingFields(s, props, foreignKey) ==
    LET generated(i, j) ==
            Claimant(props, s.entities[i].name, s.entities[i].fields[j].name)
    IN  FieldsWhere(s, LAMBDA i, j :
            generated(i, j) # 0 /\ props[generated(i, j)].foreignKey = foreignKey)

ForeignKeyFieldDuplicates(s, props) ==
    Each(CollidingFields(s, props, TRUE), LAMBDA p :
        LET entity == s.entities[p[1]].name
            name == Field(s, p).name
            prop == props[Claimant(props, entity, name)]
        IN  FixedBy(Error("FOREIGN_KEY_FIELD_DUPLICATE", entity, name,
                          Describe(s.rels[prop.side.rel])),
                    WithoutField(s, p)))

FieldRelationshipCollisions(s, props) ==
    Each(CollidingFields(s, props, FALSE), LAMBDA p :
        LET entity == s.entities[p[1]].name
            f == Field(s, p)
            prop == props[Claimant(props, entity, f.name)]
            suffix == IF f.type = "text" THEN "_text" ELSE "_value"
            renamed == FreeName(Append(f.name, suffix),
                                FieldNames(s, p[1]) \cup NamesOn(props, entity))
        IN  FixedBy(Error("FIELD_RELATIONSHIP_COLLISION", entity, f.name,
                          Describe(s.rels[prop.side.rel])),
                    RenamedField(s, p, renamed)))

\* Two relationships generate one property: rename it where to_name applies,
\* or stop a ManyToOne from generating its inverse; otherwise there is no fix.
RelationshipPropertyClashes(s, props) ==
    LET first(k) == props[Claimant(props, props[k].entity, props[k].name)]
        clashes == InOrder({k \in Clashes(props) : first(k).side.rel # props[k].side.rel})
    IN  Each(clashes, LAMBDA k :
            LET second == props[k]
                r == second.side.rel
                e == Error("RELATIONSHIP_PROPERTY_CLASH", second.entity, second.name,
                           Describe(s.rels[r]))
                toName == FreeName(CamelCase(second.side.ref) \o PascalCase(s.rels[r].to),
                                   NamesOn(props, second.entity))
            IN  CASE second.side.isFrom ->
                        FixedBy(e, [s EXCEPT !.rels[r].toName = toName])
                  [] ~second.side.isFrom /\ s.rels[r].type = "ManyToOne" ->
                        FixedBy(e, [s EXCEPT !.rels[r].bi = "no"])
                  [] OTHER -> e)

Timestamps == {<<"created_at">>, <<"updated_at">>}

\* The columns the rule takes every row to have.
AssumedColumns == {<<"id">>} \cup Timestamps

\* Mutant: foreign keys are not columns.
OwnColumns(s, props, i) == AssumedColumns \cup FieldNames(s, i)

\* The columns an index may name.
Columns(s, props, i) ==
    AssumedColumns \cup FieldNames(s, i) \cup NamesOn(props, s.entities[i].name)

\* The fix keeps the known columns, and drops an index that has none.
UnknownIndexFields(s, props) ==
    LET named(i, c) == s.entities[i].indexes[c].fields
        unknown(i, c) ==
            {k \in DOMAIN named(i, c) : named(i, c)[k] \notin Columns(s, props, i)}
        bad == Nested([i \in DOMAIN s.entities |->
            {c \in DOMAIN s.entities[i].indexes : named(i, c) = <<>> \/ unknown(i, c) # {}}])
    IN  Each(bad, LAMBDA p :
            LET fields == named(p[1], p[2])
                missing == unknown(p[1], p[2])
                known == AtPositions(fields, DOMAIN fields \ missing)
            IN  FixedBy(Error("INDEX_UNKNOWN_FIELD", s.entities[p[1]].name,
                              IF missing = {} THEN NoName ELSE fields[Min(missing)], <<>>),
                        IF known = <<>>
                        THEN [s EXCEPT !.entities[p[1]].indexes = RemoveAt(@, p[2])]
                        ELSE [s EXCEPT !.entities[p[1]].indexes[p[2]].fields = known]))

\* Mutant: optional relationships count as required.
AllEdges(s) ==
    [i \in {i \in DOMAIN s.rels : s.rels[i].type \in {"ManyToOne", "OneToMany"}} |->
        IF s.rels[i].type = "ManyToOne"
        THEN <<s.rels[i].from, s.rels[i].to>>
        ELSE <<s.rels[i].to, s.rels[i].from>>]

\* Child and parent of a relationship that holds a NOT NULL foreign key.
RequiredEdges(s) ==
    [i \in {i \in DOMAIN s.rels : s.rels[i].type \in {"ManyToOne", "OneToMany"}
                                    /\ ~s.rels[i].nullable} |->
        IF s.rels[i].type = "ManyToOne"
        THEN <<s.rels[i].from, s.rels[i].to>>
        ELSE <<s.rels[i].to, s.rels[i].from>>]

\* The parents that children among `from` require.
ParentsRequired(edges, from) ==
    {edges[i][2] : i \in {i \in DOMAIN edges : edges[i][1] \in from}}

\* reach: the entities edges lead to from one, by ever longer paths.
Reach(edges, start) ==
    LET seen[k \in Nat] ==
            IF k = 0 THEN ParentsRequired(edges, {start})
            ELSE seen[k - 1] \cup ParentsRequired(edges, seen[k - 1])
    IN  seen[Cardinality(DOMAIN edges)]

\* One report per set of entities that lie on a cycle together.
RequiredRelationshipCycles(s) ==
    LET edges == RequiredEdges(s)
        child(i) == edges[i][1]
        parent(i) == edges[i][2]
        cycleOf(i) ==
            {child(i)} \cup {n \in Reach(edges, child(i)) : child(i) \in Reach(edges, n)}
        onCycle == {i \in DOMAIN edges :
            child(i) \in Reach(edges, parent(i)) \cup {parent(i)}}
        reported == InOrder({i \in onCycle :
            \A j \in onCycle : j < i => cycleOf(j) # cycleOf(i)})
    IN  Each(reported, LAMBDA i :
            FixedBy(Error("REQUIRED_RELATIONSHIP_CYCLE", edges[i][1], NoName,
                          Describe(s.rels[i])),
                    [s EXCEPT !.rels[i].nullable = TRUE]))

\* A field by the name of the primary key, unless it says it is the key.
IdFields(s) ==
    LET ids == FieldsWhere(s, LAMBDA i, j :
            LET f == s.entities[i].fields[j]
            IN  SameIgnoringCase(f.name, <<"id">>) /\ ~f.primary)
    IN  Each(ids, LAMBDA p :
            FixedBy(Warning("ID_FIELD", s.entities[p[1]].name, Field(s, p).name, <<>>),
                    WithoutField(s, p)))

\* The entities an entity has a ManyToOne to, declared either way round.
ParentsOf(s, child) ==
    {r.to : r \in {r \in Range(s.rels) : r.type = "ManyToOne" /\ r.from = child}}
    \cup {r.from : r \in {r \in Range(s.rels) : r.type = "OneToMany" /\ r.to = child}}

\* A name that relates to both ends of a ManyToMany as a child.
JoinsOf(s, rel) ==
    LET names == UNION {{r.from, r.to} : r \in Range(s.rels)}
    IN  {j \in names \ {rel.from, rel.to} : {rel.from, rel.to} \subseteq ParentsOf(s, j)}

\* Mutant: any relationship between the two parents counts as redundant.
RedundantRelationships(s) ==
    LET redundant == InOrder({i \in DOMAIN s.rels :
            /\ s.rels[i].from # s.rels[i].to
            /\ JoinsOf(s, s.rels[i]) # {}})
    IN  Each(redundant, LAMBDA i :
            FixedBy(Warning("REDUNDANT_MANY_TO_MANY", s.rels[i].from, NoName,
                            Describe(s.rels[i])),
                    [s EXCEPT !.rels = RemoveAt(@, i)]))

RedundantManyToMany(s) ==
    LET redundant == InOrder({i \in DOMAIN s.rels :
            /\ s.rels[i].type = "ManyToMany"
            /\ s.rels[i].from # s.rels[i].to
            /\ JoinsOf(s, s.rels[i]) # {}})
    IN  Each(redundant, LAMBDA i :
            FixedBy(Warning("REDUNDANT_MANY_TO_MANY", s.rels[i].from, NoName,
                            Describe(s.rels[i])),
                    [s EXCEPT !.rels = RemoveAt(@, i)]))

-----------------------------------------------------------------------------
(* All findings, in rule order.                                            *)

FindingsGiven(s, props) ==
    DuplicateEntityNames(s) \o ReservedEntityNames(s)
    \o DuplicateFieldNames(s) \o UnknownFieldTypes(s) \o EnumsWithoutValues(s)
    \o InvalidRelationshipTypes(s) \o MissingEntities(s)
    \o ForeignKeyFieldDuplicates(s, props)
    \o FieldRelationshipCollisions(s, props)
    \o RelationshipPropertyClashes(s, props)
    \o UnknownIndexFields(s, props)
    \o RequiredRelationshipCycles(s)
    \o IdFields(s) \o RedundantManyToMany(s)

Findings(s) == FindingsGiven(s, Generated(s.rels))

ErrorKey(f) == <<f.rule, f.entity, f.field, f.rel>>

\* lintSchema, as the set of its errors.
Errors(s) ==
    {f \in Range(Findings(s)) : f.severity = "error"}

ErrorKeys(s) == {ErrorKey(f) : f \in Errors(s)}

\* The position of the first finding with a fix, 0 if there is none.
NextFix(found) == SelectInSeq(found, LAMBDA f : f.fixable)

Fixed(s) == NextFix(Findings(s)) = 0
=============================================================================
