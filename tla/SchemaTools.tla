----------------------------- MODULE SchemaTools -----------------------------
(***************************************************************************)
(* Editing a .apsorc schema (tools.ts, lint.ts): an agent calls edit tools,*)
(* each of which edits a copy that commit() accepts or, if it has a lint   *)
(* error the schema did not have, rejects; and runs fixSchema, which       *)
(* repairs a copy one fix per pass.  The caller keeps what a call returns. *)
(* A call that returns early, with an unknown name for one, changes        *)
(* nothing: a stuttering step, not written.                                *)
(***************************************************************************)
EXTENDS SchemaRules

CONSTANTS
    Start,        \* the schemas a session may start from
    EntityName,   \* names an agent gives to entities
    NewField,     \* fields it adds
    NewName,      \* names it gives to fields
    NewRel,       \* relationships it adds
    NewIndex,     \* indexes it adds
    MaxEdits,     \* bound on the edits of a session
    MaxPasses     \* passes of fixSchema (200 in the code)

FieldRecord == [name : Name, type : Token, values : BOOLEAN, primary : BOOLEAN]

IndexRecord == [fields : Seq(Name), unique : BOOLEAN]

\* timestamps are those of created_at and updated_at the entity sets.
EntityRecord ==
    [name : Name, fields : Seq(FieldRecord), indexes : Seq(IndexRecord),
     timestamps : SUBSET Timestamps]

RelRecord ==
    [from : Name, to : Name, type : Token, toName : Name,
     nullable : BOOLEAN, bi : {"unset", "yes", "no"}]

Schema == [entities : Seq(EntityRecord), rels : Seq(RelRecord)]

ASSUME ToolsAssumption ==
    /\ Start \subseteq Schema
    /\ EntityName \cup NewName \subseteq Name
    /\ NewField \subseteq FieldRecord
    /\ NewRel \subseteq RelRecord
    /\ NewIndex \subseteq IndexRecord
    /\ MaxEdits \in Nat /\ MaxPasses \in Nat

VARIABLES
    schema,   \* the caller's schema
    mode,     \* "editing", "committing" or "fixing"
    working,  \* the copy an edit tool or fixSchema works on
    passes,   \* passes it made
    edits     \* accepted edits so far

vars == <<schema, mode, working, passes, edits>>

Init ==
    /\ schema \in Start
    /\ mode = "editing"
    /\ working = schema
    /\ passes = 0
    /\ edits = 0

-----------------------------------------------------------------------------
\* An edit tool clones the schema, changes the copy and hands it to commit().
Propose(next) ==
    /\ mode = "editing"
    /\ edits < MaxEdits
    /\ mode' = "committing"
    /\ working' = next
    /\ UNCHANGED <<schema, passes, edits>>

\* findEntity: the exact name first, then ignoring case; 0 if there is none.
FindEntity(s, name) ==
    LET exact == SelectInSeq(s.entities, LAMBDA e : e.name = name)
    IN  IF exact # 0 THEN exact
        ELSE SelectInSeq(s.entities, LAMBDA e : SameIgnoringCase(e.name, name))

FindField(entity, name) == SelectInSeq(entity.fields, LAMBDA f : f.name = name)

\* fieldsFor: maps the columns of every index; a column mapped to nothing is
\* dropped, and so is an index left without columns.
RenameColumn(entity, from, to) ==
    LET names(c) == Each(c.fields, LAMBDA n : IF n = from THEN to ELSE n)
        mapped == Each(entity.indexes, LAMBDA c :
            [c EXCEPT !.fields =
                AtPositions(names(c), {k \in DOMAIN names(c) : names(c)[k] # NoName})])
    IN  [entity EXCEPT !.indexes =
            AtPositions(mapped, {k \in DOMAIN mapped : mapped[k].fields # <<>>})]

DropColumn(entity, name) == RenameColumn(entity, name, NoName)

ForeignKeyTo(name) == ForeignKey(CamelCase(name))

AddEntity(name, fields, timestamps) ==
    /\ FindEntity(schema, name) = 0
    /\ Propose([schema EXCEPT !.entities =
                Append(@, [name |-> name, fields |-> fields, indexes |-> <<>>,
                           timestamps |-> timestamps])])

\* Mutant: only the renamed entity's own indexes are searched.
EntityRenamedLocally(s, i, to) ==
    LET old == s.entities[i].name
        follow(n) == IF n = old THEN to ELSE n
    IN  [entities |-> Each(s.entities, LAMBDA e :
            IF e.name # old THEN e
            ELSE [RenameColumn(e, ForeignKeyTo(old), ForeignKeyTo(to)) EXCEPT !.name = to]),
         rels |-> Each(s.rels, LAMBDA r :
            [r EXCEPT !.from = follow(@), !.to = follow(@)])]

\* Relationships and the indexes on foreign keys follow the new name.
EntityRenamed(s, i, to) ==
    LET old == s.entities[i].name
        follow(n) == IF n = old THEN to ELSE n
    IN  [entities |-> Each(s.entities, LAMBDA e :
            [RenameColumn(e, ForeignKeyTo(old), ForeignKeyTo(to)) EXCEPT !.name = follow(@)]),
         rels |-> Each(s.rels, LAMBDA r :
            [r EXCEPT !.from = follow(@), !.to = follow(@)])]

RenameEntity(i, to) ==
    /\ FindEntity(schema, to) # 0 =>
            SameIgnoringCase(to, schema.entities[i].name)
    /\ Propose(EntityRenamed(schema, i, to))

RemoveEntity(i) ==
    LET name == schema.entities[i].name
        kept == AtPositions(schema.entities,
                    {k \in DOMAIN schema.entities : schema.entities[k].name # name})
    IN  Propose([entities |-> Each(kept, LAMBDA e : DropColumn(e, ForeignKeyTo(name))),
                rels |-> AtPositions(schema.rels, {k \in DOMAIN schema.rels :
                            name \notin {schema.rels[k].from, schema.rels[k].to}})])

AddField(i, field) ==
    /\ FindField(schema.entities[i], field.name) = 0
    /\ Propose([schema EXCEPT !.entities[i].fields = Append(@, field)])

\* The values go when the type is no longer enum.
UpdateField(i, name, type, values) ==
    LET j == FindField(schema.entities[i], name)
    IN  /\ j # 0
        /\ Propose([schema EXCEPT !.entities[i].fields[j] =
                    [@ EXCEPT !.type = type, !.values = (type = "enum") /\ values]])

RenameField(i, name, to) ==
    LET entity == schema.entities[i]
        j == FindField(entity, name)
    IN  /\ j # 0
        /\ FindField(entity, to) = 0
        /\ Propose([schema EXCEPT !.entities[i] =
                    RenameColumn([entity EXCEPT !.fields[j].name = to], name, to)])

RemoveField(i, name) ==
    LET entity == schema.entities[i]
    IN  /\ FindField(entity, name) # 0
        /\ Propose([schema EXCEPT !.entities[i] =
                    DropColumn([entity EXCEPT !.fields =
                        AtPositions(@, {k \in DOMAIN @ : @[k].name # name})], name)])

\* Ends are looked up ignoring case, and written as the entities are named.
AddRelationship(rel) ==
    LET from == FindEntity(schema, rel.from)
        to == FindEntity(schema, rel.to)
        new == [rel EXCEPT !.from = schema.entities[from].name,
                           !.to = schema.entities[to].name]
    IN  /\ from # 0 /\ to # 0
        /\ \A r \in Range(schema.rels) : Describe(r) # Describe(new)
        /\ Propose([schema EXCEPT !.rels = Append(@, new)])

\* Those between two entities, or of one type or to_name; several are removed
\* only if the type is given.
RemoveRelationship(rel, byType, byName) ==
    LET matches == {k \in DOMAIN schema.rels :
            /\ SameIgnoringCase(schema.rels[k].from, rel.from)
            /\ SameIgnoringCase(schema.rels[k].to, rel.to)
            /\ byType => schema.rels[k].type = rel.type
            /\ byName => schema.rels[k].toName = rel.toName}
    IN  /\ Cardinality(matches) > 1 => byType
        /\ Propose([schema EXCEPT !.rels = AtPositions(@, DOMAIN @ \ matches)])

AddIndex(i, index) ==
    /\ index.fields # <<>>
    /\ \A c \in Range(schema.entities[i].indexes) : c.fields # index.fields
    /\ Propose([schema EXCEPT !.entities[i].indexes = Append(@, index)])

\* Mutant: an error of a rule the schema violates already is not new.
AddsRule ==
    ~({f.rule : f \in Errors(working)} \subseteq {f.rule : f \in Errors(schema)})

\* The copy has a lint error the schema did not have.
AddsError == ~(ErrorKeys(working) \subseteq ErrorKeys(schema))

Commit ==
    /\ mode = "committing"
    /\ ~AddsError
    /\ schema' = working
    /\ mode' = "editing"
    /\ edits' = edits + 1
    /\ UNCHANGED <<working, passes>>

Reject ==
    /\ mode = "committing"
    /\ AddsError
    /\ working' = schema
    /\ mode' = "editing"
    /\ UNCHANGED <<schema, passes, edits>>

-----------------------------------------------------------------------------
(* fixSchema.                                                              *)

StartFix ==
    /\ mode = "editing"
    /\ mode' = "fixing"
    /\ working' = schema
    /\ passes' = 0
    /\ UNCHANGED <<schema, edits>>

FixPass ==
    /\ mode = "fixing"
    /\ passes < MaxPasses
    /\ ~Fixed(working)
    /\ LET found == Findings(working)
       IN  working' \in found[NextFix(found)].fixed
    /\ passes' = passes + 1
    /\ UNCHANGED <<schema, mode, edits>>

FixEnds == passes = MaxPasses \/ Fixed(working)

\* Mutant: the caller is given its own schema back.
FixDoneInput ==
    /\ mode = "fixing"
    /\ FixEnds
    /\ mode' = "editing"
    /\ passes' = 0
    /\ UNCHANGED <<schema, working, edits>>

FixDone ==
    /\ mode = "fixing"
    /\ FixEnds
    /\ schema' = working
    /\ mode' = "editing"
    /\ passes' = 0
    /\ UNCHANGED <<working, edits>>

-----------------------------------------------------------------------------
\* The entities a name leads to.
Addressable == {i \in DOMAIN schema.entities :
                    FindEntity(schema, schema.entities[i].name) = i}

EditEntities ==
    \/ \E n \in EntityName, fields \in {<<>>} \cup {<<f>> : f \in NewField},
          timestamps \in SUBSET Timestamps : AddEntity(n, fields, timestamps)
    \/ \E i \in Addressable : RemoveEntity(i) \/ \E n \in EntityName : RenameEntity(i, n)

EditFields(i) ==
    \/ \E f \in NewField : AddField(i, f)
    \/ \E n \in FieldNames(schema, i) :
        \/ \E type \in FieldType \cup DOMAIN TypeAlias, values \in BOOLEAN :
            UpdateField(i, n, type, values)
        \/ \E to \in NewName : RenameField(i, n, to)
        \/ RemoveField(i, n)
    \/ \E index \in NewIndex : AddIndex(i, index)

EditRelationships ==
    \/ \E rel \in NewRel : AddRelationship(rel)
    \/ \E rel \in Range(schema.rels), byType, byName \in BOOLEAN :
        RemoveRelationship(rel, byType, byName)

Next ==
    \/ EditEntities
    \/ \E i \in Addressable : EditFields(i)
    \/ EditRelationships
    \/ Commit \/ Reject
    \/ StartFix \/ FixPass \/ FixDone

Spec == Init /\ [][Next]_vars

-----------------------------------------------------------------------------
(* Properties.                                                             *)

\* Every variable has its type; between calls there is one schema, the one the
\* last call returned.
TypeOK ==
    /\ schema \in Schema
    /\ working \in Schema
    /\ mode \in {"editing", "committing", "fixing"}
    /\ passes \in 0..MaxPasses
    /\ edits \in 0..MaxEdits
    /\ mode = "editing" => working = schema /\ passes = 0

\* The sides that generate something: of two with one entity, other entity and
\* reference it is the one declared first, and the declaring end of the two ends
\* of one relationship.
GeneratingSides(s) ==
    LET sides == Range(Sides(s.rels))
        key(d) == <<d.entity, d.other, d.ref>>
        before(c, d) == c.rel < d.rel \/ (c.rel = d.rel /\ c.isFrom /\ ~d.isFrom)
    IN  {d \in sides : ~\E c \in sides : key(c) = key(d) /\ before(c, d)}

GivenNames(side) == {p.name : p \in Range(GeneratedBy(side))}

\* The members that relationships give the class of an entity.
GivenMembers(s, entity) ==
    UNION {GivenNames(d) : d \in {d \in GeneratingSides(s) : d.entity = entity}}

EntitiesCompile(s) ==
    /\ \A i, j \in DOMAIN s.entities :
        i # j => s.entities[i].name # s.entities[j].name
    /\ EntityNames(s) \cap Reserved = {}

\* Ends exist, and no two sides of relationships, the two of one relationship
\* among them, give a class members of one name.
RelationshipsCompile(s) ==
    /\ \A r \in Range(s.rels) :
        {r.from, r.to} \subseteq EntityNames(s) /\ r.type \in RelationshipType
    /\ \A d, c \in GeneratingSides(s) :
        d.entity = c.entity /\ d # c => GivenNames(d) \cap GivenNames(c) = {}

FieldsCompile(s, i) ==
    LET fields == s.entities[i].fields
    IN  /\ \A j, k \in DOMAIN fields : j # k => fields[j].name # fields[k].name
        /\ \A j \in DOMAIN fields :
            /\ fields[j].type \in FieldType
            /\ fields[j].type = "enum" => fields[j].values
        /\ FieldNames(s, i) \cap GivenMembers(s, s.entities[i].name) = {}

\* The columns a row has without a field or a relationship: its key, and the
\* timestamps its entity sets.
RowColumns(entity) == {<<"id">>} \cup entity.timestamps

\* No relationship gives a class a member that every row of it has anyway.
MembersCompile(s, i) ==
    RowColumns(s.entities[i]) \cap GivenMembers(s, s.entities[i].name) = {}

\* What an index may be on.
Indexable(s, i) ==
    RowColumns(s.entities[i])
        \cup FieldNames(s, i) \cup GivenMembers(s, s.entities[i].name)

IndexesCompile(s, i) ==
    \A c \in Range(s.entities[i].indexes) :
        c.fields # <<>> /\ Range(c.fields) \subseteq Indexable(s, i)

\* The entities can be ordered so that the parent a row requires comes first.
Insertable(s) ==
    \E rank \in [EntityNames(s) -> 1..Cardinality(EntityNames(s))] :
        \A r \in Range(s.rels) :
            ~r.nullable =>
                /\ r.type = "ManyToOne" => rank[r.to] < rank[r.from]
                /\ r.type = "OneToMany" => rank[r.from] < rank[r.to]

\* What it takes for generated code to compile and for rows to be insertable,
\* stated without the rules.
Compiles(s) ==
    /\ EntitiesCompile(s)
    /\ RelationshipsCompile(s)
    /\ \A i \in DOMAIN s.entities :
        FieldsCompile(s, i) /\ MembersCompile(s, i) /\ IndexesCompile(s, i)
    /\ Insertable(s)

\* What no rule sees: an index on a timestamp its entity does not have, ...
TimestampMissing(s) ==
    \E i \in DOMAIN s.entities : \E c \in Range(s.entities[i].indexes) :
        Range(c.fields) \cap (Timestamps \ Indexable(s, i)) # {}

\* ... a member called like the key or a timestamp of its class, ...
MemberRepeatsColumn(s) == \E i \in DOMAIN s.entities : ~MembersCompile(s, i)

\* ... and a relationship whose two sides give one class one member.
SidesClash(s) ==
    \E d, c \in GeneratingSides(s) :
        /\ d # c /\ d.entity = c.entity /\ d.rel = c.rel
        /\ GivenNames(d) \cap GivenNames(c) # {}

Unseen(s) == TimestampMissing(s) \/ MemberRepeatsColumn(s) \/ SidesClash(s)

\* lintSchema reports an error only on a schema whose generated code does not
\* compile or whose rows cannot be inserted, and on each of them but those whose
\* only faults are the three no rule sees.  (lint.ts 20-25, rules.ts 154-158)
LintIsExact == Compiles(working) <=> Errors(working) = {} /\ ~Unseen(working)

\* fixSchema stops because nothing is left to fix, not because of its cap: no
\* fix undoes another.  (lint.ts 36-43)
FixReachesFixpoint ==
    mode = "fixing" /\ passes = MaxPasses => Fixed(working)

\* The names relationships are between.
Ends(s) == UNION {{r.from, r.to} : r \in Range(s.rels)}

\* Fixing takes all errors away, if each has a fix: what fixes make of fields,
\* indexes and names never lacks one.  Only what they make of relationships may
\* be a clash of properties without a fix, and a rename may lose a misspelled
\* end: where relationships are right, no error is left.  (lint.ts 27-45)
FixCleans ==
    /\ mode = "fixing" /\ Fixed(working)
    /\ \A f \in Errors(schema) : f.fixable
    /\ EntityNames(schema) \cap Reserved = {} \/ Ends(schema) \subseteq EntityNames(schema)
    => /\ \A f \in Errors(working) : f.rule = "RELATIONSHIP_PROPERTY_CLASH"
       /\ (/\ EntitiesCompile(schema) /\ RelationshipsCompile(schema)
           /\ RedundantManyToMany(schema) = <<>>) => Errors(working) = {}

\* A relationship, declared either way round, says that a child has a parent.
HasParent(s, child, parent) ==
    \E r \in Range(s.rels) :
        \/ r.type = "ManyToOne" /\ r.from = child /\ r.to = parent
        \/ r.type = "OneToMany" /\ r.to = child /\ r.from = parent

\* A fix never removes an entity, and removes a relationship only if it is a
\* ManyToMany between two parents of a third entity; where every relationship
\* is between entities of the schema, it still is.  (lint.ts 28-30)
FixKeepsEntities ==
    [][mode = "fixing" =>
        /\ Len(working'.entities) = Len(working.entities)
        /\ Ends(working) \subseteq EntityNames(working)
                => Ends(working') \subseteq EntityNames(working')
        /\ Len(working'.rels) # Len(working.rels) =>
            \E i \in DOMAIN working.rels :
                LET two == {working.rels[i].from, working.rels[i].to}
                IN  /\ working.rels[i].type = "ManyToMany"
                    /\ working'.rels = RemoveAt(working.rels, i)
                    /\ \E child \in Ends(working) \ two :
                        \A parent \in two : HasParent(working, child, parent)]_vars

\* What a class may call a reference to an entity of that name.
ReferenceNames(name) ==
    {CamelCase(name), CamelCase(Pluralize(name)), ForeignKeyTo(name)}

\* No entity and no reference of the schema has the name, and no member of a
\* class one of the names it leads to.
Fresh(s, name) ==
    /\ name \notin EntityNames(s) \cup Reserved
    /\ \A r \in Range(s.rels) : r.toName # name
    /\ \A j \in DOMAIN s.entities :
        ReferenceNames(name)
            \cap (FieldNames(s, j) \cup GivenMembers(s, s.entities[j].name)) = {}

\* The schema says the name of an entity where it means the entity, and in
\* indexes only as part of its foreign key.
NamesOnlyEntity(s, name) ==
    LET props == Range(Generated(s.rels))
        foreignKeys(j) ==
            {p.name : p \in {p \in props : p.foreignKey /\ p.entity = s.entities[j].name}}
    IN  /\ \A r \in Range(s.rels) : r.toName # name
        /\ \A p \in props : p.name = ForeignKeyTo(name) => p.side.ref = name
        /\ \A j \in DOMAIN s.entities :
            /\ ForeignKeyTo(name) \notin FieldNames(s, j)
            /\ \A c \in Range(s.entities[j].indexes) :
                Range(c.fields) \subseteq AssumedColumns \cup FieldNames(s, j) \cup foreignKeys(j)

\* rename_entity updates every reference: on a schema without errors a rename
\* to a fresh name adds none, if indexes name fields and foreign keys only and
\* neither the name nor its foreign key stands for something else.
\* (tools.ts 302-329)
RenameFollowsReferences ==
    \A i \in DOMAIN schema.entities, to \in EntityName :
        /\ mode = "editing"
        /\ Errors(schema) = {}
        /\ Fresh(schema, to)
        /\ NamesOnlyEntity(schema, schema.entities[i].name)
        => Errors(EntityRenamed(schema, i, to)) = {}

\* "A write that would add a lint ERROR is rejected" (tools.ts 8-9): no accepted
\* edit leaves the schema with more errors than it had.
EditAddsNoError ==
    [][mode = "committing" =>
        Len(SelectSeq(Findings(schema'), LAMBDA f : f.severity = "error"))
            <= Len(SelectSeq(Findings(schema), LAMBDA f : f.severity = "error"))]_vars
=============================================================================
