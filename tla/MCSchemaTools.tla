---------------------------- MODULE MCSchemaTools ----------------------------
(***************************************************************************)
(* Small schemas for SchemaTools: entities Note, Contact and Type (which   *)
(* generated code cannot name a class), at most two relationships out of a *)
(* pool that covers every type, both directions, wrong spellings and a     *)
(* cycle, and fields and indexes that collide with what they generate.     *)
(***************************************************************************)
EXTENDS SchemaTools

MCToken == STRING

\* Enough for the members of a class with four fields and five relationships.
MCNumeral == [n \in 1..24 |-> ToString(n + 1)]

MCWord == {"note", "contact", "type", "owner", "id"}

MCCapital ==
    [note |-> "Note", contact |-> "Contact", type |-> "Type", owner |-> "Owner", id |-> "Id"]

Note == <<"Note">>
Contact == <<"Contact">>
TypeEntity == <<"Type">>
ContactId == <<"contact", "Id">>
TypeId == <<"type", "Id">>

MCReserved == {TypeEntity}

Text(name) == [name |-> name, type |-> "text", values |-> FALSE, primary |-> FALSE]

Index(fields) == [fields |-> fields, unique |-> TRUE]

Entity(name, fields, indexes) ==
    [name |-> name, fields |-> fields, indexes |-> indexes, timestamps |-> Timestamps]

Rel(from, type, to, toName) ==
    [from |-> from, to |-> to, type |-> type, toName |-> toName,
     nullable |-> FALSE, bi |-> "unset"]

BothWays(from, type, to) == [Rel(from, type, to, NoName) EXCEPT !.bi = "yes"]

\* A field list for Note, with the indexes on it.
NoteParts ==
    {<<<<Text(<<"body">>)>>, <<>>>>,
     <<<<Text(<<"body">>), Text(<<"contact">>)>>, <<Index(<<ContactId, <<"body">>>>)>>>>,
     <<<<Text(ContactId), Text(<<"Id">>), [Text(<<"id">>) EXCEPT !.primary = TRUE]>>, <<Index(<<ContactId>>), Index(<<<<"gone">>>>)>>>>,
     <<<<Text(<<"body">>), [Text(<<"body">>) EXCEPT !.type = "number"],
        [Text(<<"size">>) EXCEPT !.type = "enum"]>>, <<Index(<<<<"body">>, <<"size">>>>)>>>>}

Pool ==
    {Rel(Note, "ManyToOne", Contact, NoName), Rel(Contact, "ManyToOne", Note, NoName),
     Rel(Contact, "OneToMany", Note, NoName), Rel(Note, "OneToMany", Contact, <<"contact">>),
     BothWays(Note, "ManyToMany", Contact), Rel(Contact, "ManyToMany", Note, <<"note">>),
     BothWays(Contact, "OneToOne", Note), Rel(Note, "ManyToOne", Note, NoName),
     Rel(Note, "many_to_one", <<"contact">>, NoName), Rel(Note, "belongs_to", Contact, NoName),
     Rel(Note, "ManyToOne", Contact, <<"owner">>)}

Schemas(parts, rels) ==
    {[entities |-> <<Entity(Note, n[1], n[2]), Entity(Contact, <<Text(<<"note", "s">>)>>, <<>>)>>,
      rels |-> r] : n \in parts, r \in rels}

\* A join entity with a reserved name, and the ManyToMany it makes redundant.
Joined ==
    [entities |-> <<Entity(Note, <<>>, <<>>), Entity(Contact, <<>>, <<>>),
                    Entity(TypeEntity, <<Text(<<"body">>)>>, <<Index(<<ContactId>>)>>)>>,
     rels |-> <<Rel(TypeEntity, "ManyToOne", Note, NoName),
                Rel(Contact, "OneToMany", TypeEntity, NoName),
                Rel(Note, "ManyToMany", Contact, NoName),
                [Rel(Contact, "ManyToOne", Note, <<"owner">>) EXCEPT !.nullable = TRUE]>>]

\* An index on what a relationship generates, and nothing wrong.
Indexed(column, toName) ==
    [entities |-> <<Entity(Note, <<Text(<<"body">>)>>, <<Index(<<column, <<"body">>>>)>>),
                    Entity(Contact, <<>>, <<>>)>>,
     rels |-> <<Rel(Note, "ManyToOne", Contact, toName)>>]

\* Notes below notes, declared from above: the other end repeats the first.
Hierarchy ==
    [entities |-> <<Entity(Note, <<Text(<<"note", "Id">>)>>, <<>>)>>,
     rels |-> <<[Rel(Note, "OneToMany", Note, NoName) EXCEPT !.nullable = TRUE]>>]

\* A reference by the name of an entity repeats one to the entity.
Repeated ==
    [entities |-> <<Entity(Note, <<Text(<<"contact", "s">>)>>, <<>>), Entity(Contact, <<>>, <<>>)>>,
     rels |-> <<Rel(Note, "ManyToOne", Contact, NoName),
                [Rel(Note, "OneToMany", Contact, Contact) EXCEPT !.nullable = TRUE]>>]

\* A reserved entity that a relationship spells another way, and one clash whose
\* fix tells two sides apart, so that there is another.
Beyond ==
    {[entities |-> <<Entity(Note, <<>>, <<>>), Entity(TypeEntity, <<>>, <<>>)>>,
      rels |-> <<Rel(Note, "ManyToOne", <<"type">>, NoName)>>],
     [entities |-> <<Entity(Note, <<>>, <<>>), Entity(Contact, <<>>, <<>>)>>,
      rels |-> <<[Rel(Note, "ManyToOne", Note, <<"contact">>) EXCEPT !.nullable = TRUE],
                 Rel(Note, "ManyToOne", Contact, NoName),
                 Rel(Contact, "OneToMany", Note, <<"owner">>)>>]}

\* Nothing a rule finds, and an index on a timestamp the entity does not set, ...
Untimed ==
    [entities |-> <<[Entity(Note, <<>>, <<Index(<<<<"created_at">>>>)>>)
                        EXCEPT !.timestamps = {<<"updated_at">>}]>>,
     rels |-> <<>>]

\* ... a reference called like the key, ...
CalledId ==
    [entities |-> <<Entity(Note, <<>>, <<>>), Entity(Contact, <<>>, <<>>)>>,
     rels |-> <<Rel(Note, "ManyToOne", Contact, <<"Id">>)>>]

\* ... and a relationship whose sides both are the notes of Notes.
Notes ==
    [entities |-> <<Entity(<<"Note", "s">>, <<>>, <<>>)>>,
     rels |-> <<[Rel(<<"Note", "s">>, "OneToMany", <<"Note", "s">>, <<"note">>)
                    EXCEPT !.nullable = TRUE]>>]

\* The first again, with a field by the name.
Timed == [Untimed EXCEPT !.entities[1].fields = <<Text(<<"created_at">>)>>]

MCStart ==
    Schemas(NoteParts, SeqOf(Pool, 1)) \cup {Joined, Hierarchy, Repeated} \cup Beyond
    \cup {Untimed, CalledId, Notes, Timed}
    \cup {Indexed(ContactId, NoName), Indexed(<<"contact">>, NoName), Indexed(ContactId, <<"contact">>)}
    \cup Schemas({CHOOSE n \in NoteParts : Len(n[1]) = 2 /\ Len(n[2]) = 1},
                 Pool \X Pool)

\* An index on an unknown field.
MCBrokenStart ==
    {[entities |-> <<Entity(Note, <<Text(<<"body">>)>>, <<Index(<<<<"gone">>>>)>>)>>,
      rels |-> <<>>]}

MCEntityName == {Contact, TypeEntity, <<"Type", "Record">>, <<"contact">>}
MCNewField == {Text(ContactId)}
MCNewName == {<<"contact">>}
MCNewRel == {Rel(<<"contact">>, "ManyToMany", Note, <<"note">>)}
MCNewIndex == {Index(<<ContactId>>)}
MCBrokenIndex == {Index(<<<<"gone">>, <<"body">>>>)}
=============================================================================
