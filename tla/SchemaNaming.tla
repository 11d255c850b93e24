---------------------------- MODULE SchemaNaming ----------------------------
(***************************************************************************)
(* The names a .apsorc schema generates (naming.ts).  A name is a sequence *)
(* of tokens: words, suffixes such as "s" or "Id", and numbers.  The case  *)
(* conversions act on the first token; spelling inside a token is left out.*)
(*                                                                         *)
(* A schema is a record of a sequence of entities and a sequence of        *)
(* relationships, in declaration order.                                    *)
(***************************************************************************)
EXTENDS SequencesExt, Positions

CONSTANTS
    Token,     \* the strings of a schema: parts of names, spellings of types
    Word,      \* the lower-case words names are built from
    Capital,   \* Word -> the capitalised token
    Numeral    \* the tokens of 2, 3, 4, ...: bounds how often a name is numbered

ASSUME NamingAssumption ==
    /\ Word \cup {"s", "Id"} \subseteq Token
    /\ Capital \in [Word -> Token]
    /\ Numeral \in Seq(Token) /\ IsInjective(Numeral)
    /\ IsInjective(Capital)
    /\ Word \cap Range(Capital) = {}

NoName == <<>>

Name == Seq(Token)

LowerToken(t) ==
    IF t \in Range(Capital) THEN CHOOSE w \in Word : Capital[w] = t ELSE t

LowerCase(name) == [i \in DOMAIN name |-> LowerToken(name[i])]

SameIgnoringCase(n, m) == LowerCase(n) = LowerCase(m)

CamelCase(name) == [name EXCEPT ![1] = LowerToken(@)]

PascalCase(name) == [name EXCEPT ![1] = IF @ \in Word THEN Capital[@] ELSE @]

Pluralize(name) == IF Last(name) = "s" THEN name ELSE Append(name, "s")

ForeignKey(name) == Append(name, "Id")

\* How rules and edits identify a relationship.
Describe(rel) == <<rel.from, rel.type, rel.to, rel.toName>>

-----------------------------------------------------------------------------
(* Both ends of every relationship.                                        *)

\* The declaration in the other direction; bi is "unset", "yes" or "no".
InverseOf(rels, rel) ==
    LET i == SelectInSeq(rels, LAMBDA d :
            d.from = rel.to /\ d.to = rel.from /\ d.type = rel.type)
    IN  IF i = 0 THEN {} ELSE {rels[i]}

RefOf(rel) == IF rel.toName # NoName THEN rel.toName ELSE rel.to

\* inverse is the declaration in the other direction, if there is one.
SidesOf(i, rel, inverse) ==
    LET here == [entity |-> rel.from, other |-> rel.to, type |-> rel.type,
                 ref |-> RefOf(rel), rel |-> i, isFrom |-> TRUE]
        there(type, ref) ==
            [entity |-> rel.to, other |-> rel.from, type |-> type,
             ref |-> ref, rel |-> i, isFrom |-> FALSE]
        bothWays == \E d \in {rel} \cup inverse : d.bi = "yes"
        inverseNames == {d.toName : d \in inverse} \ {NoName}
    IN  CASE rel.type = "ManyToOne" ->
                IF rel.bi # "no" /\ rel.from # rel.to
                THEN <<here, there("OneToMany", rel.from)>>
                ELSE <<here>>
          [] rel.type = "OneToMany" ->
                <<here, there("ManyToOne", rel.from)>>
          [] rel.type \in {"ManyToMany", "OneToOne"} ->
                IF bothWays
                THEN <<here, there(rel.type,
                            IF inverseNames # {} THEN CHOOSE n \in inverseNames : TRUE
                                                 ELSE rel.from)>>
                ELSE <<here>>
          [] OTHER -> <<>>

Sides(rels) ==
    FlattenSeq([i \in DOMAIN rels |-> SidesOf(i, rels[i], InverseOf(rels, rels[i]))])

\* A side that repeats an earlier one (the same link declared from the other
\* end, say) generates nothing.
Distinct(sides) ==
    LET key(k) == <<sides[k].entity, sides[k].other, sides[k].ref>>
    IN  AtPositions(sides, {k \in DOMAIN sides : \A i \in 1..(k - 1) : key(i) # key(k)})

-----------------------------------------------------------------------------
(* The properties they generate on entities, in generation order.          *)

BaseName(side) ==
    CamelCase(IF side.type \in {"OneToMany", "ManyToMany"}
              THEN Pluralize(side.ref) ELSE side.ref)

Property(name, foreignKey, side) ==
    [entity |-> side.entity, name |-> name, foreignKey |-> foreignKey, side |-> side]

GeneratedBy(side) ==
    <<Property(BaseName(side), FALSE, side)>>
    \o IF side.type = "ManyToOne"
       THEN <<Property(ForeignKey(BaseName(side)), TRUE, side)>> ELSE <<>>

GeneratedFor(sides) == FlattenSeq([k \in DOMAIN sides |-> GeneratedBy(sides[k])])

Generated(rels) == GeneratedFor(Distinct(Sides(rels)))

\* The position of the property that got the name on the entity: the first to
\* claim it.  0 if there is none.
Claimant(props, entity, name) ==
    SelectInSeq(props, LAMBDA p : p.entity = entity /\ p.name = name)

Clashes(props) ==
    {k \in DOMAIN props : Claimant(props, props[k].entity, props[k].name) # k}

NamesOn(props, entity) ==
    {props[k].name : k \in {k \in DOMAIN props : props[k].entity = entity}}
=============================================================================
