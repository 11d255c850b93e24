--------------------------- MODULE RecordService ----------------------------
(***************************************************************************)
(* The write side of a crud endpoint on one table: which routes the @Crud  *)
(* decorator generates and which method answers them, and what the writing *)
(* methods of TypeOrmCrudService do to the table.                          *)
(*                                                                         *)
(* The table is a set of rows, functions on Column; a body is a function   *)
(* on some of the columns.  repository.save takes a body that may or may   *)
(* not name a stored row: it first reads the row of the body's key, and    *)
(* writes in a later statement what differs from it.                       *)
(***************************************************************************)
EXTENDS Naturals, FiniteSets, Sequences

CONSTANTS
    Column,       \* columns, PrimaryKey among them
    PrimaryKey,
    Null,
    AuthFilter,   \* body of values a row must have (auth.filter), may be empty
    Persist,      \* body the auth layer pins (auth.persist), may be empty
    Excluded,     \* options.routes.exclude
    SoftDelete,   \* options.query.softDelete # false
    OwnMethods,   \* methods in the body of the controller class
    Overrides     \* base routes some method of it is marked @Override for

ASSUME RecordServiceAssumption ==
    /\ PrimaryKey \in Column
    /\ DOMAIN AuthFilter \cup DOMAIN Persist \subseteq Column \ {PrimaryKey}
    /\ SoftDelete \in BOOLEAN

-----------------------------------------------------------------------------
(* Routes.                                                                 *)

BaseRoute == {"getMany", "getOne", "createOne", "createMany", "updateOne",
              "replaceOne", "deleteOne", "recoverOne"}

\* generateCrudRoutes: what is not excluded, and recover only with softDelete.
Generated(op) == op \in BaseRoute \ Excluded /\ (op = "recoverOne" => SoftDelete)

\* applyMethodDecorators: an override, else a method of that name, else the
\* injected delegator.
RouteHandler(op) ==
    IF op \in Overrides THEN "override" ELSE IF op \in OwnMethods THEN "own" ELSE "base"

\* Only the injected delegator gets @ParsedRequest and @Body from @Crud; an
\* override brings its own.  A plain method gets no body.
HasBody(op) == RouteHandler(op) # "own"

-----------------------------------------------------------------------------
(* Bodies.                                                                 *)

\* { ...g, ...f }
Over(f, g) == [c \in DOMAIN f \cup DOMAIN g |-> IF c \in DOMAIN f THEN f[c] ELSE g[c]]

WithAuthPersist(body) == Over(Persist, body)

StripPrimaryKeys(body) == [c \in DOMAIN body \ {PrimaryKey} |-> body[c]]

PrimaryKeyValues(row) == [c \in {PrimaryKey} |-> row[c]]

\* What each route saves; for update and replace `row` is the row found.
CreateBody(body) == WithAuthPersist(body)

UpdateBody(row, body) == Over(StripPrimaryKeys(WithAuthPersist(body)), row)

\* The body alone under the key it brings.
ReplaceBodyByBody(row, body) == Over(WithAuthPersist(body), PrimaryKeyValues(row))

ReplaceBody(row, body) ==
    Over(PrimaryKeyValues(row), StripPrimaryKeys(WithAuthPersist(body)))

-----------------------------------------------------------------------------
(* The table.                                                              *)

\* The auth filter admits the row.
Admitted(row) == \A c \in DOMAIN AuthFilter : row[c] = AuthFilter[c]

\* applyWhere: the search tree of the PostgREST parser never holds the route's
\* id, which counts only when the tree is empty.
ByRoute(dialect) == dialect = "nestjsx" \/ DOMAIN AuthFilter = {}

\* Without the auth filter.
TargetsById(table, id, dialect) == {row \in table : row[PrimaryKey] = id}

\* WHERE of getOne, updateOne, replaceOne and deleteOne.
Targets(table, id, dialect) ==
    {row \in table : Admitted(row) /\ (ByRoute(dialect) => row[PrimaryKey] = id)}

Stored(table, id) == {row \in table : row[PrimaryKey] = id}

\* A row as an INSERT stores it.
Inserted(body) == Over(body, [c \in Column |-> Null])

\* The columns save finds changed against the row it has read, if any.
Changes(body, seen) ==
    [c \in {x \in DOMAIN body : \A row \in seen : row[x] # body[x]} |-> body[c]]

\* An INSERT of a key that has been stored since.
DuplicateKey(table, body, seen) == seen = {} /\ Stored(table, body[PrimaryKey]) # {}

\* repository.save once it has read the row of the key: an INSERT if there was
\* none, otherwise an UPDATE of the changes, which may find no row any more.
Saved(table, body, seen) ==
    IF seen = {} THEN table \cup {Inserted(body)}
    ELSE {IF row[PrimaryKey] = body[PrimaryKey] THEN Over(Changes(body, seen), row) ELSE row :
              row \in table}

\* A body without a key gets the next one of the sequence.
Keyed(body, key) == Over(body, [c \in {PrimaryKey} |-> key])

Removed(table, row) == table \ Stored(table, row[PrimaryKey])
=============================================================================
