---------------------------- MODULE NestjsxQuery ----------------------------
(***************************************************************************)
(* The nestjsx query dialect: the token list the client's query builder    *)
(* writes (QueryBuilder, buildQueryParams, RequestQueryBuilder), and what  *)
(* CrudRequestParser reads from such a list.                               *)
(*                                                                         *)
(* A query is a record with one entry per query-string key of either       *)
(* dialect; an absent key is <<>> or Null.  Texts between `||` and commas  *)
(* are kept apart as sequences, so no string is taken to pieces here.      *)
(***************************************************************************)
EXTENDS SearchTree

CONSTANT Pieces   \* Pieces[v]: the texts v falls into at its commas

ASSUME PiecesAssumption == Pieces \in [Val -> Seq(Val)]

DefaultPageSize == 20
DefaultMaxLimit == 100

NoQuery ==
    [fields |-> <<>>, filter |-> <<>>, or |-> <<>>, s |-> <<>>, sort |-> <<>>,
     join |-> <<>>, select |-> <<>>, order |-> <<>>, cols |-> <<>>,
     orGroup |-> <<>>, andGroup |-> <<>>, limit |-> Null, offset |-> Null,
     page |-> Null]

\* JavaScript's x || y for numbers.
OrElse(x, y) == IF x \in {Null, 0} THEN y ELSE x

\* The smaller of two numbers.
Least(x, y) == IF x < y THEN x ELSE y

-----------------------------------------------------------------------------
(* The client: params objects and their query strings.                     *)

NoParams ==
    [fields |-> <<>>, filter |-> <<>>, or |-> <<>>, join |-> <<>>,
     sort |-> <<>>, limit |-> Null, offset |-> Null, page |-> Null]

AppendField(conds, c) == Append(conds, c)

\* { ...old, [field]: condition }: a field filtered before keeps its place
\* and loses its old condition.
MergeField(conds, c) ==
    LET same == {i \in DOMAIN conds : conds[i].field = c.field}
    IN IF same = {} THEN Append(conds, c)
       ELSE [i \in DOMAIN conds |-> IF i \in same THEN c ELSE conds[i]]

Where(params, c) == [params EXCEPT !.filter = MergeField(@, c)]

OrWhere(params, conds) == [params EXCEPT !.or = conds]

ValuelessOps == {"isnull", "notnull", "$isnull", "$notnull"}

\* field||op or field||op||text: without a value there are two parts.
FilterToken(c) ==
    [field |-> c.field, op |-> c.op,
     parts |-> IF c.op \in ValuelessOps THEN 2 ELSE 3,
     text |-> IF c.op \in ValuelessOps THEN <<>>
              ELSE [i \in DOMAIN c.args |-> Text(c.args[i])]]

FilterTokens(conds) == [i \in DOMAIN conds |-> FilterToken(conds[i])]

JoinTokens(paths) == [i \in DOMAIN paths |-> [path |-> paths[i], select |-> <<>>]]

BuildQueryParams(params) ==
    [NoQuery EXCEPT
        !.fields = params.fields,
        !.filter = FilterTokens(params.filter),
        !.or = FilterTokens(params.or),
        !.join = JoinTokens(params.join),
        !.sort = params.sort,
        !.limit = params.limit,
        !.offset = params.offset,
        !.page = params.page]

-----------------------------------------------------------------------------
(* The server: one condition of filter= or or=.                            *)

NamedOps == {"eq", "ne", "gt", "lt", "gte", "lte", "starts", "ends", "cont",
             "excl", "in", "notin", "isnull", "notnull", "between"}

LongOps == {"$eq", "$ne", "$gt", "$lt", "$gte", "$lte", "$starts", "$ends",
            "$cont", "$excl", "$in", "$notin", "$isnull", "$notnull",
            "$between", "$eqL", "$neL", "$startsL", "$endsL", "$contL",
            "$exclL", "$inL", "$notinL"}

\* normalizeOperator: a bare name gets its dollar.
NormalizeOperator(op) == IF op \in NamedOps THEN "$" \o op ELSE op

ListOps == ArrayOps \cup {"$between"}

\* split(',') of the whole text; the pieces of a list are not compared with
\* "null", so a null inside a list stays a text.
SplitText(text) == FlattenSeq([i \in DOMAIN text |-> Pieces[text[i]]])

\* parseValue: the text "null" and the empty text are null, lists are split.
ParseValue(text, op) ==
    IF text \in {<<>>, <<NullText>>} THEN IF op \in ListOps THEN <<>> ELSE <<Null>>
    ELSE IF op \in ListOps THEN SplitText(text) ELSE text

FilterRejected(token) ==
    \/ token.op \notin NamedOps \cup LongOps
    \/ /\ token.parts = 2 \/ token.text = <<>>
       /\ NormalizeOperator(token.op) \notin {"$isnull", "$notnull"}

ParseFilterCondition(token) ==
    LET op == NormalizeOperator(token.op)
    IN Condition(token.field, op,
                 IF token.parts = 2 THEN <<Null>> ELSE ParseValue(token.text, op))

ParseFilters(tokens) == [i \in DOMAIN tokens |-> ParseFilterCondition(tokens[i])]

-----------------------------------------------------------------------------
(* Route params, sorts, joins, pagination.                                 *)

\* parseParams: only :id, or the configured params under their fields.
ParseParams(params) ==
    [i \in DOMAIN params |-> Condition(params[i].field, "$eq",
                                       ParseValue(<<params[i].value>>, "$eq"))]

SortRejected(token) == token.order \notin {"ASC", "DESC"}

ParseSort(tokens) ==
    [i \in DOMAIN tokens |->
        [field |-> tokens[i].field, order |-> tokens[i].order, nulls |-> ""]]

\* A select part that says "on" is skipped; join conditions are not part of
\* this dialect.
ParseJoins(tokens) ==
    [i \in DOMAIN tokens |->
        [path |-> tokens[i].path, inner |-> FALSE, on |-> <<>>,
         select |-> IF tokens[i].select = <<"on">> THEN <<>>
                    ELSE tokens[i].select]]

ParseLimit(q, opts) ==
    IF q.limit = Null THEN Null
    ELSE Least(q.limit, OrElse(opts.maxLimit, DefaultMaxLimit))

\* The page as it stands, counted from zero.
ParseOffsetFromZero(q, opts) ==
    IF q.page # Null THEN q.page * OrElse(q.limit, DefaultPageSize) ELSE q.offset

\* An offset given by the client wins over the one the page would give.
ParseOffset(q, opts) ==
    LET size == OrElse(ParseLimit(q, opts), OrElse(opts.limit, DefaultPageSize))
    IN IF q.page # Null /\ q.offset \in {Null, 0}
       THEN (q.page - 1) * size ELSE q.offset

-----------------------------------------------------------------------------
(* The search tree.                                                        *)

FieldNodes(conds) == [i \in DOMAIN conds |-> FieldNode(conds[i])]

\* One node stands for itself, several are put under the group.
Grouped(key, nodes) == IF Len(nodes) = 1 THEN nodes[1] ELSE GroupNode(key, nodes)

\* Filters and ors both required.
QuerySearchAnded(q) ==
    LET filters == FieldNodes(ParseFilters(q.filter))
        ors == FieldNodes(ParseFilters(q.or))
    IN IF q.s # <<>> THEN <<q.s>>
       ELSE filters \o (IF ors = <<>> THEN <<>> ELSE <<GroupNode("$or", ors)>>)

\* querySearch: s wins; filters and ors together are (filters) OR (ors).
QuerySearch(q) ==
    LET filters == FieldNodes(ParseFilters(q.filter))
        ors == FieldNodes(ParseFilters(q.or))
    IN IF q.s # <<>> THEN <<q.s>>
       ELSE IF filters # <<>> /\ ors # <<>>
       THEN <<GroupNode("$or", <<Grouped("$and", filters), Grouped("$and", ors)>>)>>
       ELSE IF filters # <<>> THEN <<Grouped("$and", filters)>>
       ELSE IF ors # <<>> THEN <<Grouped("$or", ors)>> ELSE <<>>

\* The auth node beside the alternatives of a lone or-group.
WithAuthBeside(and, auth) ==
    IF Len(and) = 1 /\ and[1] # <<>> /\ and[1][1].key = "$or"
    THEN GroupNode("$or", <<auth.filter>> \o and[1][1].kids)
    ELSE GroupNode("$and", <<auth.filter>> \o and)

\* How auth is put around the conditions of a request, in either parser.
\* auth.or and auth.filter are nodes; <<>> is none.
WithAuth(and, auth) ==
    IF auth.or # <<>>
    THEN GroupNode("$or", IF and = <<>> THEN <<auth.or>>
                          ELSE <<auth.or, GroupNode("$and", and)>>)
    ELSE LET all == IF auth.filter # <<>> THEN <<auth.filter>> \o and ELSE and
         IN IF all = <<>> THEN <<>> ELSE Grouped("$and", all)

BuildSearchTree(q, paramsFilter, auth, opts) ==
    WithAuth(FieldNodes(paramsFilter) \o opts.filter \o QuerySearch(q), auth)

\* RequestQueryException: the whole request is a 400.
NestjsxRejects(q) ==
    \/ \E token \in ToSet(q.filter) \cup ToSet(q.or) : FilterRejected(token)
    \/ \E token \in ToSet(q.sort) : SortRejected(token)
    \/ q.orGroup # <<>>          \* a PostgREST group has no `||`

ParseNestjsx(q, params, auth, opts) ==
    [dialect |-> "nestjsx",
     fields |-> q.fields,
     paramsFilter |-> ParseParams(params),
     search |-> BuildSearchTree(q, ParseParams(params), auth, opts),
     join |-> ParseJoins(q.join),
     sort |-> ParseSort(q.sort),
     limit |-> OrElse(ParseLimit(q, opts), OrElse(opts.limit, DefaultPageSize)),
     offset |-> OrElse(ParseOffset(q, opts), 0),
     page |-> OrElse(q.page, 1),
     asked |-> [limit |-> q.limit # Null, page |-> q.page # Null,
                offset |-> ParseOffset(q, opts) # Null]]
=============================================================================
