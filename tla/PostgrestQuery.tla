--------------------------- MODULE PostgrestQuery ---------------------------
(***************************************************************************)
(* The PostgREST query dialect: the URL parameters PostgrestFilterBuilder  *)
(* appends (eq, in, not, or, order, range, select, ...), and what          *)
(* PostgrestRequestParser reads from them.                                 *)
(*                                                                         *)
(* A column filter is a record: field, negated (`not.`), op, the texts of  *)
(* its value and the place of the wildcards of a like pattern.  Parentheses*)
(* are gone: an embed is its path, a logical group a list of branches.     *)
(***************************************************************************)
EXTENDS NestjsxQuery, Positions

Filter(f, negated, o, text) ==
    [field |-> f, negated |-> negated, op |-> o, text |-> text,
     shape |-> "exact"]

-----------------------------------------------------------------------------
(* The client.                                                             *)

\* Each filter method appends `col=op.value`; nothing is overwritten.  in()
\* quotes a text with a comma, so each stays one member.
AddFilter(q, filter) == [q EXCEPT !.cols = Append(@, filter)]

\* or(): search.set, a second group replaces the first.
SetOrGroup(q, branches) == [q EXCEPT !.orGroup = branches]

\* order(): appended to what is there; no modifier without nullsFirst.
AddOrder(q, f, modifiers) ==
    [q EXCEPT !.order = Append(@, [field |-> f, modifiers |-> modifiers])]

\* range(): inclusive, becomes offset and limit.
SetRange(q, from, to) == [q EXCEPT !.offset = from, !.limit = to - from + 1]

\* select(): the columns and embeds asked for.
SetSelect(q, items) == [q EXCEPT !.select = items]

\* single() and maybeSingle(): what the answer becomes.
SingleResult(mode, answer) ==
    IF \/ mode = "many" \/ answer.status # 200 \/ Len(answer.rows) = 1
       \/ mode = "maybe" /\ answer.rows = <<>>
    THEN answer
    ELSE [answer EXCEPT !.status = 406, !.rows = <<>>]

-----------------------------------------------------------------------------
(* The server: one column filter.                                          *)

PlainMap == [eq |-> "$eq", neq |-> "$ne", gt |-> "$gt", gte |-> "$gte",
             lt |-> "$lt", lte |-> "$lte", like |-> "$like",
             ilike |-> "$ilike", in |-> "$in", is |-> "$isnull"]

\* not.is.null read as is.null.
NotMapPlainIs == [eq |-> "$ne", neq |-> "$eq", in |-> "$notin", like |-> "$excl",
                  ilike |-> "$exclL", is |-> "$isnull"]

NotMap == [eq |-> "$ne", neq |-> "$eq", in |-> "$notin", like |-> "$excl",
           ilike |-> "$exclL", is |-> "$notnull"]

OpMap(filter) == IF filter.negated THEN NotMap ELSE PlainMap

\* coerce: in this dialect every text "null" is null, inside lists too.
Coerce(v) == IF v = NullText THEN Null ELSE v

ColumnFilterRejected(filter) == filter.op \notin DOMAIN OpMap(filter)

ParseColumnFilter(filter) ==
    LET op == OpMap(filter)[filter.op]
        coerced == [i \in DOMAIN filter.text |-> Coerce(filter.text[i])]
        cond == Condition(filter.field, op, coerced)
    IN CASE filter.op \in {"like", "ilike"} ->
                [cond EXCEPT !.args = filter.text, !.shape = filter.shape]
         [] filter.op = "is" /\ coerced # <<Null>> ->      \* is.true, is.false
                [cond EXCEPT !.op = IF filter.negated THEN "$ne" ELSE "$eq"]
         [] OTHER -> cond

ParseColumnFilters(filters) ==
    [i \in DOMAIN filters |-> ParseColumnFilter(filters[i])]

-----------------------------------------------------------------------------
(* Logical groups: a branch is a filter (key "field") or a nested or(...)  *)
(* or and(...) of filters.                                                 *)

Branch(key, filters) == [key |-> key, filters |-> filters]

ParseBranch(branch) ==
    LET nodes == FieldNodes(ParseColumnFilters(branch.filters))
    IN IF branch.key = "field" THEN nodes[1] ELSE GroupNode(branch.key, nodes)

\* parseLogical: no node for an absent group.
ParseLogical(branches, key) ==
    IF branches = <<>> THEN <<>>
    ELSE <<GroupNode(key, [i \in DOMAIN branches |-> ParseBranch(branches[i])])>>

-----------------------------------------------------------------------------
(* select= and order=.                                                     *)

Column(c) == [kind |-> "column", path |-> <<>>, inner |-> FALSE, cols |-> <<c>>]

Embed(path, inner, cols) ==
    [kind |-> "embed", path |-> path, inner |-> inner, cols |-> cols]

\* parseSelect: `*` names no column; an embed becomes a join with its path.
ParseSelectFields(items) ==
    LET named == AtPositions(items, {i \in DOMAIN items :
                     items[i].kind = "column" /\ items[i].cols # <<"*">>})
    IN [i \in DOMAIN named |-> named[i].cols[1]]

ParseEmbeds(items) ==
    LET embeds == AtPositions(items, {i \in DOMAIN items : items[i].kind = "embed"})
    IN [i \in DOMAIN embeds |->
           [path |-> embeds[i].path, inner |-> embeds[i].inner, on |-> <<>>,
            select |-> embeds[i].cols]]

OrderModifiers == {"asc", "desc", "nullsfirst", "nullslast"}

OrderRejected(token) == ToSet(token.modifiers) \ OrderModifiers # {}

\* The last of two modifiers that exclude each other counts.
Counts(modifiers, m, other) ==
    \E i \in DOMAIN modifiers :
        modifiers[i] = m /\ \A j \in DOMAIN modifiers : modifiers[j] = other => j < i

ParseOrder(tokens) ==
    [i \in DOMAIN tokens |->
        [field |-> tokens[i].field,
         order |-> IF Counts(tokens[i].modifiers, "desc", "asc") THEN "DESC" ELSE "ASC",
         nulls |-> IF Counts(tokens[i].modifiers, "nullsfirst", "nullslast") THEN "FIRST"
                   ELSE IF Counts(tokens[i].modifiers, "nullslast", "nullsfirst") THEN "LAST"
                   ELSE ""]]

-----------------------------------------------------------------------------
(* Filters on embedded resources (partitionEmbeddedFilters).               *)

\* The filter shapes the rows of an embed, not the parents: unless the embed
\* is !inner it leaves the WHERE clause for the join's ON.
ShapesEmbed(cond, joins) ==
    /\ cond.field[1] # <<>>
    /\ \E i \in DOMAIN joins :
        /\ joins[i].path = cond.field[1]
        /\ ~joins[i].inner
        /\ \A j \in DOMAIN joins : j > i => joins[j].path # joins[i].path

\* The others, in their order.
RootFilters(conds, joins) ==
    AtPositions(conds, {i \in DOMAIN conds : ~ShapesEmbed(conds[i], joins)})

JoinsWithOn(conds, joins) ==
    [i \in DOMAIN joins |->
        [joins[i] EXCEPT !.on = AtPositions(conds, {n \in DOMAIN conds :
            conds[n].field[1] = joins[i].path /\ ShapesEmbed(conds[n], joins)})]]

-----------------------------------------------------------------------------
(* The parsed request.                                                     *)

PostgrestRejects(q) ==
    \/ \E filter \in ToSet(q.cols) : ColumnFilterRejected(filter)
    \/ \E branch \in ToSet(q.orGroup) \cup ToSet(q.andGroup) :
          \E filter \in ToSet(branch.filters) : ColumnFilterRejected(filter)
    \/ \E token \in ToSet(q.order) : OrderRejected(token)
    \* Every key that is not reserved is a column filter, and these have no
    \* `op.value`; or= needs its parentheses.
    \/ q.page # Null
    \/ q.fields \o q.filter \o q.or \o q.s \o q.sort \o q.join # <<>>

\* The route params are parsed but not put into the tree; neither are the
\* controller's own filters (opts.filter).
ParsePostgrest(q, params, auth, opts) ==
    LET conds == ParseColumnFilters(q.cols)
        joins == ParseEmbeds(q.select)
        limit == IF q.limit = Null THEN Null
                 ELSE Least(q.limit,
                            IF opts.maxLimit = Null THEN DefaultMaxLimit
                            ELSE opts.maxLimit)
    IN [dialect |-> "postgrest",
        fields |-> ParseSelectFields(q.select),
        paramsFilter |-> ParseParams(params),
        search |-> WithAuth(FieldNodes(RootFilters(conds, joins))
                            \o ParseLogical(q.orGroup, "$or")
                            \o ParseLogical(q.andGroup, "$and"), auth),
        join |-> JoinsWithOn(conds, joins),
        sort |-> ParseOrder(q.order),
        limit |-> IF limit # Null THEN limit
                  ELSE IF opts.limit # Null THEN opts.limit ELSE DefaultPageSize,
        offset |-> IF q.offset = Null THEN 0 ELSE q.offset,
        page |-> IF q.offset # Null /\ OrElse(limit, 0) # 0
                 THEN q.offset \div limit + 1 ELSE 1,
        asked |-> [limit |-> q.limit # Null, page |-> FALSE,
                   offset |-> q.offset # Null]]
=============================================================================
