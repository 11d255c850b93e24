--------------------------- MODULE QueryPipeline ----------------------------
(***************************************************************************)
(* A read from end to end.  A program asks for rows through the two query  *)
(* builders of the SDK, call by call, the same calls on both; each builder *)
(* sends its query, the server answers; then the program may turn to the   *)
(* next page.  Other clients send queries the SDK does not write: search   *)
(* trees, logical groups, mixed dialects, route ids ("raw" requests).      *)
(***************************************************************************)
EXTENDS CrudService

CONSTANTS
    Setting,       \* server configurations: opts, svc, auth; and `pinned`,
                   \* whether the PostgREST builder's header gets through
    AskCondition,  \* conditions a program may ask for
    AskAny,        \* groups of alternatives a program may ask for
    AskColumns,    \* column lists a program may ask for
    AskRelation,   \* relations (paths) a program may ask for
    AskOrder,      \* sorts a program may ask for
    AskSize,       \* page sizes and limits a program may ask for
    RawRequest,    \* [q, header, id]: requests of other clients
    MaxCalls,      \* bound on builder calls of one query
    MaxTurns       \* bound on pages turned

ASSUME QueryPipelineAssumption ==
    /\ MaxCalls \in Nat
    /\ MaxTurns \in Nat
    /\ AskSize \subseteq Nat
    /\ Null \notin Int

\* Limits are counts, a path of the join allowlist is a sequence of relations, and
\* the auth filter is a node of conditions on columns of the root entity.
ASSUME SettingAssumption ==
    \A st \in Setting :
        /\ \A p \in DOMAIN st.opts.join : p \in Seq(ToSet(p))
        /\ {st.opts.limit, st.opts.maxLimit, st.svc.limit, st.svc.maxLimit}
                \subseteq Nat \cup {Null}
        /\ st.opts.filter \in Seq(ToSet(st.opts.filter))
        /\ {"filter", "or"} \subseteq DOMAIN st.auth
        /\ \A i \in DOMAIN st.auth.filter :
            /\ st.auth.filter[i].key = "field"
            /\ \E c \in RootColumn : st.auth.filter[i].cond.field = <<<<>>, c>>

\* Other clients send numbers where numbers belong.
ASSUME RawRequestAssumption ==
    \A raw \in RawRequest :
        /\ raw.q.limit \in Nat \cup {Null}
        /\ {raw.q.offset, raw.q.page} \subseteq Int \cup {Null}
        /\ raw.q.cols \in Seq(ToSet(raw.q.cols))

Lane == {"nestjsx", "postgrest", "raw"}

VARIABLES
    setting,   \* the server's configuration
    asked,     \* what the program has asked for so far
    params,    \* the params object of the EntityClient's QueryBuilder
    search,    \* the URL parameters of the PostgrestFilterBuilder
    calls,     \* builder calls so far
    turns,     \* pages turned so far
    request,   \* the raw request, or NoRequest
    answers,   \* answers[lane]: <<>> or the answer, a sequence of length one
    seen       \* seen[lane]: the rows of all pages so far

vars == <<setting, asked, params, search, calls, turns, request, answers, seen>>

NothingAsked ==
    [conds |-> <<>>, any |-> <<>>, columns |-> <<>>, relations |-> <<>>,
     sort |-> <<>>, size |-> Null, paging |-> "none", one |-> FALSE]

NoRequest == [q |-> NoQuery, header |-> "", id |-> Null]

NoAnswers == [lane \in Lane |-> <<>>]

Init ==
    /\ setting \in Setting
    /\ asked = NothingAsked
    /\ params = NoParams
    /\ search = NoQuery
    /\ calls = 0
    /\ turns = 0
    /\ request = NoRequest
    /\ answers = NoAnswers
    /\ seen = [lane \in Lane |-> <<>>]

-----------------------------------------------------------------------------
(* Builder calls.                                                          *)

Calling ==
    /\ calls < MaxCalls
    /\ answers = NoAnswers
    /\ turns = 0
    /\ calls' = calls + 1
    /\ UNCHANGED <<setting, turns, request, answers, seen>>

\* The PostgREST method a program uses for a condition, and its arguments.
ClientFilter(c) ==
    LET method == CASE c.op = "$eq" -> "eq"
                    [] c.op = "$ne" -> "neq"
                    [] c.op = "$gt" -> "gt"
                    [] c.op = "$gte" -> "gte"
                    [] c.op = "$lt" -> "lt"
                    [] c.op = "$lte" -> "lte"
                    [] c.op \in {"$in", "$notin"} -> "in"
                    [] c.op \in {"$isnull", "$notnull"} -> "is"
                    [] OTHER -> "like"
        negated == c.op \in {"$notin", "$notnull"}
        text == [i \in DOMAIN c.args |-> Text(c.args[i])]
    IN [Filter(c.field, negated, method, text) EXCEPT !.shape = LikeShape(c)]

\* where({field: {op: value}}) and eq(), in(), not(), ...  ($eq stands for a
\* plain value here).
AskWhere(c) ==
    /\ Calling
    /\ asked' = [asked EXCEPT !.conds = Append(@, c)]
    /\ params' = Where(params, c)
    /\ search' = AddFilter(search, ClientFilter(c))

\* or({...}) and or('...').
AskOr(cs) ==
    /\ Calling
    /\ asked' = [asked EXCEPT !.any = cs]
    /\ params' = OrWhere(params, cs)
    /\ search' = SetOrGroup(search,
                    [i \in DOMAIN cs |-> Branch("field", <<ClientFilter(cs[i])>>)])

\* The select= items of the columns and relations asked for.
SelectItems(ask) ==
    LET cols == IF ask.columns = <<>> THEN <<Column("*")>>
                ELSE [i \in DOMAIN ask.columns |-> Column(ask.columns[i])]
    IN cols \o [i \in DOMAIN ask.relations |-> Embed(ask.relations[i], FALSE, <<>>)]

\* select([...]) and select('...').
AskSelect(cs) ==
    /\ Calling
    /\ asked' = [asked EXCEPT !.columns = cs]
    /\ params' = [params EXCEPT !.fields = cs]
    /\ search' = SetSelect(search, SelectItems(asked'))

\* join([...]) and an embed in select.
AskJoin(ps) ==
    /\ Calling
    /\ asked' = [asked EXCEPT !.relations = ps]
    /\ params' = [params EXCEPT !.join = ps]
    /\ search' = SetSelect(search, SelectItems(asked'))

\* orderBy({...}) and order().
AskSort(s) ==
    /\ Calling
    /\ asked.sort = <<>>
    /\ asked' = [asked EXCEPT !.sort = s]
    /\ params' = [params EXCEPT !.sort = s]
    /\ search' = IF s[1].order = "DESC" THEN AddOrder(search, s[1].field, <<"desc">>)
                 ELSE AddOrder(search, s[1].field, <<"asc">>)

\* limit().
AskLimit(n) ==
    /\ Calling
    /\ asked.paging = "none"
    /\ asked' = [asked EXCEPT !.size = n]
    /\ params' = [params EXCEPT !.limit = n]
    /\ search' = [search EXCEPT !.limit = n]

\* limit() with page(1) or offset(0), and range(0, n - 1).
AskPages(n, style) ==
    /\ Calling
    /\ asked.size = Null
    /\ asked' = [asked EXCEPT !.size = n, !.paging = style]
    /\ params' = IF style = "page" THEN [params EXCEPT !.limit = n, !.page = 1]
                 ELSE [params EXCEPT !.limit = n, !.offset = 0]
    /\ search' = SetRange(search, 0, n - 1)

-----------------------------------------------------------------------------
(* Requests.                                                               *)

\* The interceptor's and the service's part, for the route GET / or GET /:id.
\* Every step binds its result as a parameter so that it is computed once.
ServedJoined(one, parsed, joined) ==
    IF one THEN GetOneAnswers(parsed, setting.opts, setting.svc, joined)
    ELSE GetManyAnswers(parsed, setting.opts, setting.svc, joined)

ServedParsed(one, parsed) ==
    ServedJoined(one, parsed, JoinedPaths(parsed, setting.opts))

Served(q, dialect, id) ==
    IF BadRequest(q, dialect) THEN {Failure(400)}
    ELSE ServedParsed(id # Null,
                      Intercepted(q, dialect,
                                  IF id = Null THEN <<>>
                                  ELSE <<[field |-> <<<<>>, PrimaryKey>>, value |-> id]>>,
                                  setting.auth, setting.opts))

Answered(lane, answer) ==
    /\ answers' = [answers EXCEPT ![lane] = <<answer>>]
    /\ seen' = [seen EXCEPT ![lane] = @ \o answer.rows]
    /\ UNCHANGED <<setting, asked, search, calls, turns, request>>

\* findMany().
FindMany ==
    /\ answers["nestjsx"] = <<>>
    /\ answers["raw"] = <<>>
    /\ ~asked.one
    /\ LET q == BuildQueryParams(params)
       IN \E answer \in Served(q, DetectDialect(q, ""), Null) :
            Answered("nestjsx", answer)
    /\ UNCHANGED params

\* Awaiting the PostgREST builder, after single() or maybeSingle() or neither.
Execute(mode) ==
    /\ answers["postgrest"] = <<>>
    /\ answers["raw"] = <<>>
    /\ ~asked.one
    /\ mode # "many" => asked.paging = "none"
    /\ \E answer \in Served(search,
            DetectDialect(search, IF setting.pinned THEN "postgrest" ELSE ""), Null) :
            Answered("postgrest", SingleResult(mode, answer))
    /\ UNCHANGED params

\* findOne(): a filter on the id alone becomes the route; otherwise the limit
\* of the shared params object is set and the first row taken.
FindOne ==
    /\ answers = NoAnswers
    /\ turns = 0
    /\ LET byId == /\ Len(params.filter) = 1
                   /\ params.filter[1].field = <<<<>>, PrimaryKey>>
                   /\ params.filter[1].op = "$eq"
           sent == IF byId THEN [params EXCEPT !.filter = <<>>]
                   ELSE [params EXCEPT !.limit = 1]
           q == BuildQueryParams(sent)
       IN /\ \E answer \in Served(q, DetectDialect(q, ""),
                    IF byId THEN params.filter[1].args[1] ELSE Null) :
                /\ answers' = [answers EXCEPT !["nestjsx"] = <<
                       [answer EXCEPT !.rows = SubSeq(@, 1, Least(1, Len(@)))]>>]
                /\ seen' = [seen EXCEPT !["nestjsx"] = answer.rows]
          /\ params' = IF byId THEN params ELSE sent
          /\ asked' = [asked EXCEPT !.one = TRUE]
    /\ UNCHANGED <<setting, search, calls, turns, request>>

\* A request of another client.
SendRaw(raw) ==
    /\ calls = 0
    /\ answers = NoAnswers
    /\ request' = raw
    /\ \E answer \in Served(raw.q, DetectDialect(raw.q, raw.header), raw.id) :
        /\ answers' = [answers EXCEPT !["raw"] = <<answer>>]
        /\ seen' = [seen EXCEPT !["raw"] = answer.rows]
    /\ UNCHANGED <<setting, asked, params, search, calls, turns>>

\* The next page, on both builders.
TurnPage ==
    /\ asked.paging # "none"
    /\ ~asked.one
    /\ turns < MaxTurns
    /\ answers["nestjsx"] # <<>>
    /\ answers["postgrest"] # <<>>
    /\ turns' = turns + 1
    /\ params' = IF asked.paging = "page" THEN [params EXCEPT !.page = @ + 1]
                 ELSE [params EXCEPT !.offset = @ + asked.size]
    /\ search' = SetRange(search, (turns + 1) * asked.size,
                                  (turns + 2) * asked.size - 1)
    /\ answers' = NoAnswers
    /\ UNCHANGED <<setting, asked, calls, request, seen>>

\* A fresh EntityClient and builder.
NewQuery ==
    /\ answers # NoAnswers
    /\ asked' = NothingAsked
    /\ params' = NoParams
    /\ search' = NoQuery
    /\ calls' = 0
    /\ turns' = 0
    /\ request' = NoRequest
    /\ answers' = NoAnswers
    /\ seen' = [lane \in Lane |-> <<>>]
    /\ UNCHANGED setting

Next ==
    \/ \E c \in AskCondition : AskWhere(c)
    \/ \E cs \in AskAny : AskOr(cs)
    \/ \E cs \in AskColumns : AskSelect(cs)
    \/ \E ps \in AskRelation : AskJoin(ps)
    \/ \E s \in AskOrder : AskSort(s)
    \/ \E n \in AskSize : AskLimit(n)
    \/ \E n \in AskSize, style \in {"page", "offset"} : AskPages(n, style)
    \/ FindMany
    \/ \E mode \in {"many", "single", "maybe"} : Execute(mode)
    \/ FindOne
    \/ \E raw \in RawRequest : SendRaw(raw)
    \/ TurnPage
    \/ NewQuery

Spec == Init /\ [][Next]_vars

-----------------------------------------------------------------------------
(* What a query means, told without parsers, trees and joins: ask is what   *)
(* has been asked for, st the server's configuration.                      *)

RowHolds(id, k, c) ==
    CondHolds(IF c.field[1] = <<>> THEN Rows[id][c.field[2]]
              ELSE IF k = Null THEN Null
              ELSE Related[c.field[1]][k].row[c.field[2]], c)

OnRoot(c) == c.field[1] = <<>>

\* The one relation the conditions asked for may speak of, and its rows.
AskedPath == <<"posts">>

OwnRelated(id) == {k \in DOMAIN Related[AskedPath] : Related[AskedPath][k].of = id}

\* The keys of a LEFT JOIN.
Keys(id) == IF OwnRelated(id) = {} THEN {Null} ELSE OwnRelated(id)

All(id, k, conds) == \A c \in conds : RowHolds(id, k, c)

Some(id, k, conds) == \E c \in conds : RowHolds(id, k, c)

\* INNER JOIN on a required relation that is joined.
HasRequired(ask, st, id, conds) ==
    (/\ AskedPath \in DOMAIN st.opts.join
     /\ st.opts.join[AskedPath].required
     /\ st.opts.join[AskedPath].eager \/ AskedPath \in ToSet(ask.relations))
    => \E k \in OwnRelated(id) : All(id, k, conds)

\* The where() calls that are not overwritten by a later one on their field.
Standing(conds) ==
    {conds[i] : i \in {i \in DOMAIN conds :
        \A j \in DOMAIN conds : conds[j].field = conds[i].field => j <= i}}

\* The conditions of an embedded relation, which choose embedded rows.
Shaping(ask) == {c \in ToSet(ask.conds) : ~OnRoot(c) /\ c.field[1] \in ToSet(ask.relations)}

ControllerHolds(st, id, k) ==
    \A n \in ToSet(st.opts.filter) : All(id, k, NodeConditions0(n))

\* auth.or widens what is asked, if anything is; auth.filter narrows it.
AuthWidens(st, id, k) == st.auth.or # <<>> /\ Some(id, k, NodeConditions0(st.auth.or))

AuthAllows(st, id, k) ==
    st.auth.or = <<>> => All(id, k, NodeConditions0(st.auth.filter))

\* nestjsx: both groups are alternatives; a condition on a relation is a
\* condition on the joined rows, and the controller's filter counts.
NestjsxKeeps(ask, st, id, k) ==
    LET conds == Standing(ask.conds)
        any == ToSet(ask.any)
    IN \/ AuthWidens(st, id, k)
       \/ /\ AuthAllows(st, id, k)
          /\ st.auth.or # <<>> => conds \cup any # {} \/ st.opts.filter # <<>>
          /\ ControllerHolds(st, id, k)
          /\ \/ conds # {} /\ All(id, k, conds)
             \/ any # {} /\ (IF conds = {} THEN Some(id, k, any) ELSE All(id, k, any))
             \/ conds \cup any = {}

\* PostgREST: all conditions and one of the alternatives; a condition on an
\* embedded relation chooses embedded rows and no parents.
PostgrestKeeps(ask, st, id, k) ==
    LET conds == ToSet(ask.conds) \ Shaping(ask)
        any == ToSet(ask.any)
    IN \/ AuthWidens(st, id, k)
       \/ /\ AuthAllows(st, id, k)
          /\ st.auth.or # <<>> => conds \cup any # {}
          /\ All(id, k, conds)
          /\ any # {} => Some(id, k, any)

Meant(lane, ask, st) ==
    {id \in DOMAIN Rows : \E k \in Keys(id) :
        IF lane = "nestjsx" THEN NestjsxKeeps(ask, st, id, k) /\ HasRequired(ask, st, id, {})
        ELSE PostgrestKeeps(ask, st, id, k) /\ HasRequired(ask, st, id, Shaping(ask))}

\* How many rows a first page has room for: what the client asks, within the
\* controller's and the service's maximum.
Room(lane, ask, st) ==
    LET cap == Least(OrElse(st.opts.maxLimit, DefaultMaxLimit),
                     OrElse(st.svc.maxLimit, DefaultMaxLimit))
        default == Least(OrElse(st.opts.limit, DefaultPageSize),
                         OrElse(st.svc.maxLimit, DefaultMaxLimit))
    IN IF ask.one THEN 1
       ELSE IF ask.size # Null THEN Least(ask.size, cap)
       ELSE IF /\ lane = "nestjsx"
               /\ ~st.opts.alwaysPaginate
               /\ OrElse(st.svc.limit, 0) = 0
       THEN Cardinality(DOMAIN Rows) ELSE default

\* The order asked for; PostgreSQL places the nulls.
SortAsked(ask) ==
    [i \in DOMAIN ask.sort |->
        [field |-> ask.sort[i].field, order |-> ask.sort[i].order, nulls |-> ""]]

\* A sort by the key decides every order.
SortsByKey(ask) == ask.sort # <<>> /\ ask.sort[1].field = <<<<>>, PrimaryKey>>

\* The size of a page as the server counts pages.
PageSize(ask, st) == Least(ask.size, OrElse(st.opts.maxLimit, DefaultMaxLimit))

-----------------------------------------------------------------------------
(* The programs and settings the meaning is told for.  Outside of them the *)
(* two dialects, or the client and the server, read a query differently: a *)
(* text "null", a comma in a list, a limit of zero.                        *)

\* A condition both dialects can write.
Writable(c) ==
    /\ c = Condition(<<c.field[1], c.field[2]>>, c.op, c.args)
    /\ c.field[1] \in {<<>>, AskedPath}
    /\ \/ c.op \in {"$isnull", "$notnull"} /\ c.args = <<Null>>
       \/ /\ c.op \in {"$in", "$notin"}
          /\ c.args \in Seq(Val \ {NullText}) \ {<<>>}
          /\ SplitText(c.args) = c.args
       \/ /\ c.op \in {"$eq", "$ne", "$gt", "$gte", "$lt", "$lte", "$starts", "$ends", "$cont"}
          /\ c.args[1] \in (Val \cup {Null}) \ {NullText}
          /\ c.args = <<c.args[1]>>

PlainPrograms ==
    /\ \A c \in AskCondition : Writable(c)
    /\ \A conds \in AskAny :
        /\ conds \in Seq(ToSet(conds))
        /\ \A i \in DOMAIN conds : Writable(conds[i]) /\ OnRoot(conds[i])
    /\ \A columns \in AskColumns : columns \in Seq(ToSet(columns)) /\ "*" \notin ToSet(columns)
    /\ \A relations \in AskRelation : relations \in Seq(ToSet(relations))
    /\ \A sort \in AskOrder :
        /\ sort = <<[field |-> <<<<>>, sort[1].field[2]>>, order |-> sort[1].order]>>
        /\ sort[1].order \in {"ASC", "DESC"}
    /\ 0 \notin AskSize

\* Conditions of the server on columns of the root entity.
OnColumns(node) ==
    \A i \in DOMAIN node :
        node[i].key = "field" /\ \E c \in RootColumn : node[i].cond.field = <<<<>>, c>>

\* The allowlist names relations there are and has a deepest one; no relation
\* below the one the conditions speak of is required.  When the dialect of a
\* PostgREST query is guessed, one that asks for nothing is read as nestjsx.
PlainSettings ==
    /\ AskedPath \in DOMAIN Related
    /\ \A st \in Setting :
        /\ 0 \notin {st.opts.limit, st.opts.maxLimit}
        /\ DOMAIN st.opts.join \subseteq DOMAIN Related \ {<<>>}
        /\ \E depth \in {0} \cup {Len(p) : p \in DOMAIN st.opts.join} :
              \A p \in DOMAIN st.opts.join : Len(p) <= depth
        /\ \A p \in DOMAIN st.opts.join : st.opts.join[p].required => p = AskedPath
        /\ \A node \in ToSet(st.opts.filter) \cup {st.auth.or} : OnColumns(node)
        /\ \/ st.pinned
           \/ /\ st.opts.filter = <<>>
              /\ st.opts.alwaysPaginate \/ OrElse(st.svc.limit, 0) # 0

-----------------------------------------------------------------------------
(* Properties.                                                             *)

Ok(lane) == answers[lane] # <<>> /\ answers[lane][1].status = 200

\* Variables keep their types; in particular a params object, keyed by field,
\* never holds two conditions on one field (EntityClient.where merges).
TypeOK ==
    /\ setting \in Setting
    /\ calls \in 0..MaxCalls
    /\ turns \in 0..MaxTurns
    /\ request \in RawRequest \cup {NoRequest}
    /\ \A i, j \in DOMAIN params.filter :
          params.filter[i].field = params.filter[j].field => i = j
    /\ \A lane \in Lane :
        /\ ToSet(seen[lane]) \subseteq DOMAIN Rows
        /\ Len(answers[lane]) \in {0, 1}
        /\ answers[lane] # <<>> =>
            /\ answers[lane][1].status \in {200, 400, 404, 406, 500}
            /\ ToSet(answers[lane][1].rows) \subseteq DOMAIN Rows

\* However a query is written, in either dialect and by whatever client, no
\* answer holds a row outside the crud auth filter: user conditions never
\* widen it (applyWhere, buildSearchTree of both parsers).
AuthFilterHolds ==
    setting.auth.or = <<>> =>
        \A lane \in Lane : Ok(lane) =>
            \A id \in ToSet(answers[lane][1].rows) :
                \A i \in DOMAIN setting.auth.filter :
                    CondHolds(Rows[id][setting.auth.filter[i].cond.field[2]],
                              setting.auth.filter[i].cond)

\* An answer selects only relations of the join allowlist, and a nested one
\* only with every relation above it (applyJoins).
JoinsStayAllowed ==
    \A lane \in Lane : Ok(lane) =>
        \A p \in DOMAIN answers[lane][1].joins : \A n \in 1..Len(p) :
            /\ SubSeq(p, 1, n) \in DOMAIN setting.opts.join
            /\ SubSeq(p, 1, n) \in DOMAIN answers[lane][1].joins

\* Row a must come before row b.
Before(a, b) == Precedes(a, b, SortAsked(asked))

\* findOne of an id: the other calls are part of the route's query.
ById ==
    /\ asked.one
    /\ Len(params.filter) = 1
    /\ params.filter[1].field = <<<<>>, PrimaryKey>>
    /\ params.filter[1].op = "$eq"

\* What comes back for calls on a builder is what the calls mean: rows that
\* are meant, none twice, as many as there is room for, in the order asked
\* for, and no later row instead of an earlier one (both parsers, buildSearch,
\* applySort, applyPagination).
AnswersWhatWasAsked ==
    \A lane \in {"nestjsx", "postgrest"} :
        LET rows == answers[lane][1].rows
            meant == Meant(lane, asked, setting)
        IN Ok(lane) /\ turns = 0 /\ ~ById =>
            /\ ToSet(rows) \subseteq meant
            /\ Len(rows) = Least(Cardinality(meant), Room(lane, asked, setting))
            /\ \A i, j \in DOMAIN rows : i < j =>
                  rows[i] # rows[j] /\ ~Before(rows[j], rows[i])
            /\ \A id \in meant \ ToSet(rows) : \A i \in DOMAIN rows :
                  ~Before(id, rows[i])

\* The two dialects leave nothing to choose: not more than one group of
\* alternatives or conditions, one condition on a field, no condition on a
\* relation, no controller filter, and a sort that decides if rows are cut.
Comparable ==
    /\ asked.conds = <<>> \/ asked.any = <<>>
    /\ \A i, j \in DOMAIN asked.conds :
          /\ asked.conds[i].field = asked.conds[j].field => i = j
          /\ OnRoot(asked.conds[i])
    /\ setting.opts.filter = <<>>
    /\ \/ /\ turns = 0
          /\ Cardinality(Meant("nestjsx", asked, setting)) <= Room("postgrest", asked, setting)
       \/ /\ asked.size # Null
          /\ SortsByKey(asked)
          /\ asked.size <= OrElse(setting.opts.maxLimit, DefaultMaxLimit)

\* Both builders, asked for the same, bring the same rows with the same
\* columns and the same related rows (the two grammars feed one service).
DialectsAgree ==
    LET n == answers["nestjsx"][1]
        p == answers["postgrest"][1]
    IN Ok("nestjsx") /\ Ok("postgrest") /\ Comparable =>
        /\ ToSet(n.rows) = ToSet(p.rows)
        /\ n.columns = p.columns
        /\ n.joins = p.joins
        /\ n.related = p.related

\* Pages can be turned: the server's limit does not cut a page the client
\* counts as whole.
Turnable ==
    /\ asked.paging # "none"
    /\ ~asked.one
    /\ SortsByKey(asked)
    /\ PageSize(asked, setting) <= OrElse(setting.svc.maxLimit, DefaultMaxLimit)

\* Turning pages in the order of the key brings every row once, in order and
\* without gaps: by page numbers whatever the size, by offsets when the size
\* is within the maximum (parseOffset, applyPagination, range).
PagesPartition ==
    \A lane \in {"nestjsx", "postgrest"} :
        LET size == PageSize(asked, setting)
            meant == Meant(lane, asked, setting)
        IN /\ Turnable
           /\ Ok(lane)
           /\ size = asked.size \/ (asked.paging = "page" /\ lane = "nestjsx")
           => /\ Len(seen[lane]) = Least((turns + 1) * size, Cardinality(meant))
              /\ ToSet(seen[lane]) \subseteq meant
              /\ \A i, j \in DOMAIN seen[lane] : i < j =>
                    Before(seen[lane][i], seen[lane][j])

\* The envelope's page count is right: the last page it names is the one after
\* which every row has been seen (decidePagination, getMany).
PageCountIsExact ==
    LET n == answers["nestjsx"][1]
    IN Turnable /\ asked.paging = "page" /\ Ok("nestjsx") =>
        /\ n.envelope
        /\ n.page = turns + 1
        /\ n.total = Cardinality(Meant("nestjsx", asked, setting))
        /\ (turns + 1 >= n.pageCount) <=> (Len(seen["nestjsx"]) = n.total)

\* The row of an answer to GET /:id is the row the route names, whatever else
\* the query says: "so getOne/update/delete always target by id" (applyWhere).
RouteNamesTheRow ==
    request.id # Null /\ Ok("raw") => answers["raw"][1].rows = <<request.id>>
=============================================================================
