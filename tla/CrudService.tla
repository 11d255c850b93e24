---------------------------- MODULE CrudService -----------------------------
(***************************************************************************)
(* The server side of a read: the interceptor picks the dialect, parses    *)
(* the query and puts auth around it; TypeOrmCrudService turns the parsed  *)
(* request into one SQL query and answers with rows.                       *)
(*                                                                         *)
(* A path is the sequence of relation names from the root entity; a field  *)
(* is a path and a column.  A LEFT or INNER JOIN gives, for every root row,*)
(* the environments: one related row (or none, Null) for every joined path.*)
(***************************************************************************)
EXTENDS PostgrestQuery

CONSTANTS
    PrimaryKey,   \* name of the primary key column of every entity
    RootColumn,   \* the columns of the root entity
    Rows,         \* Rows[id]: the root table
    RelColumn,    \* RelColumn[p]: the columns of the entity at path p
    Related,      \* Related[p][k]: a related row and the key it belongs to
    Scan          \* the orders in which the database may find the root rows

ASSUME CrudServiceAssumption ==
    /\ PrimaryKey \in RootColumn
    /\ IsFiniteSet(DOMAIN Rows)
    /\ Rows \in [DOMAIN Rows -> [RootColumn -> Val \cup {Null}]]
    /\ \A id \in DOMAIN Rows : Rows[id][PrimaryKey] = id
    /\ DOMAIN RelColumn = DOMAIN Related
    /\ \A p \in DOMAIN Related : Null \notin DOMAIN Related[p]
    /\ \A scan \in Scan : \A id \in DOMAIN Rows : id \in ToSet(scan)

-----------------------------------------------------------------------------
(* Dialect detection and the interceptor.                                  *)

NestjsxSignal(q) ==
    q.fields \o q.filter \o q.or \o q.orGroup \o q.join \o q.sort \o q.s # <<>>

PostgrestSignal(q) == q.select \o q.order \o q.cols # <<>>

\* The header wins; without it the keys decide, and both families is a 400.
DetectDialect(q, header) ==
    IF header # "" THEN header
    ELSE IF NestjsxSignal(q) /\ PostgrestSignal(q) THEN "ambiguous"
    ELSE IF PostgrestSignal(q) THEN "postgrest" ELSE "nestjsx"

\* auth.filter is looked at only without auth.or.
AuthContext(auth) == IF auth.or # <<>> THEN [auth EXCEPT !.filter = <<>>] ELSE auth

BadRequest(q, dialect) ==
    CASE dialect = "ambiguous" -> TRUE
      [] dialect = "postgrest" -> PostgrestRejects(q)
      [] OTHER -> NestjsxRejects(q)

Intercepted(q, dialect, params, auth, opts) ==
    IF dialect = "postgrest" THEN ParsePostgrest(q, params, AuthContext(auth), opts)
    ELSE ParseNestjsx(q, params, AuthContext(auth), opts)

-----------------------------------------------------------------------------
(* Joins.                                                                  *)

\* The joins of the request and the eager ones; a later join of a path wins.
WantedJoins(parsed, opts) ==
    {j.path : j \in ToSet(parsed.join)} \cup
    {p \in DOMAIN opts.join : opts.join[p].eager}

JoinOf(parsed, p) ==
    LET same == {i \in DOMAIN parsed.join : parsed.join[i].path = p}
    IN IF same = {} THEN [path |-> p, inner |-> FALSE, on |-> <<>>, select |-> <<>>]
       ELSE parsed.join[Max(same)]

\* A relation joined whatever the allowlist says.
JoinedWhenAsked(parsed, opts) ==
    {p \in WantedJoins(parsed, opts) : \A n \in 1..Len(p) :
        SubSeq(p, 1, n) \in WantedJoins(parsed, opts)}

\* A join is applied when it is in the allowlist and its parent is joined.
JoinedPaths(parsed, opts) ==
    {p \in WantedJoins(parsed, opts) \cap DOMAIN opts.join : \A n \in 1..Len(p) :
        SubSeq(p, 1, n) \in WantedJoins(parsed, opts) \cap DOMAIN opts.join}

\* The options of a join; a path without an entry has none.
JoinOptions(opts, p) ==
    IF p \in DOMAIN opts.join THEN opts.join[p]
    ELSE [eager |-> FALSE, required |-> FALSE, allow |-> <<>>]

\* Requested columns within the allowed ones; when none is left the relation
\* is selected whole.
JoinColumns(j, cfg) ==
    LET kept == IF j.select = <<>> THEN ToSet(cfg.allow)
                ELSE IF cfg.allow = <<>> THEN ToSet(j.select)
                ELSE ToSet(j.select) \cap ToSet(cfg.allow)
    IN IF kept = {} THEN RelColumn[j.path] ELSE kept \cup {PrimaryKey}

\* The key of the row that the rows at path p hang on.
ParentKey(root, env, p) == IF Len(p) = 1 THEN root ELSE env[Front(p)]

\* The related rows the ON clause lets through.
Matching(root, env, p, on) ==
    {k \in DOMAIN Related[p] :
        /\ Related[p][k].of = ParentKey(root, env, p)
        /\ \A i \in DOMAIN on : CondHolds(Related[p][k].row[on[i].field[2]], on[i])}

\* The rows of the joined result that belong to one root row.
Environments(root, parsed, opts, joined) ==
    {env \in [joined -> {Null} \cup UNION {DOMAIN Related[p] : p \in joined}] :
        \A p \in joined :
            LET rows == Matching(root, env, p, JoinOf(parsed, p).on)
            IN IF rows = {} THEN ~JoinOptions(opts, p).required /\ env[p] = Null
               ELSE env[p] \in rows}

-----------------------------------------------------------------------------
(* WHERE.                                                                  *)

KnownFields(joined) ==
    {<<<<>>, c>> : c \in RootColumn} \cup
    UNION {{<<p, c>> : c \in RelColumn[p]} : p \in joined}

RowValues(root, env, joined) ==
    [f \in KnownFields(joined) |->
        IF f[1] = <<>> THEN Rows[root][f[2]]
        ELSE IF env[f[1]] = Null THEN Null
        ELSE Related[f[1]][env[f[1]]].row[f[2]]]

\* The tree alone; the route params only when the tree is empty.
WhereHolds(parsed, r) ==
    IF parsed.search # <<>> THEN SearchHolds(r, parsed.search)
    ELSE \A i \in DOMAIN parsed.paramsFilter :
            CondHolds(r[parsed.paramsFilter[i].field], parsed.paramsFilter[i])

WhereConditions(parsed) ==
    IF parsed.search # <<>> THEN Conditions(parsed.search)
    ELSE ToSet(parsed.paramsFilter)

OnConditions(parsed, joined) ==
    UNION {{[c EXCEPT !.field = <<p, c.field[2]>>] : c \in ToSet(JoinOf(parsed, p).on)}
           : p \in joined}

\* The environments of a root row that WHERE keeps.
KeptEnvironments(root, parsed, opts, joined) ==
    {env \in Environments(root, parsed, opts, joined) :
        WhereHolds(parsed, RowValues(root, env, joined))}

KeptRows(parsed, opts, joined) ==
    {id \in DOMAIN Rows : KeptEnvironments(id, parsed, opts, joined) # {}}

-----------------------------------------------------------------------------
(* ORDER BY, LIMIT and OFFSET.                                             *)

\* PostgreSQL: nulls are larger than every value unless placed explicitly.
ComesFirst(x, y, s) ==
    LET nullsFirst == s.nulls = "FIRST" \/ (s.nulls = "" /\ s.order = "DESC")
    IN IF x = Null THEN y # Null /\ nullsFirst
       ELSE IF y = Null THEN ~nullsFirst
       ELSE IF s.order = "DESC" THEN x > y ELSE x < y

\* Root row a must come before root row b.
Precedes(a, b, sort) ==
    \E i \in DOMAIN sort :
        /\ ComesFirst(Rows[a][sort[i].field[2]], Rows[b][sort[i].field[2]], sort[i])
        /\ \A j \in 1..(i - 1) :
              Rows[a][sort[j].field[2]] = Rows[b][sort[j].field[2]]

\* Rows that tie, and all rows without ORDER BY, come as they were found.
Orderings(ids, sort) ==
    {s \in SetToSeqs(ids) : \E scan \in Scan : \A i, j \in DOMAIN s :
        i < j => \/ Precedes(s[i], s[j], sort)
                 \/ /\ ~Precedes(s[j], s[i], sort)
                    /\ \E m, n \in DOMAIN scan :
                          m < n /\ scan[m] = s[i] /\ scan[n] = s[j]}

PageLimit(parsed, svc) ==
    Least(OrElse(parsed.limit, OrElse(svc.limit, DefaultPageSize)),
          OrElse(svc.maxLimit, DefaultMaxLimit))

PageOffset(parsed, svc) ==
    OrElse(parsed.offset, (OrElse(parsed.page, 1) - 1) * PageLimit(parsed, svc))

\* take/skip with joins, limit/offset without: both count root rows.
Window(s, offset, limit) == SubSeq(s, offset + 1, Least(offset + limit, Len(s)))

-----------------------------------------------------------------------------
(* getMany and getOne.                                                     *)

Paginated(parsed, opts) ==
    opts.alwaysPaginate \/ parsed.asked.page \/ parsed.asked.offset

Failure(status) ==
    [status |-> status, rows |-> <<>>, related |-> <<>>, columns |-> {},
     joins |-> <<>>, envelope |-> FALSE, total |-> 0, page |-> 0, pageCount |-> 0]

\* getSelect: known columns of the request, and always the primary key.
RootSelect(parsed) ==
    IF parsed.fields = <<>> THEN RootColumn
    ELSE {PrimaryKey} \cup (ToSet(parsed.fields) \cap RootColumn)

UnknownFields(parsed, joined) ==
    ({c.field : c \in WhereConditions(parsed) \cup OnConditions(parsed, joined)}
     \cup {s.field : s \in ToSet(parsed.sort)}) \ KnownFields(joined)

\* Why the query has no rows to answer with, "" if it has: an array operator
\* without an array (400), a negative LIMIT or OFFSET or an unknown column
\* (500, but 400 for getMany in the PostgREST dialect).
QueryFailure(parsed, joined, bare, svc) ==
    IF \E c \in WhereConditions(parsed) \cup OnConditions(parsed, joined) : ~Buildable(c)
    THEN 400
    ELSE IF UnknownFields(parsed, joined) # {}
    THEN IF /\ bare
            /\ parsed.dialect = "postgrest"
            /\ \A f \in UnknownFields(parsed, joined) : f[1] \in joined \cup {<<>>}
         THEN 400 ELSE 500
    ELSE IF PageLimit(parsed, svc) < 0 \/ PageOffset(parsed, svc) < 0 THEN 500 ELSE 200

\* An answer with these root rows and what is selected of them.
Selected(rows, parsed, opts, joined) ==
    [Failure(200) EXCEPT
        !.rows = rows,
        !.related = [id \in ToSet(rows) |->
            LET envs == KeptEnvironments(id, parsed, opts, joined)
            IN [p \in joined |-> {env[p] : env \in envs} \ {Null}]],
        !.columns = RootSelect(parsed),
        !.joins = [p \in joined |-> JoinColumns(JoinOf(parsed, p), JoinOptions(opts, p))]]

\* A bare array of nestjsx: LIMIT when the request or the service has one.
BareRows(s, parsed, svc) ==
    IF parsed.asked.limit \/ OrElse(svc.limit, 0) # 0
    THEN Window(s, 0, PageLimit(parsed, svc)) ELSE s

\* decidePagination's page count.
PageCountDown(total, limit) == total \div limit

PageCount(total, limit) == (total + limit - 1) \div limit

\* { data, count, total, page, pageCount }
Enveloped(answer, total, page, pageCount) ==
    [answer EXCEPT !.envelope = TRUE, !.total = total, !.page = page,
                   !.pageCount = pageCount]

\* getMany, the database having put the kept rows into the order s.
AnswerWith(s, parsed, opts, svc, joined) ==
    LET window == Window(s, PageOffset(parsed, svc), PageLimit(parsed, svc))
        limit == OrElse(parsed.limit, OrElse(svc.limit, DefaultPageSize))
        page == IF parsed.asked.page THEN OrElse(parsed.page, 1)
                ELSE OrElse(parsed.offset, 0) \div limit + 1
    IN IF parsed.dialect = "postgrest" THEN Selected(window, parsed, opts, joined)
       ELSE IF ~Paginated(parsed, opts)
       THEN Selected(BareRows(s, parsed, svc), parsed, opts, joined)
       ELSE Enveloped(Selected(window, parsed, opts, joined), Len(s), page,
                      PageCount(Len(s), limit))

\* Every answer getMany may give to a parsed request.
GetManyAnswers(parsed, opts, svc, joined) ==
    LET failure == QueryFailure(parsed, joined, TRUE, svc)
    IN IF failure # 200 THEN {Failure(failure)}
       ELSE {AnswerWith(s, parsed, opts, svc, joined) :
             s \in Orderings(KeptRows(parsed, opts, joined), parsed.sort)}

\* getOne: any of the rows WHERE keeps; no row is a 404.  Neither the sort nor
\* the window of the request is used.
GetOneAnswers(parsed, opts, svc, joined) ==
    LET plain == [parsed EXCEPT !.sort = <<>>, !.limit = 1, !.offset = 0, !.page = 1]
        failure == QueryFailure(plain, joined, FALSE, svc)
        kept == KeptRows(parsed, opts, joined)
    IN IF failure # 200 THEN {Failure(failure)}
       ELSE IF kept = {} THEN {Failure(404)}
       ELSE {Selected(<<id>>, parsed, opts, joined) : id \in kept}
=============================================================================
