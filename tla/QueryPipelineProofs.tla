------------------------ MODULE QueryPipelineProofs -------------------------
(***************************************************************************)
(* Proof of types, and that the auth filter and the join allowlist hold on *)
(* every answer, for any server configuration, any conditions, groups,     *)
(* sorts and sizes a program may ask for, any requests of other clients,   *)
(* any tables and any number of calls and pages; and that what comes back  *)
(* is what was asked for: for every table, every plain program and every   *)
(* plain setting, the rows of an answer are those the calls mean, pages    *)
(* partition them, and the two dialects agree.                             *)
(***************************************************************************)
EXTENDS QueryPipeline, FiniteSetTheorems, SequenceTheorems, NaturalsInduction, TLAPS

-----------------------------------------------------------------------------
(* The tree: a row WHERE keeps satisfies the auth filter.                  *)

LEMMA CondHoldsBoolean == \A v, c : CondHolds(v, c) \in BOOLEAN
BY DEF CondHolds

LEMMA AttachedBoolean == \A mode, truths : Attached(mode, truths) \in BOOLEAN
<1>. TAKE mode, truths
<1>1. CASE mode = "$or"
  <2>1. Attached(mode, truths) <=> TRUE \in truths
    BY <1>1 DEF Attached
  <2>2. (TRUE \in truths) \in BOOLEAN
    OBVIOUS
  <2>3. Attached(mode, truths) = (TRUE \in truths)
    BY <1>1, Zenon DEF Attached
  <2>. QED  BY <2>2, <2>3, Zenon
<1>2. CASE mode # "$or"
  BY <1>2, Zenon DEF Attached
<1>. QED  BY <1>1, <1>2

\* What the proof needs of an auth filter: it is a node of conditions.
IsFilter(node) == node # <<>> /\ \A i \in DOMAIN node : node[i].key = "field"

FilterHolds(r, node) == \A i \in DOMAIN node : CondHolds(r[node[i].cond.field], node[i].cond)

LEMMA FilterNode3 ==
    ASSUME NEW r, NEW node, IsFilter(node), Node3(r, node, "$and")
    PROVE  FilterHolds(r, node)
<1>1. FALSE \notin {Entry3(r, node[i]) : i \in DOMAIN node}
  BY DEF Node3, Attached
<1>2. \A i \in DOMAIN node : Entry3(r, node[i]) = CondHolds(r[node[i].cond.field], node[i].cond)
  BY DEF Entry3, IsFilter
<1>3. \A i \in DOMAIN node : CondHolds(r[node[i].cond.field], node[i].cond) # FALSE
  BY <1>1, <1>2
<1>. QED  BY <1>3, CondHoldsBoolean DEF FilterHolds

LEMMA FilterNode4 ==
    ASSUME NEW r, NEW node, IsFilter(node), Node4(r, node, "$and")
    PROVE  FilterHolds(r, node)
<1>1. FALSE \notin {Entry4(r, node[i]) : i \in DOMAIN node}
  BY DEF Node4, Attached
<1>2. \A i \in DOMAIN node : Entry4(r, node[i]) = CondHolds(r[node[i].cond.field], node[i].cond)
  BY DEF Entry4, IsFilter
<1>3. \A i \in DOMAIN node : CondHolds(r[node[i].cond.field], node[i].cond) # FALSE
  BY <1>1, <1>2
<1>. QED  BY <1>3, CondHoldsBoolean DEF FilterHolds

\* A group of which the filter is the first member.
LEMMA FilterInGroup ==
    ASSUME NEW r, NEW nodes, 1 \in DOMAIN nodes, IsFilter(nodes[1]),
           SearchHolds(r, GroupNode("$and", nodes))
    PROVE  FilterHolds(r, nodes[1])
<1>. DEFINE e == [key |-> "$and", cond |-> NoCondition, kids |-> nodes]
<1>1. GroupNode("$and", nodes) = <<e>>
  BY DEF GroupNode
<1>2. Node4(r, <<e>>, "$and")
  BY <1>1 DEF SearchHolds
<1>3. FALSE \notin {Entry4(r, <<e>>[i]) : i \in DOMAIN <<e>>}
  BY <1>2 DEF Node4, Attached
<1>4. Entry4(r, e) # FALSE
  <2>. HIDE DEF e
  <2>1. 1 \in DOMAIN <<e>> /\ <<e>>[1] = e
    OBVIOUS
  <2>. QED  BY <1>3, <2>1
<1>5. Entry4(r, e) = Attached("$and", {Node3(r, nodes[i], "$and") : i \in DOMAIN nodes})
  BY DEF Entry4
<1>6. FALSE \notin {Node3(r, nodes[i], "$and") : i \in DOMAIN nodes}
  BY <1>4, <1>5, AttachedBoolean DEF Attached
<1>7. Node3(r, nodes[1], "$and") # FALSE
  BY <1>6
<1>8. Node3(r, nodes[1], "$and")
  BY <1>7, AttachedBoolean DEF Node3
<1>. QED  BY <1>8, FilterNode3

\* However the conditions of a request are put around it.
LEMMA WithAuthHolds ==
    ASSUME NEW S, NEW and \in Seq(S), NEW auth, auth.or = <<>>, IsFilter(auth.filter)
    PROVE  /\ WithAuth(and, auth) # <<>>
           /\ \A r : SearchHolds(r, WithAuth(and, auth)) => FilterHolds(r, auth.filter)
<1>. DEFINE all == <<auth.filter>> \o and
<1>1. /\ all \in Seq({auth.filter} \cup S)
      /\ Len(all) = 1 + Len(and)
      /\ all[1] = auth.filter
  OBVIOUS
<1>2. WithAuth(and, auth) = Grouped("$and", all)
  BY <1>1 DEF WithAuth, IsFilter
<1>3. 1 \in DOMAIN all
  BY <1>1
<1>. HIDE DEF all
<1>4. CASE Len(all) = 1
  <2>1. WithAuth(and, auth) = auth.filter
    BY <1>1, <1>2, <1>4 DEF Grouped
  <2>. QED  BY <2>1, FilterNode4 DEF SearchHolds, IsFilter
<1>5. CASE Len(all) # 1
  <2>1. WithAuth(and, auth) = GroupNode("$and", all)
    BY <1>2, <1>5 DEF Grouped
  <2>2. WithAuth(and, auth) # <<>>
    BY <2>1 DEF GroupNode
  <2>. QED  BY <1>1, <1>3, <2>1, <2>2, FilterInGroup
<1>. QED  BY <1>4, <1>5

-----------------------------------------------------------------------------
(* The parsers: both put the auth filter around a sequence of nodes, and   *)
(* make numbers of limit, offset and page.                                 *)

IsSeq(s) == \E S : s \in Seq(S)

Numbers(limit, offset, page) ==
    limit \in Nat \cup {Null} /\ offset \in Int \cup {Null} /\ page \in Int \cup {Null}

IsQuery(q) == Numbers(q.limit, q.offset, q.page) /\ IsSeq(q.cols)

LEMMA SeqOfDomain ==
    ASSUME NEW n \in Nat, NEW S, NEW s \in [1..n -> S]
    PROVE  IsSeq(s)
BY SeqDef DEF IsSeq

LEMMA EmptyIsSeq == IsSeq(<<>>)
BY EmptySeq DEF IsSeq

LEMMA SingleIsSeq == \A x : IsSeq(<<x>>)
<1>. TAKE x
<1>1. <<x>> \in Seq({x})
  OBVIOUS
<1>. QED  BY <1>1 DEF IsSeq

LEMMA ConcatIsSeq ==
    ASSUME NEW s, NEW t, IsSeq(s), IsSeq(t)
    PROVE  IsSeq(s \o t)
<1>1. PICK S, T : s \in Seq(S) /\ t \in Seq(T)
  BY DEF IsSeq
<1>2. s \in Seq(S \cup T) /\ t \in Seq(S \cup T)
  BY <1>1
<1>3. s \o t \in Seq(S \cup T)
  BY <1>2
<1>. QED  BY <1>3 DEF IsSeq

LEMMA FieldNodesSeq ==
    ASSUME NEW n \in Nat, NEW conds, DOMAIN conds = 1..n
    PROVE  IsSeq(FieldNodes(conds))
<1>. DEFINE S == {FieldNode(conds[i]) : i \in 1..n}
<1>1. FieldNodes(conds) \in [1..n -> S]
  BY DEF FieldNodes
<1>. HIDE DEF S
<1>. QED  BY <1>1, SeqOfDomain

LEMMA QuerySearchSeq == \A q : IsSeq(QuerySearch(q))
<1>. TAKE q
<1>1. QuerySearch(q) = <<>> \/ \E x : QuerySearch(q) = <<x>>
  BY DEF QuerySearch
<1>. QED  BY <1>1, EmptyIsSeq, SingleIsSeq

LEMMA ParseLogicalSeq == \A branches, key : IsSeq(ParseLogical(branches, key))
<1>. TAKE branches, key
<1>1. ParseLogical(branches, key) = <<>> \/ \E x : ParseLogical(branches, key) = <<x>>
  BY DEF ParseLogical
<1>. QED  BY <1>1, EmptyIsSeq, SingleIsSeq

LEMMA RootFiltersDomain ==
    ASSUME NEW n \in Nat, NEW conds, DOMAIN conds = 1..n, NEW joins
    PROVE  \E k \in Nat : DOMAIN RootFilters(conds, joins) = 1..k
<1>. DEFINE rest == {i \in DOMAIN conds : ~ShapesEmbed(conds[i], joins)}
<1>1. IsFiniteSet(1..n)
  BY FS_Interval
<1>2. IsFiniteSet(rest)
  <2>1. rest \subseteq 1..n
    OBVIOUS
  <2>. QED  BY <1>1, <2>1, FS_Subset
<1>3. Cardinality(rest) \in Nat
  BY <1>2, FS_CardinalityType
<1>4. DOMAIN RootFilters(conds, joins) = 1..Cardinality(rest)
  BY DEF RootFilters, AtPositions, InOrder
<1>. QED  BY <1>3, <1>4

\* The route of a request has at most one parameter.
RouteParams(route) == route = <<>> \/ \E x : route = <<x>>

\* What the service may rely on.
IsParsed(parsed, auth) ==
    /\ parsed.limit \in Int /\ parsed.offset \in Int /\ parsed.page \in Int
    /\ auth.or = <<>> /\ IsFilter(auth.filter) =>
        /\ parsed.search # <<>>
        /\ \A r : SearchHolds(r, parsed.search) => FilterHolds(r, auth.filter)

LEMMA AroundAuth ==
    ASSUME NEW and, IsSeq(and), NEW auth, auth.or = <<>>, IsFilter(auth.filter)
    PROVE  /\ WithAuth(and, AuthContext(auth)) # <<>>
           /\ \A r : SearchHolds(r, WithAuth(and, AuthContext(auth))) =>
                        FilterHolds(r, auth.filter)
<1>1. AuthContext(auth) = auth
  BY DEF AuthContext
<1>. QED  BY <1>1, WithAuthHolds DEF IsSeq

LEMMA OrElseType ==
    /\ \A x \in Int \cup {Null}, y \in Int : OrElse(x, y) \in Int
    /\ \A x \in Nat \cup {Null}, y \in Nat : OrElse(x, y) \in Nat
BY DEF OrElse

LEMMA NestjsxParsed ==
    ASSUME NEW q, IsQuery(q), NEW route, RouteParams(route), NEW auth, NEW st \in Setting
    PROVE  IsParsed(ParseNestjsx(q, route, AuthContext(auth), st.opts), auth)
<1>. DEFINE parsed == ParseNestjsx(q, route, AuthContext(auth), st.opts)
            and == FieldNodes(ParseParams(route)) \o st.opts.filter \o QuerySearch(q)
            page == q.page
<1>1. /\ st.opts.limit \in Nat \cup {Null} /\ st.opts.maxLimit \in Nat \cup {Null}
      /\ IsSeq(st.opts.filter)
  BY SettingAssumption DEF IsSeq
<1>2. /\ OrElse(st.opts.maxLimit, DefaultMaxLimit) \in Nat
      /\ OrElse(st.opts.limit, DefaultPageSize) \in Nat
  BY <1>1, OrElseType DEF DefaultMaxLimit, DefaultPageSize
<1>3. ParseLimit(q, st.opts) \in Nat \cup {Null}
  BY <1>2 DEF ParseLimit, IsQuery, Numbers, Least
<1>. DEFINE size == OrElse(ParseLimit(q, st.opts), OrElse(st.opts.limit, DefaultPageSize))
<1>4. size \in Nat
  BY <1>2, <1>3, OrElseType
<1>5. ParseOffset(q, st.opts) =
        IF q.page # Null /\ q.offset \in {Null, 0} THEN (q.page - 1) * size ELSE q.offset
  BY DEF ParseOffset
<1>. HIDE DEF size
<1>6. ParseOffset(q, st.opts) \in Int \cup {Null}
  BY <1>4, <1>5 DEF IsQuery, Numbers
<1>7. parsed.limit = size /\ parsed.offset = OrElse(ParseOffset(q, st.opts), 0)
      /\ parsed.page = OrElse(q.page, 1)
      /\ parsed.search = WithAuth(and, AuthContext(auth))
  BY DEF ParseNestjsx, BuildSearchTree, size
<1>8. parsed.limit \in Int /\ parsed.offset \in Int /\ parsed.page \in Int
  <2>. HIDE DEF parsed
  <2>1. OrElse(ParseOffset(q, st.opts), 0) \in Int /\ OrElse(q.page, 1) \in Int
    BY <1>6 DEF OrElse, IsQuery, Numbers
  <2>. QED  BY <1>4, <1>7, <2>1
<1>9. IsSeq(and)
  <2>1. IsSeq(FieldNodes(ParseParams(route)))
    <3>1. DOMAIN ParseParams(route) = 1..0 \/ DOMAIN ParseParams(route) = 1..1
      BY DEF RouteParams, ParseParams
    <3>. QED  BY <3>1, FieldNodesSeq
  <2>2. IsSeq(FieldNodes(ParseParams(route)) \o st.opts.filter)
    BY <1>1, <2>1, ConcatIsSeq
  <2>. QED  BY <2>2, QuerySearchSeq, ConcatIsSeq
<1>. HIDE DEF parsed, and
<1>. QED  BY <1>7, <1>8, <1>9, AroundAuth DEF IsParsed, parsed

LEMMA PostgrestParsed ==
    ASSUME NEW q, IsQuery(q), NEW route, NEW auth, NEW st \in Setting
    PROVE  IsParsed(ParsePostgrest(q, route, AuthContext(auth), st.opts), auth)
<1>. DEFINE parsed == ParsePostgrest(q, route, AuthContext(auth), st.opts)
            conds == ParseColumnFilters(q.cols)
            joins == ParseEmbeds(q.select)
            and == FieldNodes(RootFilters(conds, joins))
                        \o ParseLogical(q.orGroup, "$or") \o ParseLogical(q.andGroup, "$and")
            limit == IF q.limit = Null THEN Null
                     ELSE Least(q.limit, IF st.opts.maxLimit = Null THEN DefaultMaxLimit
                                         ELSE st.opts.maxLimit)
<1>1. st.opts.limit \in Nat \cup {Null} /\ st.opts.maxLimit \in Nat \cup {Null}
  BY SettingAssumption
<1>2. limit \in Nat \cup {Null}
  BY <1>1 DEF IsQuery, Numbers, Least, DefaultMaxLimit
<1>3. /\ parsed.limit = (IF limit # Null THEN limit
                         ELSE IF st.opts.limit # Null THEN st.opts.limit
                         ELSE DefaultPageSize)
      /\ parsed.offset = (IF q.offset = Null THEN 0 ELSE q.offset)
      /\ parsed.page = (IF q.offset # Null /\ OrElse(limit, 0) # 0
                        THEN q.offset \div limit + 1 ELSE 1)
      /\ parsed.search = WithAuth(and, AuthContext(auth))
  BY DEF ParsePostgrest
<1>4. parsed.limit \in Int /\ parsed.offset \in Int
  <2>. HIDE DEF limit, parsed
  <2>. QED  BY <1>1, <1>2, <1>3 DEF IsQuery, Numbers, DefaultPageSize
<1>5. parsed.page \in Int
  <2>1. CASE q.offset # Null /\ OrElse(limit, 0) # 0
    <3>1. limit \in Nat /\ limit > 0 /\ q.offset \in Int
      <4>. HIDE DEF limit
      <4>. QED  BY <1>2, <2>1 DEF OrElse, IsQuery, Numbers
    <3>. HIDE DEF limit, parsed
    <3>2. q.offset \div limit \in Int
      BY <3>1
    <3>. QED  BY <1>3, <2>1, <3>2
  <2>2. CASE ~(q.offset # Null /\ OrElse(limit, 0) # 0)
    <3>. HIDE DEF limit, parsed
    <3>. QED  BY <1>3, <2>2
  <2>. QED  BY <2>1, <2>2
<1>6. IsSeq(and)
  <2>1. PICK S : q.cols \in Seq(S)
    BY DEF IsQuery, IsSeq
  <2>2. Len(q.cols) \in Nat /\ DOMAIN conds = 1..Len(q.cols)
    BY <2>1 DEF ParseColumnFilters
  <2>3. PICK k \in Nat : DOMAIN RootFilters(conds, joins) = 1..k
    <3>. HIDE DEF conds, joins
    <3>. QED  BY <2>2, RootFiltersDomain
  <2>. HIDE DEF conds, joins
  <2>4. IsSeq(FieldNodes(RootFilters(conds, joins)))
    BY <2>3, FieldNodesSeq
  <2>5. IsSeq(FieldNodes(RootFilters(conds, joins)) \o ParseLogical(q.orGroup, "$or"))
    BY <2>4, ParseLogicalSeq, ConcatIsSeq
  <2>. QED  BY <2>5, ParseLogicalSeq, ConcatIsSeq
<1>. HIDE DEF parsed, and
<1>. QED  BY <1>3, <1>4, <1>5, <1>6, AroundAuth DEF IsParsed, parsed

-----------------------------------------------------------------------------
(* The service: it answers with rows WHERE keeps.                          *)

AuthPasses(id) ==
    \A i \in DOMAIN setting.auth.filter :
        CondHolds(Rows[id][setting.auth.filter[i].cond.field[2]], setting.auth.filter[i].cond)

Allowed(id) == id \in DOMAIN Rows /\ (setting.auth.or = <<>> => AuthPasses(id))

AllowedRows == {id \in DOMAIN Rows : Allowed(id)}

\* Relations that are joined: allowed ones, each below joined ones.
AllowedJoins(joined) ==
    \A p \in joined : \A n \in 1..Len(p) :
        SubSeq(p, 1, n) \in DOMAIN setting.opts.join /\ SubSeq(p, 1, n) \in joined

Refusals == {400, 404, 406, 500}

Statuses == Refusals \cup {200}

\* What an answer may be.
IsAnswer(a) ==
    /\ {"status", "rows", "joins"} \subseteq DOMAIN a
    /\ a.status \in Statuses
    /\ a.status = 200 => AllowedJoins(DOMAIN a.joins)
    /\ a.rows \in Seq(DOMAIN Rows)
    /\ a.status = 200 => a.rows \in Seq(AllowedRows)

LEMMA KeptAllowed ==
    ASSUME setting \in Setting, NEW parsed, IsParsed(parsed, setting.auth),
           NEW joined, NEW id \in KeptRows(parsed, setting.opts, joined)
    PROVE  id \in AllowedRows
<1>. DEFINE filter == setting.auth.filter
<1>1. id \in DOMAIN Rows
  BY DEF KeptRows
<1>2. PICK env : WhereHolds(parsed, RowValues(id, env, joined))
  BY DEF KeptRows, KeptEnvironments
<1>3. ASSUME setting.auth.or = <<>>, filter # <<>>, NEW i \in DOMAIN filter
      PROVE  CondHolds(Rows[id][filter[i].cond.field[2]], filter[i].cond)
  <2>1. IsFilter(filter)
    BY <1>3, SettingAssumption DEF IsFilter
  <2>2. FilterHolds(RowValues(id, env, joined), filter)
    BY <1>2, <1>3, <2>1 DEF WhereHolds, IsParsed
  <2>3. PICK c \in RootColumn : filter[i].cond.field = <<<<>>, c>>
    BY <1>3, SettingAssumption
  <2>4. <<<<>>, c>> \in KnownFields(joined)
    BY <2>3 DEF KnownFields
  <2>5. RowValues(id, env, joined)[<<<<>>, c>>] = Rows[id][c]
    BY <2>4 DEF RowValues
  <2>. QED  BY <1>3, <2>2, <2>3, <2>5 DEF FilterHolds
<1>4. setting.auth.or = <<>> => AuthPasses(id)
  BY <1>3 DEF AuthPasses
<1>. QED  BY <1>1, <1>4 DEF Allowed, AllowedRows

LEMMA OrderingType ==
    ASSUME NEW ids \in SUBSET DOMAIN Rows, NEW sort, NEW s \in Orderings(ids, sort)
    PROVE  s \in Seq(ids)
<1>1. s \in [1..Cardinality(ids) -> ids]
  BY DEF Orderings, SetToSeqs
<1>2. Cardinality(ids) \in Nat
  BY CrudServiceAssumption, FS_Subset, FS_CardinalityType
<1>. QED  BY <1>1, <1>2, SeqDef

\* A window of a sequence has its elements.
LEMMA WindowType ==
    ASSUME NEW S, NEW s \in Seq(S), NEW offset \in Int, offset >= 0, NEW limit \in Int
    PROVE  Window(s, offset, limit) \in Seq(S)
<1>. DEFINE m == offset + 1
            n == Least(offset + limit, Len(s))
<1>1. m \in Int /\ m >= 1 /\ n \in Int /\ n <= Len(s)
  BY DEF Least
<1>2. Window(s, offset, limit) = SubSeq(s, m, n)
  BY DEF Window
<1>. HIDE DEF m, n
<1>3. \A i \in m..n : s[i] \in S
  BY <1>1
<1>. QED  BY <1>1, <1>2, <1>3, SubSeqProperties

\* The beginning of a beginning of a path is a beginning of the path.
LEMMA PathPrefix ==
    ASSUME NEW S, NEW p \in Seq(S), NEW n \in 1..Len(p), NEW m \in 1..n
    PROVE  SubSeq(SubSeq(p, 1, n), 1, m) = SubSeq(p, 1, m)
<1>. DEFINE s == SubSeq(p, 1, n)
            t == SubSeq(s, 1, m)
            u == SubSeq(p, 1, m)
<1>1. s \in Seq(S) /\ Len(s) = n /\ \A i \in 1..n : s[i] = p[i]
  OBVIOUS
<1>2. u \in Seq(S) /\ Len(u) = m /\ \A i \in 1..m : u[i] = p[i]
  OBVIOUS
<1>. HIDE DEF s
<1>3. t \in Seq(S) /\ Len(t) = m /\ \A i \in 1..m : t[i] = s[i]
  BY <1>1
<1>. HIDE DEF t, u
<1>4. \A i \in 1..m : t[i] = u[i]
  BY <1>1, <1>2, <1>3
<1>5. t = u
  BY <1>2, <1>3, <1>4, SeqEqual
<1>. QED  BY <1>5 DEF s, t, u

LEMMA JoinedAllowed ==
    ASSUME setting \in Setting, NEW parsed
    PROVE  AllowedJoins(JoinedPaths(parsed, setting.opts))
<1>. DEFINE wanted == WantedJoins(parsed, setting.opts) \cap DOMAIN setting.opts.join
            joined == JoinedPaths(parsed, setting.opts)
<1>1. joined = {p \in wanted : \A n \in 1..Len(p) : SubSeq(p, 1, n) \in wanted}
  BY DEF JoinedPaths
<1>2. wanted \subseteq DOMAIN setting.opts.join
  OBVIOUS
<1>. HIDE DEF wanted, joined
<1>3. ASSUME NEW p \in joined, NEW n \in 1..Len(p)
      PROVE  SubSeq(p, 1, n) \in wanted /\ SubSeq(p, 1, n) \in joined
  <2>1. SubSeq(p, 1, n) \in wanted
    BY <1>1, <1>3
  <2>2. p \in Seq(ToSet(p))
    BY <1>1, <1>2, <1>3, SettingAssumption
  <2>. DEFINE s == SubSeq(p, 1, n)
  <2>3. Len(s) = n
    BY <1>3, <2>2
  <2>4. \A m \in 1..n : SubSeq(s, 1, m) = SubSeq(p, 1, m)
    BY <1>3, <2>2, PathPrefix
  <2>5. \A m \in 1..n : m \in 1..Len(p)
    BY <1>3, <2>2
  <2>. HIDE DEF s
  <2>6. \A m \in 1..Len(s) : SubSeq(s, 1, m) \in wanted
    BY <1>1, <1>3, <2>3, <2>4, <2>5
  <2>. QED  BY <1>1, <2>1, <2>6 DEF s
<1>. QED  BY <1>2, <1>3 DEF AllowedJoins, joined

LEMMA FailureIsAnswer == \A status \in Refusals : IsAnswer(Failure(status))
BY DEF IsAnswer, Failure, Refusals, Statuses

LEMMA QueryFailureType ==
    ASSUME NEW parsed, NEW joined, NEW svc
    PROVE  /\ QueryFailure(parsed, joined, TRUE, svc) \in Statuses
           /\ QueryFailure(parsed, joined, FALSE, svc) \in Statuses
<1>. DEFINE unbuildable == \E c \in WhereConditions(parsed) \cup OnConditions(parsed, joined) :
                                 ~Buildable(c)
            unknown == UnknownFields(parsed, joined) # {}
            known == /\ parsed.dialect = "postgrest"
                     /\ \A f \in UnknownFields(parsed, joined) : f[1] \in joined \cup {<<>>}
            bare == QueryFailure(parsed, joined, TRUE, svc)
            paged == QueryFailure(parsed, joined, FALSE, svc)
            negative == PageLimit(parsed, svc) < 0 \/ PageOffset(parsed, svc) < 0
<1>. SUFFICES bare \in Statuses /\ paged \in Statuses
  OBVIOUS
<1>1. bare =
        IF unbuildable THEN 400
        ELSE IF unknown THEN IF known THEN 400 ELSE 500
        ELSE IF negative THEN 500 ELSE 200
  BY DEF QueryFailure
<1>2. paged =
        IF unbuildable THEN 400 ELSE IF unknown THEN 500 ELSE IF negative THEN 500 ELSE 200
  BY DEF QueryFailure
<1>. HIDE DEF unbuildable, unknown, known, negative, bare, paged
<1>3. bare \in {200, 400, 500} /\ paged \in {200, 400, 500}
  BY <1>1, <1>2
<1>. QED  BY <1>3 DEF Statuses, Refusals

LEMMA SelectedIsAnswer ==
    ASSUME NEW rows \in Seq(AllowedRows), NEW parsed, NEW joined, AllowedJoins(joined)
    PROVE  IsAnswer(Selected(rows, parsed, setting.opts, joined))
<1>. DEFINE a == Selected(rows, parsed, setting.opts, joined)
<1>1. rows \in Seq(DOMAIN Rows)
  BY DEF AllowedRows
<1>2. {"status", "rows", "joins"} \subseteq DOMAIN a /\ a.rows = rows
      /\ a.status \in Statuses
  BY DEF Selected, Failure, Statuses
<1>3. DOMAIN a.joins = joined
  BY DEF Selected, Failure
<1>. HIDE DEF a
<1>4. IsAnswer(a)
  BY <1>1, <1>2, <1>3 DEF IsAnswer
<1>. QED  BY <1>4 DEF a

LEMMA EnvelopedIsAnswer ==
    ASSUME NEW a, IsAnswer(a), NEW total, NEW page, NEW count
    PROVE  IsAnswer(Enveloped(a, total, page, count))
BY DEF IsAnswer, Enveloped

\* The limit and offset of SQL.
LEMMA PageNumbers ==
    ASSUME setting \in Setting, NEW parsed, IsParsed(parsed, setting.auth)
    PROVE  PageLimit(parsed, setting.svc) \in Int /\ PageOffset(parsed, setting.svc) \in Int
<1>1. setting.svc.limit \in Nat \cup {Null} /\ setting.svc.maxLimit \in Nat \cup {Null}
  BY SettingAssumption
<1>2. OrElse(setting.svc.limit, DefaultPageSize) \in Int
      /\ OrElse(setting.svc.maxLimit, DefaultMaxLimit) \in Int
  BY <1>1 DEF OrElse, DefaultPageSize, DefaultMaxLimit
<1>3. PageLimit(parsed, setting.svc) \in Int
  BY <1>2 DEF OrElse, PageLimit, Least, IsParsed
<1>4. (OrElse(parsed.page, 1) - 1) * PageLimit(parsed, setting.svc) \in Int
  BY <1>3 DEF OrElse, IsParsed
<1>. QED  BY <1>3, <1>4 DEF OrElse, PageOffset, IsParsed

LEMMA NoFailure ==
    ASSUME setting \in Setting, NEW parsed, IsParsed(parsed, setting.auth), NEW joined,
           QueryFailure(parsed, joined, TRUE, setting.svc) = 200
    PROVE  ~(PageOffset(parsed, setting.svc) < 0)
BY DEF QueryFailure

LEMMA GetManyAllowed ==
    ASSUME setting \in Setting, NEW parsed, IsParsed(parsed, setting.auth), NEW joined, AllowedJoins(joined),
           NEW a \in GetManyAnswers(parsed, setting.opts, setting.svc, joined)
    PROVE  IsAnswer(a)
<1>. DEFINE failure == QueryFailure(parsed, joined, TRUE, setting.svc)
            kept == KeptRows(parsed, setting.opts, joined)
<1>1. CASE failure # 200
  <2>1. failure \in Statuses
    BY QueryFailureType
  <2>2. failure \in Refusals
    <3>. HIDE DEF failure
    <3>. QED  BY <1>1, <2>1 DEF Statuses
  <2>. QED  BY <1>1, <2>2, FailureIsAnswer DEF GetManyAnswers
<1>2. CASE failure = 200
  <2>1. PICK s \in Orderings(kept, parsed.sort) :
            a = AnswerWith(s, parsed, setting.opts, setting.svc, joined)
    BY <1>2 DEF GetManyAnswers
  <2>2. s \in Seq(AllowedRows)
    <3>1. kept \subseteq AllowedRows /\ kept \subseteq DOMAIN Rows
      BY KeptAllowed DEF AllowedRows
    <3>2. s \in Seq(kept)
      BY <2>1, <3>1, OrderingType
    <3>. HIDE DEF kept
    <3>. QED  BY <3>1, <3>2
  <2>. DEFINE limit == PageLimit(parsed, setting.svc)
              window == Window(s, PageOffset(parsed, setting.svc), limit)
              bare == BareRows(s, parsed, setting.svc)
  <2>3. limit \in Int /\ PageOffset(parsed, setting.svc) \in Int
        /\ PageOffset(parsed, setting.svc) >= 0
    <3>1. PageLimit(parsed, setting.svc) \in Int /\ PageOffset(parsed, setting.svc) \in Int
      BY PageNumbers
    <3>2. QueryFailure(parsed, joined, TRUE, setting.svc) = 200
      BY <1>2
    <3>3. ~(PageOffset(parsed, setting.svc) < 0)
      BY <3>2, NoFailure
    <3>. QED  BY <3>1, <3>3
  <2>4. window \in Seq(AllowedRows)
    BY <2>2, <2>3, WindowType
  <2>5. bare \in Seq(AllowedRows)
    <3>1. Window(s, 0, limit) \in Seq(AllowedRows)
      BY <2>2, <2>3, WindowType
    <3>. QED  BY <2>2, <3>1 DEF BareRows
  <2>6. \/ a = Selected(window, parsed, setting.opts, joined)
        \/ a = Selected(bare, parsed, setting.opts, joined)
        \/ \E total, page, count :
                a = Enveloped(Selected(window, parsed, setting.opts, joined), total, page, count)
    BY <2>1, Zenon DEF AnswerWith
  <2>. HIDE DEF window, bare
  <2>. QED  BY <2>4, <2>5, <2>6, SelectedIsAnswer, EnvelopedIsAnswer
<1>. QED  BY <1>1, <1>2

LEMMA GetOneAllowed ==
    ASSUME setting \in Setting, NEW parsed, IsParsed(parsed, setting.auth), NEW joined, AllowedJoins(joined),
           NEW a \in GetOneAnswers(parsed, setting.opts, setting.svc, joined)
    PROVE  IsAnswer(a)
<1>. DEFINE kept == KeptRows(parsed, setting.opts, joined)
            plain == [parsed EXCEPT !.sort = <<>>, !.limit = 1, !.offset = 0, !.page = 1]
            failure == QueryFailure(plain, joined, FALSE, setting.svc)
<1>0. a \in IF failure # 200 THEN {Failure(failure)}
           ELSE IF kept = {} THEN {Failure(404)}
           ELSE {Selected(<<id>>, parsed, setting.opts, joined) : id \in kept}
  BY Zenon DEF GetOneAnswers
<1>1. \/ \E status \in Refusals : a = Failure(status)
      \/ \E id \in kept : a = Selected(<<id>>, parsed, setting.opts, joined)
  <2>1. failure \in Statuses
    BY QueryFailureType
  <2>. HIDE DEF kept, plain, failure
  <2>. QED  BY <1>0, <2>1 DEF Statuses, Refusals
<1>2. \A id \in kept : <<id>> \in Seq(AllowedRows)
  BY KeptAllowed
<1>. HIDE DEF kept
<1>. QED  BY <1>1, <1>2, FailureIsAnswer, SelectedIsAnswer

\* However a request is served.
LEMMA ServedAllowed ==
    ASSUME setting \in Setting, NEW q, IsQuery(q), NEW dialect, NEW id,
           NEW a \in Served(q, dialect, id)
    PROVE  IsAnswer(a)
<1>. DEFINE route == IF id = Null THEN <<>>
                     ELSE <<[field |-> <<<<>>, PrimaryKey>>, value |-> id]>>
            parsed == Intercepted(q, dialect, route, setting.auth, setting.opts)
<1>1. CASE BadRequest(q, dialect)
  BY <1>1, FailureIsAnswer DEF Served, Refusals
<1>2. CASE ~BadRequest(q, dialect)
  <2>1. a \in ServedParsed(id # Null, parsed)
    BY <1>2 DEF Served
  <2>2. RouteParams(route)
    BY DEF RouteParams
  <2>. HIDE DEF route
  <2>3. IsParsed(parsed, setting.auth)
    BY <2>2, NestjsxParsed, PostgrestParsed DEF Intercepted
  <2>. HIDE DEF parsed
  <2>. DEFINE joined == JoinedPaths(parsed, setting.opts)
  <2>4. AllowedJoins(joined)
    BY JoinedAllowed
  <2>5. a \in ServedJoined(id # Null, parsed, joined)
    BY <2>1 DEF ServedParsed
  <2>. HIDE DEF joined
  <2>. QED  BY <2>3, <2>4, <2>5, GetManyAllowed, GetOneAllowed DEF ServedJoined
<1>. QED  BY <1>1, <1>2

-----------------------------------------------------------------------------
(* The state: what the two builders hold is a query, and every answer is   *)
(* one that may be given.                                                  *)

AskedInv ==
    /\ {"paging", "size"} \subseteq DOMAIN asked
    /\ asked.paging \in {"none", "page", "offset"}
    /\ asked.paging # "none" => asked.size \in Nat

ParamsInv ==
    /\ {"limit", "offset", "page", "filter", "or"} \subseteq DOMAIN params
    /\ Numbers(params.limit, params.offset, params.page)

\* A program that turns pages has said where the first one is.
PagingInv ==
    /\ asked.paging = "page" => params.page \in Int
    /\ asked.paging = "offset" => params.offset \in Int

SearchInv ==
    /\ {"limit", "offset", "page", "cols", "orGroup", "order"} \subseteq DOMAIN search
    /\ IsQuery(search)

AnswersInv ==
    /\ DOMAIN answers = Lane
    /\ \A lane \in Lane :
          answers[lane] = <<>> \/ \E a : IsAnswer(a) /\ answers[lane] = <<a>>

BuildersInv == AskedInv /\ ParamsInv /\ PagingInv /\ SearchInv

Inv == setting \in Setting /\ turns \in Nat /\ BuildersInv /\ AnswersInv

LEMMA NullParams == Numbers(Null, Null, Null)
BY DEF Numbers

LEMMA FreshBuilders ==
    ASSUME asked' = NothingAsked, params' = NoParams, search' = NoQuery
    PROVE  BuildersInv'
<1>1. AskedInv' /\ PagingInv'
  BY DEF AskedInv, PagingInv, NothingAsked
<1>2. ParamsInv'
  BY NullParams DEF ParamsInv, NoParams
<1>3. SearchInv'
  BY NullParams, EmptyIsSeq DEF SearchInv, IsQuery, NoQuery
<1>. QED  BY <1>1, <1>2, <1>3 DEF BuildersInv

LEMMA InitInv == Init => Inv
<1>. SUFFICES ASSUME Init PROVE Inv
  OBVIOUS
<1>1. AskedInv /\ PagingInv
  BY DEF Init, AskedInv, PagingInv, NothingAsked
<1>2. ParamsInv
  BY NullParams DEF Init, ParamsInv, NoParams
<1>3. SearchInv
  BY NullParams, EmptyIsSeq DEF Init, SearchInv, IsQuery, NoQuery
<1>4. AnswersInv
  BY DEF Init, AnswersInv, NoAnswers
<1>. QED  BY <1>1, <1>2, <1>3, <1>4 DEF Init, Inv, BuildersInv

\* An answer that may be given may still be given after a step.
LEMMA AnswerStays ==
    ASSUME setting' = setting, NEW a, IsAnswer(a)
    PROVE  IsAnswer(a)'
BY DEF IsAnswer, Statuses, Refusals, AllowedJoins, AllowedRows, Allowed, AuthPasses

LEMMA AnswersStay ==
    ASSUME AnswersInv, setting' = setting, answers' = answers
    PROVE  AnswersInv'
BY AnswerStays DEF AnswersInv

LEMMA AnswersCleared ==
    ASSUME answers' = NoAnswers
    PROVE  AnswersInv'
BY DEF AnswersInv, NoAnswers

LEMMA AnswerAdded ==
    ASSUME AnswersInv, setting' = setting, NEW lane \in Lane, NEW a, IsAnswer(a),
           answers' = [answers EXCEPT ![lane] = <<a>>]
    PROVE  AnswersInv'
<1>1. DOMAIN answers' = Lane /\ answers'[lane] = <<a>>
  BY DEF AnswersInv
<1>2. \A other \in Lane : other # lane => answers'[other] = answers[other]
  BY DEF AnswersInv
<1>3. IsAnswer(a)'
  BY AnswerStays
<1>4. ASSUME NEW other \in Lane
      PROVE  answers'[other] = <<>> \/ \E b : IsAnswer(b)' /\ answers'[other] = <<b>>
  <2>1. CASE other = lane
    BY <1>1, <1>3, <2>1, Zenon
  <2>2. CASE other # lane
    <3>1. answers[other] = <<>> \/ \E b : IsAnswer(b) /\ answers[other] = <<b>>
      BY DEF AnswersInv
    <3>. QED  BY <1>2, <2>2, <3>1, AnswerStays
  <2>. QED  BY <2>1, <2>2
<1>. QED  BY <1>1, <1>4, Zenon DEF AnswersInv

LEMMA AppendIsSeq ==
    ASSUME NEW s, IsSeq(s), NEW x
    PROVE  IsSeq(Append(s, x))
<1>1. PICK S : s \in Seq(S)
  BY DEF IsSeq
<1>2. Append(s, x) \in Seq(S \cup {x})
  BY <1>1
<1>. QED  BY <1>2 DEF IsSeq

-----------------------------------------------------------------------------
(* Builder calls keep the builders' part and touch nothing else.           *)

LEMMA WhereStep ==
    ASSUME BuildersInv, NEW c \in AskCondition, AskWhere(c)
    PROVE  BuildersInv'
<1>1. AskedInv' /\ asked'.paging = asked.paging
  BY DEF BuildersInv, AskedInv, AskWhere
<1>2. ParamsInv' /\ params'.page = params.page /\ params'.offset = params.offset
  BY DEF BuildersInv, ParamsInv, AskWhere, Where
<1>3. SearchInv'
  <2>. DEFINE f == ClientFilter(c)
  <2>1. search' = [search EXCEPT !.cols = Append(search.cols, f)]
    BY DEF AskWhere, AddFilter
  <2>2. IsSeq(Append(search.cols, f))
    BY AppendIsSeq DEF BuildersInv, SearchInv, IsQuery
  <2>. HIDE DEF f
  <2>. QED  BY <2>1, <2>2 DEF BuildersInv, SearchInv, IsQuery
<1>. QED  BY <1>1, <1>2, <1>3 DEF BuildersInv, PagingInv

LEMMA OrStep ==
    ASSUME BuildersInv, NEW cs \in AskAny, AskOr(cs)
    PROVE  BuildersInv'
<1>1. AskedInv' /\ asked'.paging = asked.paging
  BY DEF BuildersInv, AskedInv, AskOr
<1>2. ParamsInv' /\ params'.page = params.page /\ params'.offset = params.offset
  BY DEF BuildersInv, ParamsInv, AskOr, OrWhere
<1>3. SearchInv'
  BY DEF BuildersInv, SearchInv, IsQuery, AskOr, SetOrGroup
<1>. QED  BY <1>1, <1>2, <1>3 DEF BuildersInv, PagingInv

LEMMA SelectStep ==
    ASSUME BuildersInv, NEW cs \in AskColumns, AskSelect(cs)
    PROVE  BuildersInv'
<1>1. AskedInv' /\ asked'.paging = asked.paging
  BY DEF BuildersInv, AskedInv, AskSelect
<1>2. ParamsInv' /\ params'.page = params.page /\ params'.offset = params.offset
  BY DEF BuildersInv, ParamsInv, AskSelect
<1>3. SearchInv'
  BY DEF BuildersInv, SearchInv, IsQuery, AskSelect, SetSelect
<1>. QED  BY <1>1, <1>2, <1>3 DEF BuildersInv, PagingInv

LEMMA JoinStep ==
    ASSUME BuildersInv, NEW ps \in AskRelation, AskJoin(ps)
    PROVE  BuildersInv'
<1>1. AskedInv' /\ asked'.paging = asked.paging
  BY DEF BuildersInv, AskedInv, AskJoin
<1>2. ParamsInv' /\ params'.page = params.page /\ params'.offset = params.offset
  BY DEF BuildersInv, ParamsInv, AskJoin
<1>3. SearchInv'
  BY DEF BuildersInv, SearchInv, IsQuery, AskJoin, SetSelect
<1>. QED  BY <1>1, <1>2, <1>3 DEF BuildersInv, PagingInv

LEMMA SortStep ==
    ASSUME BuildersInv, NEW s \in AskOrder, AskSort(s)
    PROVE  BuildersInv'
<1>1. AskedInv' /\ asked'.paging = asked.paging
  BY DEF BuildersInv, AskedInv, AskSort
<1>2. ParamsInv' /\ params'.page = params.page /\ params'.offset = params.offset
  BY DEF BuildersInv, ParamsInv, AskSort
<1>3. SearchInv'
  BY DEF BuildersInv, SearchInv, IsQuery, AskSort, AddOrder
<1>. QED  BY <1>1, <1>2, <1>3 DEF BuildersInv, PagingInv

LEMMA LimitStep ==
    ASSUME BuildersInv, NEW n \in AskSize, AskLimit(n)
    PROVE  BuildersInv'
<1>. n \in Nat
  BY QueryPipelineAssumption
<1>1. AskedInv' /\ asked'.paging = asked.paging
  BY DEF BuildersInv, AskedInv, AskLimit
<1>2. ParamsInv' /\ params'.page = params.page /\ params'.offset = params.offset
  BY DEF BuildersInv, ParamsInv, AskLimit, Numbers
<1>3. SearchInv'
  BY DEF BuildersInv, SearchInv, IsQuery, AskLimit, Numbers
<1>. QED  BY <1>1, <1>2, <1>3 DEF BuildersInv, PagingInv

LEMMA PagesStep ==
    ASSUME BuildersInv, NEW n \in AskSize, NEW style \in {"page", "offset"},
           AskPages(n, style)
    PROVE  BuildersInv'
<1>. n \in Nat
  BY QueryPipelineAssumption
<1>1. AskedInv' /\ asked'.paging = style
  BY DEF BuildersInv, AskedInv, AskPages
<1>2. ASSUME style = "page" PROVE ParamsInv' /\ PagingInv'
  <2>1. params' = [params EXCEPT !.limit = n, !.page = 1]
    BY <1>2 DEF AskPages
  <2>. QED  BY <1>1, <1>2, <2>1 DEF BuildersInv, ParamsInv, PagingInv, Numbers
<1>3. ASSUME style = "offset" PROVE ParamsInv' /\ PagingInv'
  <2>1. params' = [params EXCEPT !.limit = n, !.offset = 0]
    BY <1>3 DEF AskPages
  <2>. QED  BY <1>1, <1>3, <2>1 DEF BuildersInv, ParamsInv, PagingInv, Numbers
<1>4. SearchInv'
  <2>1. search' = [search EXCEPT !.offset = 0, !.limit = (n - 1) - 0 + 1]
    BY DEF AskPages, SetRange
  <2>2. (n - 1) - 0 + 1 = n
    OBVIOUS
  <2>3. search' = [search EXCEPT !.offset = 0, !.limit = n]
    BY <2>1, <2>2
  <2>. QED  BY <2>3 DEF BuildersInv, SearchInv, IsQuery, Numbers
<1>5. ParamsInv' /\ PagingInv'
  BY <1>2, <1>3
<1>. QED  BY <1>1, <1>4, <1>5 DEF BuildersInv

-----------------------------------------------------------------------------
(* Requests.                                                               *)

LEMMA BuiltIsQuery ==
    ASSUME NEW p, Numbers(p.limit, p.offset, p.page)
    PROVE  IsQuery(BuildQueryParams(p))
BY EmptyIsSeq DEF IsQuery, BuildQueryParams, NoQuery

\* single() turns an answer into a refusal or leaves it.
LEMMA SingleIsAnswer ==
    ASSUME NEW mode, NEW a, IsAnswer(a)
    PROVE  IsAnswer(SingleResult(mode, a))
<1>1. CASE SingleResult(mode, a) = a
  BY <1>1
<1>2. CASE SingleResult(mode, a) = [a EXCEPT !.status = 406, !.rows = <<>>]
  BY <1>2, EmptySeq DEF IsAnswer, Refusals, Statuses
<1>. QED  BY <1>1, <1>2 DEF SingleResult

\* findOne takes the first row.
LEMMA FirstIsAnswer ==
    ASSUME NEW a, IsAnswer(a)
    PROVE  IsAnswer([a EXCEPT !.rows = SubSeq(@, 1, Least(1, Len(@)))])
<1>. DEFINE first == SubSeq(a.rows, 1, Least(1, Len(a.rows)))
<1>1. first = Window(a.rows, 0, 1)
  <2>1. 0 + 1 = 1
    OBVIOUS
  <2>2. Window(a.rows, 0, 1) = SubSeq(a.rows, 0 + 1, Least(0 + 1, Len(a.rows)))
    BY Zenon DEF Window
  <2>. QED  BY <2>1, <2>2, Zenon
<1>. HIDE DEF first
<1>2. first \in Seq(DOMAIN Rows)
  <2>1. Window(a.rows, 0, 1) \in Seq(DOMAIN Rows)
    BY WindowType DEF IsAnswer
  <2>. QED  BY <1>1, <2>1
<1>3. a.status = 200 => first \in Seq(AllowedRows)
  <2>1. a.status = 200 => Window(a.rows, 0, 1) \in Seq(AllowedRows)
    BY WindowType DEF IsAnswer
  <2>. QED  BY <1>1, <2>1
<1>4. [a EXCEPT !.rows = SubSeq(@, 1, Least(1, Len(@)))] = [a EXCEPT !.rows = first]
  BY DEF first
<1>5. IsAnswer([a EXCEPT !.rows = first])
  BY <1>2, <1>3 DEF IsAnswer
<1>. QED  BY <1>4, <1>5, Zenon

LEMMA FindManyStep ==
    ASSUME Inv, FindMany
    PROVE  BuildersInv' /\ AnswersInv'
<1>. DEFINE q == BuildQueryParams(params)
<1>1. IsQuery(q)
  BY BuiltIsQuery DEF Inv, BuildersInv, ParamsInv
<1>2. PICK a \in Served(q, DetectDialect(q, ""), Null) : Answered("nestjsx", a)
  BY DEF FindMany
<1>. HIDE DEF q
<1>3. IsAnswer(a)
  BY <1>1, <1>2, ServedAllowed DEF Inv
<1>4. AnswersInv'
  BY <1>2, <1>3, AnswerAdded DEF Inv, Answered, Lane
<1>5. BuildersInv'
  BY <1>2 DEF Inv, FindMany, Answered, BuildersInv, AskedInv, ParamsInv, PagingInv,
              SearchInv
<1>. QED  BY <1>4, <1>5

LEMMA ExecuteStep ==
    ASSUME Inv, NEW mode, Execute(mode)
    PROVE  BuildersInv' /\ AnswersInv'
<1>. DEFINE dialect == DetectDialect(search, IF setting.pinned THEN "postgrest" ELSE "")
<1>1. PICK a \in Served(search, dialect, Null) : Answered("postgrest", SingleResult(mode, a))
  BY DEF Execute
<1>. HIDE DEF dialect
<1>2. IsAnswer(a)
  BY <1>1, ServedAllowed DEF Inv, BuildersInv, SearchInv
<1>. DEFINE b == SingleResult(mode, a)
<1>3. IsAnswer(b)
  BY <1>2, SingleIsAnswer
<1>4. setting' = setting /\ answers' = [answers EXCEPT !["postgrest"] = <<b>>]
  BY <1>1 DEF Answered
<1>. HIDE DEF b
<1>5. AnswersInv'
  BY <1>3, <1>4, AnswerAdded DEF Inv, Lane
<1>6. BuildersInv'
  BY <1>1 DEF Inv, Execute, Answered, BuildersInv, AskedInv, ParamsInv, PagingInv,
              SearchInv
<1>. QED  BY <1>5, <1>6

LEMMA RawStep ==
    ASSUME Inv, NEW raw \in RawRequest, SendRaw(raw)
    PROVE  BuildersInv' /\ AnswersInv'
<1>1. IsQuery(raw.q)
  BY RawRequestAssumption DEF IsQuery, IsSeq, Numbers
<1>2. PICK a \in Served(raw.q, DetectDialect(raw.q, raw.header), raw.id) :
          answers' = [answers EXCEPT !["raw"] = <<a>>]
  BY DEF SendRaw
<1>3. IsAnswer(a)
  BY <1>1, <1>2, ServedAllowed DEF Inv
<1>4. AnswersInv'
  BY <1>2, <1>3, AnswerAdded DEF Inv, SendRaw, Lane
<1>5. BuildersInv'
  BY DEF Inv, SendRaw, BuildersInv, AskedInv, ParamsInv, PagingInv, SearchInv
<1>. QED  BY <1>4, <1>5

LEMMA FindOneStep ==
    ASSUME Inv, FindOne
    PROVE  BuildersInv' /\ AnswersInv'
<1>. DEFINE byId == /\ Len(params.filter) = 1
                    /\ params.filter[1].field = <<<<>>, PrimaryKey>>
                    /\ params.filter[1].op = "$eq"
            sent == IF byId THEN [params EXCEPT !.filter = <<>>]
                    ELSE [params EXCEPT !.limit = 1]
            q == BuildQueryParams(sent)
            id == IF byId THEN params.filter[1].args[1] ELSE Null
<1>1. Numbers(sent.limit, sent.offset, sent.page)
      /\ DOMAIN sent = DOMAIN params /\ sent.page = params.page /\ sent.offset = params.offset
  BY DEF Inv, BuildersInv, ParamsInv, Numbers
<1>2. /\ \E a \in Served(q, DetectDialect(q, ""), id) :
            answers' = [answers EXCEPT !["nestjsx"] = <<
                       [a EXCEPT !.rows = SubSeq(@, 1, Least(1, Len(@)))]>>]
      /\ params' = IF byId THEN params ELSE sent
      /\ asked' = [asked EXCEPT !.one = TRUE]
      /\ setting' = setting /\ search' = search
  BY Zenon DEF FindOne
<1>. HIDE DEF byId, id
<1>3. IsQuery(q)
  BY <1>1, BuiltIsQuery
<1>4. /\ {"limit", "offset", "page", "filter", "or"} \subseteq DOMAIN params'
      /\ Numbers(params'.limit, params'.offset, params'.page)
      /\ params'.page = params.page /\ params'.offset = params.offset
  <2>. HIDE DEF sent
  <2>. QED  BY <1>1, <1>2 DEF Inv, BuildersInv, ParamsInv
<1>. HIDE DEF sent, q
<1>5. PICK a \in Served(q, DetectDialect(q, ""), id) :
          answers' = [answers EXCEPT !["nestjsx"] = <<
                         [a EXCEPT !.rows = SubSeq(@, 1, Least(1, Len(@)))]>>]
  BY <1>2, Zenon
<1>6. IsAnswer(a)
  BY <1>3, <1>5, ServedAllowed DEF Inv
<1>. DEFINE b == [a EXCEPT !.rows = SubSeq(@, 1, Least(1, Len(@)))]
<1>7. IsAnswer(b)
  BY <1>6, FirstIsAnswer
<1>8. answers' = [answers EXCEPT !["nestjsx"] = <<b>>]
  BY <1>5
<1>. HIDE DEF b
<1>9. AnswersInv'
  BY <1>2, <1>7, <1>8, AnswerAdded DEF Inv, Lane
<1>10. AskedInv' /\ asked'.paging = asked.paging
  BY <1>2 DEF Inv, BuildersInv, AskedInv
<1>11. SearchInv'
  BY <1>2 DEF Inv, BuildersInv, SearchInv
<1>. QED  BY <1>4, <1>9, <1>10, <1>11 DEF Inv, BuildersInv, ParamsInv, PagingInv

\* The next page: the offset and the page stay numbers, the range one page long.
LEMMA TurnStep ==
    ASSUME Inv, TurnPage
    PROVE  BuildersInv'
<1>1. asked' = asked /\ asked.size \in Nat /\ turns \in Nat
      /\ asked.paging \in {"page", "offset"}
  BY DEF Inv, BuildersInv, AskedInv, TurnPage
<1>2. AskedInv'
  BY <1>1 DEF Inv, BuildersInv, AskedInv
<1>3. ASSUME asked.paging = "page" PROVE ParamsInv' /\ PagingInv'
  <2>1. params' = [params EXCEPT !.page = params.page + 1] /\ params.page \in Int
    BY <1>3 DEF TurnPage, Inv, BuildersInv, PagingInv
  <2>. QED  BY <1>1, <1>3, <2>1 DEF Inv, BuildersInv, ParamsInv, PagingInv, Numbers
<1>4. ASSUME asked.paging = "offset" PROVE ParamsInv' /\ PagingInv'
  <2>1. params' = [params EXCEPT !.offset = params.offset + asked.size]
        /\ params.offset \in Int
    BY <1>4 DEF TurnPage, Inv, BuildersInv, PagingInv
  <2>. QED  BY <1>1, <1>4, <2>1 DEF Inv, BuildersInv, ParamsInv, PagingInv, Numbers
<1>5. SearchInv'
  <2>. DEFINE from == (turns + 1) * asked.size
              to == (turns + 2) * asked.size - 1
  <2>1. from \in Int /\ to - from + 1 = asked.size
    BY <1>1
  <2>2. search' = [search EXCEPT !.offset = from, !.limit = to - from + 1]
    BY DEF TurnPage, SetRange
  <2>. HIDE DEF from, to
  <2>3. search' = [search EXCEPT !.offset = from, !.limit = asked.size]
    BY <2>1, <2>2
  <2>. QED  BY <1>1, <2>1, <2>3 DEF Inv, BuildersInv, SearchInv, IsQuery, Numbers
<1>6. ParamsInv' /\ PagingInv'
  BY <1>1, <1>3, <1>4
<1>. QED  BY <1>2, <1>5, <1>6 DEF BuildersInv

LEMMA StepInv == Inv /\ [Next]_vars => Inv'
<1>. SUFFICES ASSUME Inv, [Next]_vars PROVE Inv'
  OBVIOUS
<1>1. ASSUME BuildersInv', AnswersInv', setting' = setting, turns' \in Nat
      PROVE  Inv'
  BY <1>1 DEF Inv
<1>2. ASSUME Calling, BuildersInv' PROVE Inv'
  <2>1. AnswersInv' /\ setting' = setting /\ turns' \in Nat
    BY <1>2, AnswersStay DEF Inv, Calling
  <2>. QED  BY <1>1, <1>2, <2>1
<1>3. ASSUME BuildersInv', AnswersInv', setting' = setting, turns' = turns PROVE Inv'
  BY <1>1, <1>3 DEF Inv
<1>4. ASSUME NEW c \in AskCondition, AskWhere(c) PROVE Inv'
  BY <1>2, <1>4, WhereStep DEF Inv, AskWhere
<1>5. ASSUME NEW cs \in AskAny, AskOr(cs) PROVE Inv'
  BY <1>2, <1>5, OrStep DEF Inv, AskOr
<1>6. ASSUME NEW cs \in AskColumns, AskSelect(cs) PROVE Inv'
  BY <1>2, <1>6, SelectStep DEF Inv, AskSelect
<1>7. ASSUME NEW ps \in AskRelation, AskJoin(ps) PROVE Inv'
  BY <1>2, <1>7, JoinStep DEF Inv, AskJoin
<1>8. ASSUME NEW s \in AskOrder, AskSort(s) PROVE Inv'
  BY <1>2, <1>8, SortStep DEF Inv, AskSort
<1>9. ASSUME NEW n \in AskSize, AskLimit(n) PROVE Inv'
  BY <1>2, <1>9, LimitStep DEF Inv, AskLimit
<1>10. ASSUME NEW n \in AskSize, NEW style \in {"page", "offset"}, AskPages(n, style)
       PROVE  Inv'
  BY <1>2, <1>10, PagesStep DEF Inv, AskPages
<1>11. ASSUME FindMany PROVE Inv'
  BY <1>3, <1>11, FindManyStep DEF FindMany, Answered
<1>12. ASSUME NEW mode \in {"many", "single", "maybe"}, Execute(mode) PROVE Inv'
  BY <1>3, <1>12, ExecuteStep DEF Execute, Answered
<1>13. ASSUME FindOne PROVE Inv'
  BY <1>3, <1>13, FindOneStep DEF FindOne
<1>14. ASSUME NEW raw \in RawRequest, SendRaw(raw) PROVE Inv'
  BY <1>3, <1>14, RawStep DEF SendRaw
<1>15. ASSUME TurnPage PROVE Inv'
  <2>1. setting' = setting /\ turns' \in Nat /\ answers' = NoAnswers
    BY <1>15 DEF TurnPage, Inv
  <2>. QED  BY <1>1, <1>15, <2>1, TurnStep, AnswersCleared
<1>16. ASSUME NewQuery PROVE Inv'
  <2>1. setting' = setting /\ turns' \in Nat /\ answers' = NoAnswers
    BY <1>16 DEF NewQuery
  <2>. QED  BY <1>1, <1>16, <2>1, FreshBuilders, AnswersCleared DEF NewQuery
<1>17. ASSUME UNCHANGED vars PROVE Inv'
  <2>1. BuildersInv'
    BY <1>17 DEF vars, Inv, BuildersInv, AskedInv, ParamsInv, PagingInv, SearchInv
  <2>. QED  BY <1>3, <1>17, <2>1, AnswersStay DEF vars, Inv
<1>. QED  BY <1>4, <1>5, <1>6, <1>7, <1>8, <1>9, <1>10, <1>11, <1>12, <1>13, <1>14,
             <1>15, <1>16, <1>17 DEF Next

\* However a query is written, in either dialect and by whatever client, no
\* answer holds a row outside the crud auth filter, for every table, setting
\* and query (applyWhere, buildSearchTree of both parsers).
THEOREM AuthFilterAlways == Spec => []AuthFilterHolds
<1>1. Inv => AuthFilterHolds
  <2>. SUFFICES ASSUME Inv, setting.auth.or = <<>>, NEW lane \in Lane, Ok(lane),
                       NEW id \in ToSet(answers[lane][1].rows)
                PROVE  AuthPasses(id)
    BY DEF AuthFilterHolds, AuthPasses
  <2>1. PICK a : IsAnswer(a) /\ answers[lane] = <<a>>
    BY DEF Inv, AnswersInv, Ok
  <2>2. answers[lane][1] = a
    BY <2>1
  <2>3. a.rows \in Seq(AllowedRows)
    BY <2>1, <2>2 DEF Ok, IsAnswer
  <2>4. PICK i \in DOMAIN a.rows : id = a.rows[i]
    BY <2>2 DEF ToSet
  <2>5. id \in AllowedRows
    BY <2>3, <2>4
  <2>. QED  BY <2>5 DEF AllowedRows, Allowed
<1>. QED  BY <1>1, InitInv, StepInv, PTL DEF Spec

\* An answer selects only relations of the join allowlist, and a nested one only
\* with every relation above it, whatever is asked and configured (applyJoins).
THEOREM JoinsAllowedAlways == Spec => []JoinsStayAllowed
<1>1. Inv => JoinsStayAllowed
  <2>. SUFFICES ASSUME Inv, NEW lane \in Lane, Ok(lane)
                PROVE  AllowedJoins(DOMAIN answers[lane][1].joins)
    BY DEF JoinsStayAllowed, AllowedJoins
  <2>1. PICK a : IsAnswer(a) /\ answers[lane] = <<a>>
    BY DEF Inv, AnswersInv, Ok
  <2>2. answers[lane][1] = a
    BY <2>1
  <2>. QED  BY <2>1, <2>2 DEF Ok, IsAnswer
<1>. QED  BY <1>1, InitInv, StepInv, PTL DEF Spec

-----------------------------------------------------------------------------
(* Types: the counters within their bounds, a params object with one       *)
(* condition for a field, and rows of the table seen.                      *)

Distinct(conds) ==
    \A i, j \in DOMAIN conds : conds[i].field = conds[j].field => i = j

SeenType == seen \in [Lane -> Seq(DOMAIN Rows)]

FilterInv == IsSeq(params.filter) /\ Distinct(params.filter)

TypeInv ==
    /\ calls \in 0..MaxCalls
    /\ turns \in 0..MaxTurns
    /\ request \in RawRequest \cup {NoRequest}
    /\ FilterInv
    /\ SeenType

\* A condition on a field filtered before takes the place of the old one.
LEMMA MergeKeepsDistinct ==
    ASSUME NEW conds, IsSeq(conds), Distinct(conds), NEW c
    PROVE  IsSeq(MergeField(conds, c)) /\ Distinct(MergeField(conds, c))
<1>. DEFINE same == {i \in DOMAIN conds : conds[i].field = c.field}
            merged == [i \in DOMAIN conds |-> IF i \in same THEN c ELSE conds[i]]
<1>1. PICK S : conds \in Seq(S)
  BY DEF IsSeq
<1>2. CASE same = {}
  <2>1. MergeField(conds, c) = Append(conds, c)
    BY <1>2 DEF MergeField
  <2>2. \A i \in DOMAIN conds : conds[i].field # c.field
    BY <1>2
  <2>3. /\ DOMAIN Append(conds, c) = 1..Len(conds) + 1
        /\ \A i \in DOMAIN conds : Append(conds, c)[i] = conds[i]
        /\ Append(conds, c)[Len(conds) + 1] = c
        /\ DOMAIN conds = 1..Len(conds) /\ Len(conds) \in Nat
    <3>1. conds \in Seq(S \cup {c})
      BY <1>1
    <3>. QED  BY <3>1
  <2>4. \A i \in DOMAIN Append(conds, c) : i \in DOMAIN conds \/ i = Len(conds) + 1
    BY <2>3
  <2>5. Distinct(Append(conds, c))
    BY <2>2, <2>3, <2>4 DEF Distinct
  <2>. QED  BY <2>1, <2>5, AppendIsSeq
<1>3. CASE same # {}
  <2>1. MergeField(conds, c) = merged
    BY <1>3 DEF MergeField
  <2>2. IsSeq(merged)
    <3>1. merged \in [1..Len(conds) -> S \cup {c}] /\ Len(conds) \in Nat
      BY <1>1
    <3>. HIDE DEF merged
    <3>. QED  BY <3>1, SeqOfDomain
  <2>3. \A i \in DOMAIN merged : i \in DOMAIN conds /\ merged[i].field = conds[i].field
    OBVIOUS
  <2>. HIDE DEF merged
  <2>4. Distinct(merged)
    BY <2>3 DEF Distinct
  <2>. QED  BY <2>1, <2>2, <2>4
<1>. QED  BY <1>2, <1>3

\* What a request adds to the rows seen.
LEMMA SeenGrows ==
    ASSUME SeenType, NEW lane \in Lane, NEW a, IsAnswer(a),
           \/ seen' = [seen EXCEPT ![lane] = @ \o a.rows]
           \/ seen' = [seen EXCEPT ![lane] = a.rows]
    PROVE  SeenType'
<1>1. a.rows \in Seq(DOMAIN Rows) /\ seen[lane] \in Seq(DOMAIN Rows)
  BY DEF SeenType, IsAnswer
<1>2. seen[lane] \o a.rows \in Seq(DOMAIN Rows)
  BY <1>1
<1>. QED  BY <1>1, <1>2 DEF SeenType

LEMMA TypeInit == Init => TypeInv
<1>. SUFFICES ASSUME Init PROVE TypeInv
  OBVIOUS
<1>1. FilterInv
  BY EmptyIsSeq DEF Init, FilterInv, Distinct, NoParams
<1>2. SeenType
  BY EmptySeq DEF Init, SeenType
<1>. QED  BY <1>1, <1>2, QueryPipelineAssumption DEF Init, TypeInv

LEMMA TypeCalling ==
    ASSUME TypeInv, Calling, FilterInv'
    PROVE  TypeInv'
BY QueryPipelineAssumption DEF TypeInv, Calling, SeenType

LEMMA TypeServed ==
    ASSUME TypeInv, FilterInv', SeenType', calls' = calls, turns' = turns,
           request' \in RawRequest \cup {NoRequest}
    PROVE  TypeInv'
BY DEF TypeInv

LEMMA FilterStays ==
    ASSUME FilterInv, params'.filter = params.filter
    PROVE  FilterInv'
BY DEF FilterInv, Distinct

LEMMA TypeStep == Inv /\ TypeInv /\ [Next]_vars => TypeInv'
<1>. SUFFICES ASSUME Inv, TypeInv, [Next]_vars PROVE TypeInv'
  OBVIOUS
<1>0. {"limit", "offset", "page", "filter", "or"} \subseteq DOMAIN params /\ FilterInv
  BY DEF Inv, BuildersInv, ParamsInv, TypeInv
<1>1. ASSUME NEW c \in AskCondition, AskWhere(c) PROVE TypeInv'
  <2>1. params'.filter = MergeField(params.filter, c)
    BY <1>0, <1>1 DEF AskWhere, Where
  <2>2. FilterInv'
    BY <1>0, <2>1, MergeKeepsDistinct DEF FilterInv, Distinct
  <2>. QED  BY <1>1, <2>2, TypeCalling DEF AskWhere
<1>2. ASSUME Calling, params'.filter = params.filter PROVE TypeInv'
  BY <1>0, <1>2, FilterStays, TypeCalling
<1>3. ASSUME NEW cs \in AskAny, AskOr(cs) PROVE TypeInv'
  BY <1>0, <1>2, <1>3 DEF AskOr, OrWhere
<1>4. ASSUME NEW cs \in AskColumns, AskSelect(cs) PROVE TypeInv'
  BY <1>0, <1>2, <1>4 DEF AskSelect
<1>5. ASSUME NEW ps \in AskRelation, AskJoin(ps) PROVE TypeInv'
  BY <1>0, <1>2, <1>5 DEF AskJoin
<1>6. ASSUME NEW s \in AskOrder, AskSort(s) PROVE TypeInv'
  BY <1>0, <1>2, <1>6 DEF AskSort
<1>7. ASSUME NEW n \in AskSize, AskLimit(n) PROVE TypeInv'
  BY <1>0, <1>2, <1>7 DEF AskLimit
<1>8. ASSUME NEW n \in AskSize, NEW style \in {"page", "offset"}, AskPages(n, style)
      PROVE  TypeInv'
  <2>1. params'.filter = params.filter
    BY <1>0, <1>8 DEF AskPages
  <2>. QED  BY <1>2, <1>8, <2>1 DEF AskPages
<1>9. ASSUME FindMany PROVE TypeInv'
  <2>. DEFINE q == BuildQueryParams(params)
  <2>1. IsQuery(q)
    BY BuiltIsQuery DEF Inv, BuildersInv, ParamsInv
  <2>2. PICK a \in Served(q, DetectDialect(q, ""), Null) : Answered("nestjsx", a)
    BY <1>9 DEF FindMany
  <2>. HIDE DEF q
  <2>3. SeenType'
    BY <2>1, <2>2, ServedAllowed, SeenGrows DEF Inv, TypeInv, Answered, Lane
  <2>4. params' = params /\ calls' = calls /\ turns' = turns /\ request' = request
    BY <1>9, <2>2 DEF FindMany, Answered
  <2>. QED  BY <1>0, <2>3, <2>4, FilterStays, TypeServed DEF TypeInv
<1>10. ASSUME NEW mode \in {"many", "single", "maybe"}, Execute(mode) PROVE TypeInv'
  <2>. DEFINE dialect == DetectDialect(search, IF setting.pinned THEN "postgrest" ELSE "")
  <2>1. PICK a \in Served(search, dialect, Null) :
            Answered("postgrest", SingleResult(mode, a))
    BY <1>10 DEF Execute
  <2>. HIDE DEF dialect
  <2>2. IsAnswer(SingleResult(mode, a))
    BY <2>1, ServedAllowed, SingleIsAnswer DEF Inv, BuildersInv, SearchInv
  <2>3. SeenType'
    BY <2>1, <2>2, SeenGrows DEF TypeInv, Answered, Lane
  <2>4. params' = params /\ calls' = calls /\ turns' = turns /\ request' = request
    BY <1>10, <2>1 DEF Execute, Answered
  <2>. QED  BY <1>0, <2>3, <2>4, FilterStays, TypeServed DEF TypeInv
<1>11. ASSUME FindOne PROVE TypeInv'
  <2>. DEFINE byId == /\ Len(params.filter) = 1
                      /\ params.filter[1].field = <<<<>>, PrimaryKey>>
                      /\ params.filter[1].op = "$eq"
              sent == IF byId THEN [params EXCEPT !.filter = <<>>]
                      ELSE [params EXCEPT !.limit = 1]
              q == BuildQueryParams(sent)
              id == IF byId THEN params.filter[1].args[1] ELSE Null
  <2>1. Numbers(sent.limit, sent.offset, sent.page)
    BY DEF Inv, BuildersInv, ParamsInv, Numbers
  <2>2. /\ \E a \in Served(q, DetectDialect(q, ""), id) :
              seen' = [seen EXCEPT !["nestjsx"] = a.rows]
        /\ params' = IF byId THEN params ELSE sent
        /\ calls' = calls /\ turns' = turns /\ request' = request
    BY <1>11, Zenon DEF FindOne
  <2>3. params'.filter = params.filter
    BY <1>0, <2>2
  <2>. HIDE DEF byId, id
  <2>4. IsQuery(q)
    BY <2>1, BuiltIsQuery
  <2>. HIDE DEF sent, q
  <2>5. SeenType'
    BY <2>2, <2>4, ServedAllowed, SeenGrows DEF Inv, TypeInv, Lane
  <2>. QED  BY <1>0, <2>2, <2>3, <2>5, FilterStays, TypeServed DEF TypeInv
<1>12. ASSUME NEW raw \in RawRequest, SendRaw(raw) PROVE TypeInv'
  <2>1. IsQuery(raw.q)
    BY RawRequestAssumption DEF IsQuery, IsSeq, Numbers
  <2>2. PICK a \in Served(raw.q, DetectDialect(raw.q, raw.header), raw.id) :
            seen' = [seen EXCEPT !["raw"] = a.rows]
    BY <1>12 DEF SendRaw
  <2>3. SeenType'
    BY <2>1, <2>2, ServedAllowed, SeenGrows DEF Inv, TypeInv, Lane
  <2>. QED  BY <1>0, <1>12, <2>3, FilterStays, TypeServed DEF SendRaw
<1>13. ASSUME TurnPage PROVE TypeInv'
  <2>1. params'.filter = params.filter
    BY <1>0, <1>13 DEF TurnPage
  <2>2. turns' \in 0..MaxTurns
    BY <1>13, QueryPipelineAssumption DEF TurnPage, TypeInv
  <2>. QED  BY <1>0, <1>13, <2>1, <2>2, FilterStays DEF TurnPage, TypeInv, SeenType
<1>14. ASSUME NewQuery PROVE TypeInv'
  <2>1. FilterInv'
    BY <1>14, EmptyIsSeq DEF NewQuery, FilterInv, Distinct, NoParams
  <2>2. SeenType'
    BY <1>14, EmptySeq DEF NewQuery, SeenType
  <2>. QED  BY <1>14, <2>1, <2>2, QueryPipelineAssumption DEF NewQuery, TypeInv
<1>15. ASSUME UNCHANGED vars PROVE TypeInv'
  BY <1>0, <1>15, FilterStays DEF vars, TypeInv, SeenType
<1>. QED  BY <1>1, <1>3, <1>4, <1>5, <1>6, <1>7, <1>8, <1>9, <1>10, <1>11, <1>12,
             <1>13, <1>14, <1>15 DEF Next

\* The variables keep their types, for every table, setting and query: the
\* params object of a client never holds two conditions on one field, and only
\* rows of the table are ever answered (EntityClient.where, getMany, getOne).
THEOREM TypeCorrect == Spec => []TypeOK
<1>1. Inv /\ TypeInv => TypeOK
  <2>. SUFFICES ASSUME Inv, TypeInv PROVE TypeOK
    OBVIOUS
  <2>1. ASSUME NEW lane \in Lane
        PROVE  /\ ToSet(seen[lane]) \subseteq DOMAIN Rows
               /\ Len(answers[lane]) \in {0, 1}
               /\ answers[lane] # <<>> =>
                    /\ answers[lane][1].status \in {200, 400, 404, 406, 500}
                    /\ ToSet(answers[lane][1].rows) \subseteq DOMAIN Rows
    <3>1. seen[lane] \in Seq(DOMAIN Rows)
      BY DEF TypeInv, SeenType
    <3>2. ToSet(seen[lane]) \subseteq DOMAIN Rows
      BY <3>1 DEF ToSet
    <3>3. CASE answers[lane] = <<>>
      BY <3>2, <3>3
    <3>4. ASSUME NEW a, IsAnswer(a), answers[lane] = <<a>>
          PROVE  /\ Len(answers[lane]) \in {0, 1}
                 /\ answers[lane][1].status \in {200, 400, 404, 406, 500}
                 /\ ToSet(answers[lane][1].rows) \subseteq DOMAIN Rows
      <4>1. a.status \in Statuses /\ a.rows \in Seq(DOMAIN Rows)
        BY <3>4 DEF IsAnswer
      <4>2. ToSet(a.rows) \subseteq DOMAIN Rows
        BY <4>1 DEF ToSet
      <4>3. answers[lane][1] = a /\ Len(answers[lane]) = 1
        BY <3>4
      <4>. QED  BY <4>1, <4>2, <4>3 DEF Statuses, Refusals
    <3>. QED  BY <3>2, <3>3, <3>4 DEF Inv, AnswersInv
  <2>. QED  BY <2>1 DEF TypeOK, TypeInv, Inv, FilterInv, Distinct
<1>. QED  BY <1>1, InitInv, StepInv, TypeInit, TypeStep, PTL DEF Spec


-----------------------------------------------------------------------------
(* Numbers and sequences.                                                  *)

LEMMA LeastNatural ==
    ASSUME NEW S \in SUBSET Nat, S # {}
    PROVE  \E m \in S : \A n \in S : m <= n
<1>. DEFINE R == {pair \in Nat \X Nat : pair[1] < pair[2]}
<1>1. IsWellFoundedOn(R, Nat)
  BY NatLessThanWellFounded DEF OpToRel
<1>2. \A x, y \in Nat : x < y => <<x, y>> \in R
  OBVIOUS
<1>. HIDE DEF R
<1>3. PICK m \in S : \A n \in S : ~(<<n, m>> \in R)
  BY <1>1, WFMin
<1>4. ASSUME NEW n \in S PROVE m <= n
  <2>1. n \in Nat /\ m \in Nat /\ ~(n < m)
    BY <1>2, <1>3
  <2>. QED  BY <2>1
<1>. QED  BY <1>4

LEMMA LastIndex ==
    ASSUME NEW n \in Nat, NEW S \in SUBSET (1..n), S # {}
    PROVE  \E m \in S : \A i \in S : i <= m
<1>. DEFINE T == {n - i : i \in S}
<1>1. T \subseteq Nat /\ T # {}
  <2>1. \A i \in S : n - i \in Nat
    OBVIOUS
  <2>. QED  BY <2>1
<1>. HIDE DEF T
<1>2. PICK t \in T : \A u \in T : t <= u
  BY <1>1, LeastNatural
<1>3. PICK m \in S : t = n - m
  BY DEF T
<1>4. \A i \in S : n - m <= n - i
  BY <1>2, <1>3 DEF T
<1>. QED  BY <1>4

\* A property of natural numbers that never ends with a step never ends.
LEMMA ClimbsForever ==
    ASSUME NEW S, 0 \in S, \A n \in Nat : n \in S => n + 1 \in S
    PROVE  Nat \subseteq S
<1>. SUFFICES ASSUME Nat \ S # {} PROVE FALSE
  OBVIOUS
<1>1. PICK m \in Nat \ S : \A n \in Nat \ S : m <= n
  <2>1. Nat \ S \in SUBSET Nat
    OBVIOUS
  <2>. QED  BY <2>1, LeastNatural
<1>2. m # 0 /\ m - 1 \in Nat
  OBVIOUS
<1>3. m - 1 \in S
  BY <1>1, <1>2
<1>4. (m - 1) + 1 \in S
  BY <1>2, <1>3
<1>. QED  BY <1>4

LEMMA SeqDomain ==
    ASSUME NEW s, IsSeq(s)
    PROVE  Len(s) \in Nat /\ DOMAIN s = 1..Len(s) /\ s \in Seq(ToSet(s))
<1>1. PICK S : s \in Seq(S)
  BY DEF IsSeq
<1>2. Len(s) \in Nat /\ DOMAIN s = 1..Len(s) /\ s \in [1..Len(s) -> S]
  BY <1>1, LenProperties
<1>3. s \in [1..Len(s) -> ToSet(s)]
  BY <1>2 DEF ToSet
<1>4. s \in Seq(ToSet(s))
  BY <1>2, <1>3, SeqDef
<1>. QED  BY <1>2, <1>4

LEMMA EmptyDomain ==
    ASSUME NEW s, IsSeq(s)
    PROVE  s = <<>> <=> DOMAIN s = {}
<1>1. s \in Seq(ToSet(s)) /\ Len(s) \in Nat /\ DOMAIN s = 1..Len(s)
  BY SeqDomain
<1>2. s # <<>> => Len(s) # 0
  BY <1>1, EmptySeq
<1>3. s = <<>> => Len(s) = 0
  BY <1>1, EmptySeq
<1>4. s = <<>> <=> Len(s) = 0
  BY <1>2, <1>3, Zenon
<1>5. 1..Len(s) = {} <=> Len(s) = 0
  <2>1. Len(s) # 0 => 1 \in 1..Len(s)
    BY <1>1
  <2>2. Len(s) = 0 => \A i \in 1..Len(s) : FALSE
    BY <1>1
  <2>. QED  BY <2>1, <2>2, Zenon
<1>. QED  BY <1>1, <1>4, <1>5, Zenon

LEMMA EmptyRange ==
    ASSUME NEW s, IsSeq(s)
    PROVE  s = <<>> <=> ToSet(s) = {}
BY EmptyDomain DEF ToSet

LEMMA ConcatRange ==
    ASSUME NEW s, NEW t, IsSeq(s), IsSeq(t)
    PROVE  ToSet(s \o t) = ToSet(s) \cup ToSet(t)
<1>1. s \in Seq(ToSet(s) \cup ToSet(t)) /\ t \in Seq(ToSet(s) \cup ToSet(t))
  <2>1. s \in Seq(ToSet(s)) /\ t \in Seq(ToSet(t))
    BY SeqDomain
  <2>. QED  BY <2>1
<1>2. /\ DOMAIN s = 1..Len(s) /\ Len(s) \in Nat
      /\ DOMAIN t = 1..Len(t) /\ Len(t) \in Nat
      /\ DOMAIN (s \o t) = 1..Len(s) + Len(t)
      /\ \A i \in 1..Len(s) + Len(t) :
            (s \o t)[i] = IF i <= Len(s) THEN s[i] ELSE t[i - Len(s)]
  BY <1>1
<1>3. ASSUME NEW x \in ToSet(s \o t) PROVE x \in ToSet(s) \cup ToSet(t)
  <2>1. PICK i \in 1..Len(s) + Len(t) : x = (s \o t)[i]
    BY <1>2 DEF ToSet
  <2>2. CASE i <= Len(s)
    BY <1>2, <2>1, <2>2 DEF ToSet
  <2>3. CASE ~(i <= Len(s))
    <3>1. i - Len(s) \in DOMAIN t /\ x = t[i - Len(s)]
      BY <1>2, <2>1, <2>3
    <3>. QED  BY <3>1 DEF ToSet
  <2>. QED  BY <2>2, <2>3
<1>4. ASSUME NEW x \in ToSet(s) PROVE x \in ToSet(s \o t)
  <2>1. PICK i \in DOMAIN s : x = s[i]
    BY DEF ToSet
  <2>2. i \in DOMAIN (s \o t) /\ (s \o t)[i] = x
    BY <1>2, <2>1
  <2>. QED  BY <2>2 DEF ToSet
<1>5. ASSUME NEW x \in ToSet(t) PROVE x \in ToSet(s \o t)
  <2>1. PICK i \in DOMAIN t : x = t[i]
    BY DEF ToSet
  <2>2. Len(s) + i \in DOMAIN (s \o t) /\ (s \o t)[Len(s) + i] = x
    BY <1>2, <2>1
  <2>. QED  BY <2>2 DEF ToSet
<1>. QED  BY <1>3, <1>4, <1>5

\* The members at some positions are those, and no others.
LEMMA AtPositionsRange ==
    ASSUME NEW s, IsSeq(s), NEW P, P \subseteq DOMAIN s
    PROVE  IsSeq(AtPositions(s, P)) /\ ToSet(AtPositions(s, P)) = {s[i] : i \in P}
<1>. DEFINE upto(i) == {j \in P : j <= i}
            rank == [i \in P |-> Cardinality(upto(i))]
            n == Cardinality(P)
            kept == AtPositions(s, P)
<1>1. P \subseteq 1..Len(s) /\ Len(s) \in Nat
  BY SeqDomain
<1>2. IsFiniteSet(P) /\ n \in Nat
  <2>1. IsFiniteSet(1..Len(s))
    BY <1>1, FS_Interval
  <2>. QED  BY <1>1, <2>1, FS_Subset, FS_CardinalityType
<1>3. ASSUME NEW i \in P PROVE upto(i) \in SUBSET P /\ IsFiniteSet(upto(i)) /\ Cardinality(upto(i)) \in 1..n
  <2>1. upto(i) \in SUBSET P
    OBVIOUS
  <2>2. IsFiniteSet(upto(i)) /\ Cardinality(upto(i)) <= n
    BY <1>2, <2>1, FS_Subset
  <2>3. i \in upto(i)
    BY <1>1
  <2>4. Cardinality(upto(i)) \in Nat /\ Cardinality(upto(i)) # 0
    BY <2>2, <2>3, FS_CardinalityType, FS_EmptySet
  <2>. QED  BY <1>2, <2>1, <2>2, <2>4
<1>4. ASSUME NEW i \in P, NEW j \in P, i < j PROVE Cardinality(upto(i)) # Cardinality(upto(j))
  <2>1. upto(i) \in SUBSET upto(j)
    BY <1>1, <1>4
  <2>2. j \in upto(j) /\ j \notin upto(i)
    BY <1>1, <1>4
  <2>. QED  BY <1>3, <2>1, <2>2, FS_Subset
<1>5. rank \in Injection(P, 1..n)
  <2>1. rank \in [P -> 1..n]
    BY <1>3
  <2>2. \A i, j \in P : rank[i] = rank[j] => i = j
    <3>. SUFFICES ASSUME NEW i \in P, NEW j \in P, i # j PROVE rank[i] # rank[j]
      OBVIOUS
    <3>1. i < j \/ j < i
      BY <1>1
    <3>. QED  BY <1>4, <3>1
  <2>. QED  BY <2>1, <2>2 DEF Injection, IsInjective
<1>6. rank \in Surjection(P, 1..n)
  <2>1. IsFiniteSet(1..n) /\ Cardinality(1..n) = n
    BY <1>2, FS_Interval
  <2>. QED  BY <1>2, <1>5, <2>1, FS_Injection
<1>7. \A m \in 1..n : \E i \in P : Cardinality(upto(i)) = m
  BY <1>6 DEF Surjection
<1>. DEFINE at(m) == CHOOSE i \in P : Cardinality(upto(i)) = m
<1>8. ASSUME NEW m \in 1..n PROVE at(m) \in P /\ Cardinality(upto(at(m))) = m
  BY <1>7
<1>9. kept = [m \in 1..n |-> s[at(m)]]
  BY DEF AtPositions, InOrder
<1>10. ASSUME NEW i \in P PROVE at(Cardinality(upto(i))) = i
  <2>1. at(Cardinality(upto(i))) \in P
        /\ Cardinality(upto(at(Cardinality(upto(i))))) = Cardinality(upto(i))
    BY <1>3, <1>8
  <2>. HIDE DEF at
  <2>2. \A j \in P : Cardinality(upto(j)) = Cardinality(upto(i)) => j = i
    <3>. HIDE DEF upto
    <3>. SUFFICES ASSUME NEW j \in P, j # i PROVE Cardinality(upto(j)) # Cardinality(upto(i))
      OBVIOUS
    <3>1. j < i \/ i < j
      BY <1>1
    <3>. QED  BY <1>4, <3>1
  <2>. QED  BY <2>1, <2>2
<1>. HIDE DEF at, upto
<1>11. kept \in [1..n -> {s[i] : i \in P}]
  BY <1>8, <1>9
<1>12. ToSet(kept) = {s[i] : i \in P}
  <2>1. \A i \in P : Cardinality(upto(i)) \in DOMAIN kept /\ kept[Cardinality(upto(i))] = s[i]
    BY <1>3, <1>9, <1>10
  <2>2. \A i \in P : s[i] \in ToSet(kept)
    BY <2>1 DEF ToSet
  <2>. QED  BY <1>11, <2>2 DEF ToSet
<1>. QED  BY <1>2, <1>11, <1>12, SeqOfDomain

-----------------------------------------------------------------------------
(* The truth of a tree, depth by depth.                                    *)

Holds(r, c) == CondHolds(r[c.field], c)

HoldAll(r, conds) == \A c \in conds : Holds(r, c)

HoldSome(r, conds) == \E c \in conds : Holds(r, c)

Flat(node) == \A i \in DOMAIN node : node[i].key = "field"

\* A node of conditions is all or some of them, at every depth.
LEMMA FlatNode0 ==
    ASSUME NEW r, NEW node
    PROVE  /\ Node0(r, node, "$and") <=> HoldAll(r, NodeConditions0(node))
           /\ Node0(r, node, "$or") <=> HoldSome(r, NodeConditions0(node))
<1>. DEFINE truths == {CondHolds(r[node[i].cond.field], node[i].cond) : i \in DOMAIN node}
<1>1. \A i \in DOMAIN node : CondHolds(r[node[i].cond.field], node[i].cond) \in BOOLEAN
  BY CondHoldsBoolean
<1>2. FALSE \notin truths <=> HoldAll(r, NodeConditions0(node))
  BY <1>1 DEF HoldAll, Holds, NodeConditions0
<1>3. TRUE \in truths <=> HoldSome(r, NodeConditions0(node))
  BY <1>1 DEF HoldSome, Holds, NodeConditions0
<1>. QED  BY <1>2, <1>3, Zenon DEF Node0, Attached

LEMMA FlatNodes ==
    ASSUME NEW r, NEW node, Flat(node), NEW mode
    PROVE  /\ Node1(r, node, mode) = Node0(r, node, mode)
           /\ Node2(r, node, mode) = Node0(r, node, mode)
           /\ Node3(r, node, mode) = Node0(r, node, mode)
           /\ Node4(r, node, mode) = Node0(r, node, mode)
<1>. DEFINE truths == {CondHolds(r[node[i].cond.field], node[i].cond) : i \in DOMAIN node}
<1>1. \A i \in DOMAIN node :
          /\ Entry1(r, node[i]) = CondHolds(r[node[i].cond.field], node[i].cond)
          /\ Entry2(r, node[i]) = CondHolds(r[node[i].cond.field], node[i].cond)
          /\ Entry3(r, node[i]) = CondHolds(r[node[i].cond.field], node[i].cond)
          /\ Entry4(r, node[i]) = CondHolds(r[node[i].cond.field], node[i].cond)
  BY DEF Flat, Entry1, Entry2, Entry3, Entry4
<1>2. /\ {Entry1(r, node[i]) : i \in DOMAIN node} = truths
      /\ {Entry2(r, node[i]) : i \in DOMAIN node} = truths
      /\ {Entry3(r, node[i]) : i \in DOMAIN node} = truths
      /\ {Entry4(r, node[i]) : i \in DOMAIN node} = truths
  BY <1>1
<1>. HIDE DEF truths
<1>. QED  BY <1>2 DEF Node0, Node1, Node2, Node3, Node4, truths

LEMMA BooleanNodes ==
    \A r, n, mode : /\ Node0(r, n, mode) \in BOOLEAN /\ Node1(r, n, mode) \in BOOLEAN
                    /\ Node2(r, n, mode) \in BOOLEAN /\ Node3(r, n, mode) \in BOOLEAN
                    /\ Node4(r, n, mode) \in BOOLEAN
BY AttachedBoolean, Zenon DEF Node0, Node1, Node2, Node3, Node4

LEMMA SingletonAttached ==
    ASSUME NEW mode, NEW x, x \in BOOLEAN
    PROVE  Attached(mode, {x}) <=> x
<1>1. CASE x = TRUE
  BY <1>1 DEF Attached
<1>2. CASE x = FALSE
  BY <1>2 DEF Attached
<1>. QED  BY <1>1, <1>2

\* A group attaches the nodes in it, whatever it is attached with itself.
LEMMA GroupEntries ==
    ASSUME NEW r, NEW nodes, NEW k \in {"$and", "$or"}, NEW mode
    PROVE  /\ Node1(r, GroupNode(k, nodes), mode)
                  <=> Attached(k, {Node0(r, nodes[i], k) : i \in DOMAIN nodes})
           /\ Node2(r, GroupNode(k, nodes), mode)
                  <=> Attached(k, {Node1(r, nodes[i], k) : i \in DOMAIN nodes})
           /\ Node3(r, GroupNode(k, nodes), mode)
                  <=> Attached(k, {Node2(r, nodes[i], k) : i \in DOMAIN nodes})
           /\ Node4(r, GroupNode(k, nodes), mode)
                  <=> Attached(k, {Node3(r, nodes[i], k) : i \in DOMAIN nodes})
<1>. DEFINE e == [key |-> k, cond |-> NoCondition, kids |-> nodes]
<1>1. GroupNode(k, nodes) = <<e>>
  BY DEF GroupNode
<1>2. e.key = k /\ e.kids = nodes /\ k # "field"
  OBVIOUS
<1>3. /\ Entry1(r, e) = Attached(k, {Node0(r, nodes[i], k) : i \in DOMAIN nodes})
      /\ Entry2(r, e) = Attached(k, {Node1(r, nodes[i], k) : i \in DOMAIN nodes})
      /\ Entry3(r, e) = Attached(k, {Node2(r, nodes[i], k) : i \in DOMAIN nodes})
      /\ Entry4(r, e) = Attached(k, {Node3(r, nodes[i], k) : i \in DOMAIN nodes})
  BY <1>2 DEF Entry1, Entry2, Entry3, Entry4
<1>. HIDE DEF e
<1>4. DOMAIN <<e>> = {1} /\ <<e>>[1] = e
  OBVIOUS
<1>5. /\ {Entry1(r, <<e>>[i]) : i \in DOMAIN <<e>>} = {Entry1(r, e)}
      /\ {Entry2(r, <<e>>[i]) : i \in DOMAIN <<e>>} = {Entry2(r, e)}
      /\ {Entry3(r, <<e>>[i]) : i \in DOMAIN <<e>>} = {Entry3(r, e)}
      /\ {Entry4(r, <<e>>[i]) : i \in DOMAIN <<e>>} = {Entry4(r, e)}
  BY <1>4
<1>6. /\ Entry1(r, e) \in BOOLEAN /\ Entry2(r, e) \in BOOLEAN
      /\ Entry3(r, e) \in BOOLEAN /\ Entry4(r, e) \in BOOLEAN
  BY <1>3, AttachedBoolean, Zenon
<1>7. /\ Attached(mode, {Entry1(r, e)}) <=> Entry1(r, e)
      /\ Attached(mode, {Entry2(r, e)}) <=> Entry2(r, e)
      /\ Attached(mode, {Entry3(r, e)}) <=> Entry3(r, e)
      /\ Attached(mode, {Entry4(r, e)}) <=> Entry4(r, e)
  BY <1>6, SingletonAttached, Zenon
<1>8. /\ Node1(r, <<e>>, mode) <=> Entry1(r, e)
      /\ Node2(r, <<e>>, mode) <=> Entry2(r, e)
      /\ Node3(r, <<e>>, mode) <=> Entry3(r, e)
      /\ Node4(r, <<e>>, mode) <=> Entry4(r, e)
  BY <1>5, <1>7, Zenon DEF Node1, Node2, Node3, Node4
<1>. QED  BY <1>1, <1>3, <1>8, Zenon

LEMMA AndGroup ==
    ASSUME NEW r, NEW nodes, NEW mode
    PROVE  /\ Node1(r, GroupNode("$and", nodes), mode)
                  <=> \A node \in ToSet(nodes) : Node0(r, node, "$and")
           /\ Node2(r, GroupNode("$and", nodes), mode)
                  <=> \A node \in ToSet(nodes) : Node1(r, node, "$and")
           /\ Node3(r, GroupNode("$and", nodes), mode)
                  <=> \A node \in ToSet(nodes) : Node2(r, node, "$and")
           /\ Node4(r, GroupNode("$and", nodes), mode)
                  <=> \A node \in ToSet(nodes) : Node3(r, node, "$and")
<1>. DEFINE T0 == {Node0(r, nodes[i], "$and") : i \in DOMAIN nodes}
            T1 == {Node1(r, nodes[i], "$and") : i \in DOMAIN nodes}
            T2 == {Node2(r, nodes[i], "$and") : i \in DOMAIN nodes}
            T3 == {Node3(r, nodes[i], "$and") : i \in DOMAIN nodes}
<1>1. /\ Node1(r, GroupNode("$and", nodes), mode) <=> FALSE \notin T0
      /\ Node2(r, GroupNode("$and", nodes), mode) <=> FALSE \notin T1
      /\ Node3(r, GroupNode("$and", nodes), mode) <=> FALSE \notin T2
      /\ Node4(r, GroupNode("$and", nodes), mode) <=> FALSE \notin T3
  BY GroupEntries, Zenon DEF Attached
<1>2. /\ FALSE \notin T0 <=> \A node \in ToSet(nodes) : Node0(r, node, "$and")
      /\ FALSE \notin T1 <=> \A node \in ToSet(nodes) : Node1(r, node, "$and")
      /\ FALSE \notin T2 <=> \A node \in ToSet(nodes) : Node2(r, node, "$and")
      /\ FALSE \notin T3 <=> \A node \in ToSet(nodes) : Node3(r, node, "$and")
  BY BooleanNodes DEF ToSet
<1>. QED  BY <1>1, <1>2, Zenon

LEMMA OrGroup ==
    ASSUME NEW r, NEW nodes, NEW mode
    PROVE  /\ Node1(r, GroupNode("$or", nodes), mode)
                  <=> \E node \in ToSet(nodes) : Node0(r, node, "$or")
           /\ Node2(r, GroupNode("$or", nodes), mode)
                  <=> \E node \in ToSet(nodes) : Node1(r, node, "$or")
           /\ Node3(r, GroupNode("$or", nodes), mode)
                  <=> \E node \in ToSet(nodes) : Node2(r, node, "$or")
           /\ Node4(r, GroupNode("$or", nodes), mode)
                  <=> \E node \in ToSet(nodes) : Node3(r, node, "$or")
<1>. DEFINE T0 == {Node0(r, nodes[i], "$or") : i \in DOMAIN nodes}
            T1 == {Node1(r, nodes[i], "$or") : i \in DOMAIN nodes}
            T2 == {Node2(r, nodes[i], "$or") : i \in DOMAIN nodes}
            T3 == {Node3(r, nodes[i], "$or") : i \in DOMAIN nodes}
<1>1. /\ Node1(r, GroupNode("$or", nodes), mode) <=> TRUE \in T0
      /\ Node2(r, GroupNode("$or", nodes), mode) <=> TRUE \in T1
      /\ Node3(r, GroupNode("$or", nodes), mode) <=> TRUE \in T2
      /\ Node4(r, GroupNode("$or", nodes), mode) <=> TRUE \in T3
  BY GroupEntries, Zenon DEF Attached
<1>2. /\ TRUE \in T0 <=> \E node \in ToSet(nodes) : Node0(r, node, "$or")
      /\ TRUE \in T1 <=> \E node \in ToSet(nodes) : Node1(r, node, "$or")
      /\ TRUE \in T2 <=> \E node \in ToSet(nodes) : Node2(r, node, "$or")
      /\ TRUE \in T3 <=> \E node \in ToSet(nodes) : Node3(r, node, "$or")
  BY BooleanNodes DEF ToSet
<1>. QED  BY <1>1, <1>2, Zenon

\* The node of one condition.
LEMMA OneFieldNode ==
    ASSUME NEW r, NEW c, NEW mode \in {"$and", "$or"}
    PROVE  /\ Node0(r, FieldNode(c), mode) <=> Holds(r, c)
           /\ Node1(r, FieldNode(c), mode) <=> Holds(r, c)
           /\ Node2(r, FieldNode(c), mode) <=> Holds(r, c)
           /\ Node3(r, FieldNode(c), mode) <=> Holds(r, c)
           /\ Node4(r, FieldNode(c), mode) <=> Holds(r, c)
<1>1. Flat(FieldNode(c)) /\ NodeConditions0(FieldNode(c)) = {c}
  BY DEF Flat, NodeConditions0, FieldNode
<1>2. Node0(r, FieldNode(c), mode) <=> Holds(r, c)
  <2>1. Node0(r, FieldNode(c), "$and") <=> HoldAll(r, {c})
    BY <1>1, FlatNode0
  <2>2. Node0(r, FieldNode(c), "$or") <=> HoldSome(r, {c})
    BY <1>1, FlatNode0
  <2>3. (HoldAll(r, {c}) <=> Holds(r, c)) /\ (HoldSome(r, {c}) <=> Holds(r, c))
    BY DEF HoldAll, HoldSome
  <2>. QED  BY <2>1, <2>2, <2>3
<1>. QED  BY <1>1, <1>2, FlatNodes, Zenon

LEMMA FieldNodesRange ==
    ASSUME NEW conds, IsSeq(conds)
    PROVE  /\ IsSeq(FieldNodes(conds)) /\ Len(FieldNodes(conds)) = Len(conds)
           /\ ToSet(FieldNodes(conds)) = {FieldNode(c) : c \in ToSet(conds)}
           /\ FieldNodes(conds) = <<>> <=> conds = <<>>
<1>1. DOMAIN conds = 1..Len(conds) /\ Len(conds) \in Nat
  BY SeqDomain
<1>2. FieldNodes(conds) \in [1..Len(conds) -> {FieldNode(c) : c \in ToSet(conds)}]
  BY <1>1 DEF FieldNodes, ToSet
<1>3. IsSeq(FieldNodes(conds)) /\ Len(FieldNodes(conds)) = Len(conds)
  <2>1. FieldNodes(conds) \in Seq({FieldNode(c) : c \in ToSet(conds)})
    BY <1>1, <1>2, SeqDef
  <2>. QED  BY <1>1, <1>2, <2>1 DEF IsSeq
<1>4. ToSet(FieldNodes(conds)) = {FieldNode(c) : c \in ToSet(conds)}
  BY DEF FieldNodes, ToSet
<1>5. FieldNodes(conds) = <<>> <=> conds = <<>>
  BY <1>1, <1>3, EmptyDomain, SeqDomain
<1>. QED  BY <1>3, <1>4, <1>5

LEMMA AndedFields ==
    ASSUME NEW r, NEW conds, IsSeq(conds), conds # <<>>, NEW mode \in {"$and", "$or"}
    PROVE  /\ Node1(r, Grouped("$and", FieldNodes(conds)), mode) <=> HoldAll(r, ToSet(conds))
           /\ Node2(r, Grouped("$and", FieldNodes(conds)), mode) <=> HoldAll(r, ToSet(conds))
           /\ Node3(r, Grouped("$and", FieldNodes(conds)), mode) <=> HoldAll(r, ToSet(conds))
           /\ Node4(r, Grouped("$and", FieldNodes(conds)), mode) <=> HoldAll(r, ToSet(conds))
<1>. DEFINE nodes == FieldNodes(conds)
            node == Grouped("$and", nodes)
<1>1. IsSeq(nodes) /\ Len(nodes) = Len(conds) /\ ToSet(nodes) = {FieldNode(c) : c \in ToSet(conds)}
  BY FieldNodesRange
<1>2. CASE Len(nodes) = 1
  <2>1. node = nodes[1]
    BY <1>2 DEF Grouped
  <2>2. conds[1] \in ToSet(conds) /\ nodes[1] = FieldNode(conds[1]) /\ ToSet(conds) = {conds[1]}
    <3>1. DOMAIN conds = 1..1
      BY <1>1, <1>2, SeqDomain
    <3>. QED  BY <3>1 DEF ToSet, FieldNodes
  <2>3. HoldAll(r, ToSet(conds)) <=> Holds(r, conds[1])
    BY <2>2 DEF HoldAll
  <2>. QED  BY <2>1, <2>2, <2>3, OneFieldNode, Zenon
<1>3. CASE Len(nodes) # 1
  <2>1. node = GroupNode("$and", nodes)
    BY <1>3 DEF Grouped
  <2>2. \A c \in ToSet(conds) :
          /\ Node0(r, FieldNode(c), "$and") <=> Holds(r, c)
          /\ Node1(r, FieldNode(c), "$and") <=> Holds(r, c)
          /\ Node2(r, FieldNode(c), "$and") <=> Holds(r, c)
          /\ Node3(r, FieldNode(c), "$and") <=> Holds(r, c)
    BY OneFieldNode
  <2>. HIDE DEF nodes, node
  <2>3. /\ (\A n \in ToSet(nodes) : Node0(r, n, "$and")) <=> HoldAll(r, ToSet(conds))
        /\ (\A n \in ToSet(nodes) : Node1(r, n, "$and")) <=> HoldAll(r, ToSet(conds))
        /\ (\A n \in ToSet(nodes) : Node2(r, n, "$and")) <=> HoldAll(r, ToSet(conds))
        /\ (\A n \in ToSet(nodes) : Node3(r, n, "$and")) <=> HoldAll(r, ToSet(conds))
    BY <1>1, <2>2 DEF HoldAll
  <2>4. /\ Node1(r, node, mode) <=> HoldAll(r, ToSet(conds))
        /\ Node2(r, node, mode) <=> HoldAll(r, ToSet(conds))
        /\ Node3(r, node, mode) <=> HoldAll(r, ToSet(conds))
        /\ Node4(r, node, mode) <=> HoldAll(r, ToSet(conds))
    BY <2>1, <2>3, AndGroup, Zenon
  <2>. QED  BY <2>4, Zenon DEF node, nodes
<1>. QED  BY <1>2, <1>3, Zenon

LEMMA OredFields ==
    ASSUME NEW r, NEW conds, IsSeq(conds), conds # <<>>, NEW mode \in {"$and", "$or"}
    PROVE  /\ Node1(r, Grouped("$or", FieldNodes(conds)), mode) <=> HoldSome(r, ToSet(conds))
           /\ Node2(r, Grouped("$or", FieldNodes(conds)), mode) <=> HoldSome(r, ToSet(conds))
           /\ Node3(r, Grouped("$or", FieldNodes(conds)), mode) <=> HoldSome(r, ToSet(conds))
           /\ Node4(r, Grouped("$or", FieldNodes(conds)), mode) <=> HoldSome(r, ToSet(conds))
<1>. DEFINE nodes == FieldNodes(conds)
            node == Grouped("$or", nodes)
<1>1. IsSeq(nodes) /\ Len(nodes) = Len(conds) /\ ToSet(nodes) = {FieldNode(c) : c \in ToSet(conds)}
  BY FieldNodesRange
<1>2. CASE Len(nodes) = 1
  <2>1. node = nodes[1]
    BY <1>2 DEF Grouped
  <2>2. conds[1] \in ToSet(conds) /\ nodes[1] = FieldNode(conds[1]) /\ ToSet(conds) = {conds[1]}
    <3>1. DOMAIN conds = 1..1
      BY <1>1, <1>2, SeqDomain
    <3>. QED  BY <3>1 DEF ToSet, FieldNodes
  <2>3. HoldSome(r, ToSet(conds)) <=> Holds(r, conds[1])
    BY <2>2 DEF HoldSome
  <2>. QED  BY <2>1, <2>2, <2>3, OneFieldNode, Zenon
<1>3. CASE Len(nodes) # 1
  <2>1. node = GroupNode("$or", nodes)
    BY <1>3 DEF Grouped
  <2>2. \A c \in ToSet(conds) :
          /\ Node0(r, FieldNode(c), "$or") <=> Holds(r, c)
          /\ Node1(r, FieldNode(c), "$or") <=> Holds(r, c)
          /\ Node2(r, FieldNode(c), "$or") <=> Holds(r, c)
          /\ Node3(r, FieldNode(c), "$or") <=> Holds(r, c)
    BY OneFieldNode
  <2>. HIDE DEF nodes, node
  <2>3. /\ (\E n \in ToSet(nodes) : Node0(r, n, "$or")) <=> HoldSome(r, ToSet(conds))
        /\ (\E n \in ToSet(nodes) : Node1(r, n, "$or")) <=> HoldSome(r, ToSet(conds))
        /\ (\E n \in ToSet(nodes) : Node2(r, n, "$or")) <=> HoldSome(r, ToSet(conds))
        /\ (\E n \in ToSet(nodes) : Node3(r, n, "$or")) <=> HoldSome(r, ToSet(conds))
    BY <1>1, <2>2 DEF HoldSome
  <2>4. /\ Node1(r, node, mode) <=> HoldSome(r, ToSet(conds))
        /\ Node2(r, node, mode) <=> HoldSome(r, ToSet(conds))
        /\ Node3(r, node, mode) <=> HoldSome(r, ToSet(conds))
        /\ Node4(r, node, mode) <=> HoldSome(r, ToSet(conds))
    BY <2>1, <2>3, OrGroup, Zenon
  <2>. QED  BY <2>4, Zenon DEF node, nodes
<1>. QED  BY <1>2, <1>3, Zenon

-----------------------------------------------------------------------------
(* The WHERE clause: auth around what the request asks for.                *)

\* Two groups deep and no deeper: the tree reads the same at every depth.
Shallow(r, node) ==
    /\ Node3(r, node, "$and") <=> Node2(r, node, "$and")
    /\ Node4(r, node, "$and") <=> Node2(r, node, "$and")

AllTrue(r, nodes) == \A node \in ToSet(nodes) : Node2(r, node, "$and")

LEMMA FlatTruth ==
    ASSUME NEW r, NEW node, Flat(node)
    PROVE  /\ Node2(r, node, "$and") <=> HoldAll(r, NodeConditions0(node))
           /\ Node3(r, node, "$and") <=> HoldAll(r, NodeConditions0(node))
           /\ Node4(r, node, "$and") <=> HoldAll(r, NodeConditions0(node))
           /\ Node3(r, node, "$or") <=> HoldSome(r, NodeConditions0(node))
<1>1. /\ Node2(r, node, "$and") = Node0(r, node, "$and")
      /\ Node3(r, node, "$and") = Node0(r, node, "$and")
      /\ Node4(r, node, "$and") = Node0(r, node, "$and")
      /\ Node3(r, node, "$or") = Node0(r, node, "$or")
  BY FlatNodes
<1>2. /\ Node0(r, node, "$and") <=> HoldAll(r, NodeConditions0(node))
      /\ Node0(r, node, "$or") <=> HoldSome(r, NodeConditions0(node))
  BY FlatNode0
<1>. QED  BY <1>1, <1>2

LEMMA FlatIsShallow ==
    ASSUME NEW r, NEW node, Flat(node)
    PROVE  Shallow(r, node) /\ (Node2(r, node, "$and") <=> HoldAll(r, NodeConditions0(node)))
BY FlatTruth, Zenon DEF Shallow

LEMMA EmptyNode ==
    ASSUME NEW r
    PROVE  Flat(<<>>) /\ HoldAll(r, NodeConditions0(<<>>)) /\ ~HoldSome(r, NodeConditions0(<<>>))
BY DEF Flat, HoldAll, HoldSome, NodeConditions0

\* A group of at least one node, with $and.
LEMMA AndedNodes ==
    ASSUME NEW r, NEW nodes, IsSeq(nodes), nodes # <<>>, \A node \in ToSet(nodes) : Shallow(r, node)
    PROVE  /\ Node4(r, Grouped("$and", nodes), "$and") <=> AllTrue(r, nodes)
           /\ Node3(r, GroupNode("$and", nodes), "$or") <=> AllTrue(r, nodes)
<1>1. Node3(r, GroupNode("$and", nodes), "$or") <=> AllTrue(r, nodes)
  BY AndGroup, Zenon DEF AllTrue
<1>2. CASE Len(nodes) = 1
  <2>1. DOMAIN nodes = 1..1
    BY <1>2, SeqDomain
  <2>2. ToSet(nodes) = {nodes[1]} /\ Grouped("$and", nodes) = nodes[1]
    BY <1>2, <2>1 DEF ToSet, Grouped
  <2>3. AllTrue(r, nodes) <=> Node2(r, nodes[1], "$and")
    BY <2>2 DEF AllTrue
  <2>4. Shallow(r, nodes[1])
    BY <2>2
  <2>. QED  BY <1>1, <2>2, <2>3, <2>4, Zenon DEF Shallow
<1>3. CASE Len(nodes) # 1
  <2>1. Grouped("$and", nodes) = GroupNode("$and", nodes)
    BY <1>3 DEF Grouped
  <2>2. Node4(r, GroupNode("$and", nodes), "$and")
            <=> \A node \in ToSet(nodes) : Node3(r, node, "$and")
    BY AndGroup
  <2>3. (\A node \in ToSet(nodes) : Node3(r, node, "$and")) <=> AllTrue(r, nodes)
    BY DEF AllTrue, Shallow
  <2>. QED  BY <1>1, <2>1, <2>2, <2>3, Zenon
<1>. QED  BY <1>2, <1>3, Zenon

\* auth.or widens what is asked for, if anything is; auth.filter narrows it.
LEMMA WithAuthTruth ==
    ASSUME NEW r, NEW and, IsSeq(and), \A node \in ToSet(and) : Shallow(r, node),
           NEW auth, {"filter", "or"} \subseteq DOMAIN auth, Flat(auth.or), Flat(auth.filter),
           NEW parsed, parsed.search = WithAuth(and, AuthContext(auth)), parsed.paramsFilter = <<>>
    PROVE  WhereHolds(parsed, r) <=>
              IF auth.or # <<>>
              THEN HoldSome(r, NodeConditions0(auth.or)) \/ (and # <<>> /\ AllTrue(r, and))
              ELSE HoldAll(r, NodeConditions0(auth.filter)) /\ AllTrue(r, and)
<1>1. CASE auth.or # <<>>
  <2>1. AuthContext(auth).or = auth.or
    BY <1>1 DEF AuthContext
  <2>. DEFINE nodes == IF and = <<>> THEN <<auth.or>> ELSE <<auth.or, GroupNode("$and", and)>>
  <2>2. parsed.search = GroupNode("$or", nodes) /\ parsed.search # <<>>
    BY <1>1, <2>1 DEF WithAuth, GroupNode
  <2>3. WhereHolds(parsed, r) <=> Node4(r, GroupNode("$or", nodes), "$and")
    BY <2>2 DEF WhereHolds, SearchHolds
  <2>4. WhereHolds(parsed, r) <=> \E node \in ToSet(nodes) : Node3(r, node, "$or")
    BY <2>3, OrGroup, Zenon
  <2>5. Node3(r, auth.or, "$or") <=> HoldSome(r, NodeConditions0(auth.or))
    BY FlatTruth, Zenon
  <2>6. CASE and = <<>>
    <3>1. ToSet(nodes) = {auth.or}
      BY <2>6 DEF ToSet
    <3>. QED  BY <1>1, <2>4, <2>5, <2>6, <3>1
  <2>7. CASE and # <<>>
    <3>1. ToSet(nodes) = {auth.or, GroupNode("$and", and)}
      <4>1. nodes = <<auth.or, GroupNode("$and", and)>>
        BY <2>7
      <4>. HIDE DEF nodes
      <4>2. DOMAIN nodes = 1..2 /\ nodes[1] = auth.or /\ nodes[2] = GroupNode("$and", and)
        BY <4>1
      <4>. QED  BY <4>2 DEF ToSet
    <3>2. Node3(r, GroupNode("$and", and), "$or") <=> AllTrue(r, and)
      BY <2>7, AndedNodes
    <3>. HIDE DEF nodes
    <3>3. WhereHolds(parsed, r) <=> Node3(r, auth.or, "$or") \/ Node3(r, GroupNode("$and", and), "$or")
      BY <2>4, <3>1
    <3>. QED  BY <1>1, <2>5, <2>7, <3>2, <3>3
  <2>. QED  BY <2>6, <2>7
<1>2. CASE auth.or = <<>>
  <2>1. AuthContext(auth) = auth
    BY <1>2 DEF AuthContext
  <2>. DEFINE all == IF auth.filter # <<>> THEN <<auth.filter>> \o and ELSE and
  <2>2. parsed.search = IF all = <<>> THEN <<>> ELSE Grouped("$and", all)
    BY <1>2, <2>1 DEF WithAuth
  <2>3. IsSeq(all)
    BY SingleIsSeq, ConcatIsSeq
  <2>4. \A node \in ToSet(all) : Shallow(r, node)
    <3>1. ToSet(<<auth.filter>> \o and) = {auth.filter} \cup ToSet(and)
      <4>1. ToSet(<<auth.filter>>) = {auth.filter}
        BY DEF ToSet
      <4>. QED  BY <4>1, SingleIsSeq, ConcatRange
    <3>. QED  BY <3>1, FlatIsShallow
  <2>5. AllTrue(r, all) <=> HoldAll(r, NodeConditions0(auth.filter)) /\ AllTrue(r, and)
    <3>1. CASE auth.filter = <<>>
      BY <3>1, EmptyNode
    <3>2. CASE auth.filter # <<>>
      <4>1. ToSet(all) = {auth.filter} \cup ToSet(and)
        <5>1. ToSet(<<auth.filter>>) = {auth.filter}
          BY DEF ToSet
        <5>. QED  BY <3>2, <5>1, SingleIsSeq, ConcatRange
      <4>2. Node2(r, auth.filter, "$and") <=> HoldAll(r, NodeConditions0(auth.filter))
        BY FlatIsShallow
      <4>. HIDE DEF all
      <4>3. AllTrue(r, all) <=> Node2(r, auth.filter, "$and") /\ AllTrue(r, and)
        BY <4>1 DEF AllTrue
      <4>. QED  BY <4>2, <4>3
    <3>. QED  BY <3>1, <3>2
  <2>. HIDE DEF all
  <2>6. CASE all = <<>>
    <3>1. parsed.search = <<>> /\ WhereHolds(parsed, r)
      BY <2>2, <2>6 DEF WhereHolds
    <3>2. AllTrue(r, all)
      BY <2>6 DEF AllTrue, ToSet
    <3>. QED  BY <1>2, <2>5, <3>1, <3>2
  <2>7. CASE all # <<>>
    <3>1. parsed.search = Grouped("$and", all)
      BY <2>2, <2>7
    <3>2. parsed.search # <<>> \/ (Len(all) = 1 /\ all[1] = <<>>)
      <4>1. Len(all) # 1 => Grouped("$and", all) # <<>>
        BY DEF Grouped, GroupNode
      <4>2. Len(all) = 1 => Grouped("$and", all) = all[1]
        BY DEF Grouped
      <4>. QED  BY <3>1, <4>1, <4>2
    <3>3. Node4(r, parsed.search, "$and") <=> AllTrue(r, all)
      BY <2>3, <2>4, <2>7, <3>1, AndedNodes
    <3>4. WhereHolds(parsed, r) <=> Node4(r, parsed.search, "$and")
      <4>1. CASE parsed.search # <<>>
        BY <4>1 DEF WhereHolds, SearchHolds
      <4>2. CASE parsed.search = <<>>
        <5>1. WhereHolds(parsed, r)
          BY <4>2 DEF WhereHolds
        <5>2. Node4(r, <<>>, "$and") <=> HoldAll(r, NodeConditions0(<<>>))
          BY EmptyNode, FlatTruth, Zenon
        <5>. QED  BY <4>2, <5>1, <5>2, EmptyNode
      <4>. QED  BY <4>1, <4>2
    <3>. QED  BY <1>2, <2>5, <3>3, <3>4
  <2>. QED  BY <2>6, <2>7
<1>. QED  BY <1>1, <1>2

\* The tree of a nestjsx query: both groups are alternatives, each a bracket.
Asks(r, conds, any) ==
    \/ conds # {} /\ HoldAll(r, conds)
    \/ any # {} /\ (IF conds = {} THEN HoldSome(r, any) ELSE HoldAll(r, any))
    \/ conds = {} /\ any = {}

LEMMA TwoGroups ==
    ASSUME NEW r, NEW a, NEW b, NEW A \in BOOLEAN, NEW B \in BOOLEAN,
           /\ Node1(r, a, "$or") <=> A
           /\ Node2(r, a, "$or") <=> A
           /\ Node3(r, a, "$or") <=> A,
           /\ Node1(r, b, "$or") <=> B
           /\ Node2(r, b, "$or") <=> B
           /\ Node3(r, b, "$or") <=> B
    PROVE  /\ Shallow(r, GroupNode("$or", <<a, b>>))
           /\ Node2(r, GroupNode("$or", <<a, b>>), "$and") <=> A \/ B
<1>1. ToSet(<<a, b>>) = {a, b}
  <2>. DEFINE s == <<a, b>>
  <2>1. DOMAIN s = 1..2 /\ s[1] = a /\ s[2] = b
    OBVIOUS
  <2>. HIDE DEF s
  <2>2. ToSet(s) = {a, b}
    BY <2>1 DEF ToSet
  <2>. QED  BY <2>2 DEF s
<1>. DEFINE g == GroupNode("$or", <<a, b>>)
<1>2. /\ Node2(r, g, "$and") <=> \E node \in {a, b} : Node1(r, node, "$or")
      /\ Node3(r, g, "$and") <=> \E node \in {a, b} : Node2(r, node, "$or")
      /\ Node4(r, g, "$and") <=> \E node \in {a, b} : Node3(r, node, "$or")
  BY <1>1, OrGroup, Zenon
<1>. HIDE DEF g
<1>3. /\ Node2(r, g, "$and") <=> A \/ B
      /\ Node3(r, g, "$and") <=> A \/ B
      /\ Node4(r, g, "$and") <=> A \/ B
  BY <1>2
<1>. QED  BY <1>3 DEF Shallow, g

LEMMA QuerySearchTruth ==
    ASSUME NEW r, NEW q, q.s = <<>>, IsSeq(ParseFilters(q.filter)), IsSeq(ParseFilters(q.or))
    PROVE  /\ IsSeq(QuerySearch(q))
           /\ \A node \in ToSet(QuerySearch(q)) : Shallow(r, node)
           /\ QuerySearch(q) = <<>> <=>
                  ToSet(ParseFilters(q.filter)) = {} /\ ToSet(ParseFilters(q.or)) = {}
           /\ AllTrue(r, QuerySearch(q)) <=>
                  Asks(r, ToSet(ParseFilters(q.filter)), ToSet(ParseFilters(q.or)))
<1>. DEFINE F == ParseFilters(q.filter)
            O == ParseFilters(q.or)
            tree == QuerySearch(q)
<1>1. /\ FieldNodes(F) # <<>> /\ FieldNodes(O) # <<>> => tree =
              <<GroupNode("$or", <<Grouped("$and", FieldNodes(F)), Grouped("$and", FieldNodes(O))>>)>>
      /\ FieldNodes(F) # <<>> /\ FieldNodes(O) = <<>> => tree = <<Grouped("$and", FieldNodes(F))>>
      /\ FieldNodes(F) = <<>> /\ FieldNodes(O) # <<>> => tree = <<Grouped("$or", FieldNodes(O))>>
      /\ FieldNodes(F) = <<>> /\ FieldNodes(O) = <<>> => tree = <<>>
  <2>. DEFINE x == <<GroupNode("$or", <<Grouped("$and", FieldNodes(F)), Grouped("$and", FieldNodes(O))>>)>>
              y == <<Grouped("$and", FieldNodes(F))>>
              z == <<Grouped("$or", FieldNodes(O))>>
              f == FieldNodes(F)
              o == FieldNodes(O)
  <2>1. tree = IF f # <<>> /\ o # <<>> THEN x ELSE IF f # <<>> THEN y ELSE IF o # <<>> THEN z ELSE <<>>
    BY DEF QuerySearch
  <2>. HIDE DEF tree, f, o, x, y, z
  <2>2. /\ f # <<>> /\ o # <<>> => tree = x
        /\ f # <<>> /\ o = <<>> => tree = y
        /\ f = <<>> /\ o # <<>> => tree = z
        /\ f = <<>> /\ o = <<>> => tree = <<>>
    BY <2>1
  <2>. QED  BY <2>2 DEF f, o, x, y, z
<1>2. (FieldNodes(F) = <<>> <=> F = <<>>) /\ (FieldNodes(O) = <<>> <=> O = <<>>)
  BY FieldNodesRange
<1>3. (F = <<>> <=> ToSet(F) = {}) /\ (O = <<>> <=> ToSet(O) = {})
  BY EmptyRange
<1>4. IsSeq(tree)
  BY QuerySearchSeq
<1>. HIDE DEF F, O, tree
<1>. SUFFICES /\ \A node \in ToSet(tree) : Shallow(r, node)
              /\ tree = <<>> <=> ToSet(F) = {} /\ ToSet(O) = {}
              /\ AllTrue(r, tree) <=> Asks(r, ToSet(F), ToSet(O))
  BY <1>4 DEF F, O, tree
<1>5. ASSUME NEW x, tree = <<x>>
      PROVE  /\ tree # <<>> /\ ToSet(tree) = {x}
             /\ AllTrue(r, tree) <=> Node2(r, x, "$and")
  <2>1. ToSet(tree) = {x}
    BY <1>5 DEF ToSet
  <2>. QED  BY <1>5, <2>1 DEF AllTrue
<1>6. CASE F # <<>> /\ O # <<>>
  <2>. DEFINE x == GroupNode("$or", <<Grouped("$and", FieldNodes(F)), Grouped("$and", FieldNodes(O))>>)
  <2>1. tree = <<x>>
    BY <1>1, <1>2, <1>6
  <2>2. HoldAll(r, ToSet(F)) \in BOOLEAN /\ HoldAll(r, ToSet(O)) \in BOOLEAN
    BY DEF HoldAll
  <2>3. IsSeq(F) /\ IsSeq(O)
    BY DEF F, O
  <2>4. /\ Node1(r, Grouped("$and", FieldNodes(F)), "$or") <=> HoldAll(r, ToSet(F))
        /\ Node2(r, Grouped("$and", FieldNodes(F)), "$or") <=> HoldAll(r, ToSet(F))
        /\ Node3(r, Grouped("$and", FieldNodes(F)), "$or") <=> HoldAll(r, ToSet(F))
    BY <1>6, <2>3, AndedFields
  <2>5. /\ Node1(r, Grouped("$and", FieldNodes(O)), "$or") <=> HoldAll(r, ToSet(O))
        /\ Node2(r, Grouped("$and", FieldNodes(O)), "$or") <=> HoldAll(r, ToSet(O))
        /\ Node3(r, Grouped("$and", FieldNodes(O)), "$or") <=> HoldAll(r, ToSet(O))
    BY <1>6, <2>3, AndedFields
  <2>6. Shallow(r, x) /\ (Node2(r, x, "$and") <=> HoldAll(r, ToSet(F)) \/ HoldAll(r, ToSet(O)))
    BY <2>2, <2>4, <2>5, TwoGroups, Zenon
  <2>. HIDE DEF x
  <2>7. ToSet(F) # {} /\ ToSet(O) # {}
    BY <1>3, <1>6
  <2>8. Asks(r, ToSet(F), ToSet(O)) <=> HoldAll(r, ToSet(F)) \/ HoldAll(r, ToSet(O))
    BY <2>7 DEF Asks
  <2>. QED  BY <1>5, <2>1, <2>6, <2>7, <2>8
<1>7. CASE F # <<>> /\ O = <<>>
  <2>. DEFINE x == Grouped("$and", FieldNodes(F))
  <2>1. tree = <<x>>
    BY <1>1, <1>2, <1>7
  <2>2. IsSeq(F)
    BY DEF F
  <2>3. Shallow(r, x) /\ (Node2(r, x, "$and") <=> HoldAll(r, ToSet(F)))
    BY <1>7, <2>2, AndedFields, Zenon DEF Shallow
  <2>4. ToSet(F) # {} /\ ToSet(O) = {}
    BY <1>3, <1>7
  <2>5. Asks(r, ToSet(F), ToSet(O)) <=> HoldAll(r, ToSet(F))
    BY <2>4 DEF Asks
  <2>. HIDE DEF x
  <2>. QED  BY <1>5, <2>1, <2>3, <2>4, <2>5
<1>8. CASE F = <<>> /\ O # <<>>
  <2>. DEFINE x == Grouped("$or", FieldNodes(O))
  <2>1. tree = <<x>>
    BY <1>1, <1>2, <1>8
  <2>2. IsSeq(O)
    BY DEF O
  <2>3. Shallow(r, x) /\ (Node2(r, x, "$and") <=> HoldSome(r, ToSet(O)))
    BY <1>8, <2>2, OredFields, Zenon DEF Shallow
  <2>4. ToSet(F) = {} /\ ToSet(O) # {}
    BY <1>3, <1>8
  <2>5. Asks(r, ToSet(F), ToSet(O)) <=> HoldSome(r, ToSet(O))
    BY <2>4 DEF Asks
  <2>. HIDE DEF x
  <2>. QED  BY <1>5, <2>1, <2>3, <2>4, <2>5
<1>9. CASE F = <<>> /\ O = <<>>
  <2>1. tree = <<>>
    BY <1>1, <1>2, <1>9
  <2>2. ToSet(tree) = {}
    BY <2>1 DEF ToSet
  <2>3. ToSet(F) = {} /\ ToSet(O) = {}
    BY <1>3, <1>9
  <2>. QED  BY <2>1, <2>2, <2>3 DEF AllTrue, Asks
<1>. QED  BY <1>6, <1>7, <1>8, <1>9

-----------------------------------------------------------------------------
(* buildCondition runs on every condition of the tree.                     *)

LEMMA DeeperConditions ==
    /\ \A n : NodeConditions0(n) \subseteq NodeConditions1(n)
    /\ \A n : NodeConditions1(n) \subseteq NodeConditions2(n)
    /\ \A n : NodeConditions2(n) \subseteq NodeConditions3(n)
<1>1. \A n : NodeConditions0(n) \subseteq NodeConditions1(n)
  BY DEF NodeConditions0, NodeConditions1
<1>2. \A n : NodeConditions1(n) \subseteq NodeConditions2(n)
  BY <1>1 DEF NodeConditions1, NodeConditions2
<1>3. \A n : NodeConditions2(n) \subseteq NodeConditions3(n)
  BY <1>2 DEF NodeConditions2, NodeConditions3
<1>. QED  BY <1>1, <1>2, <1>3

LEMMA GroupConditions ==
    ASSUME NEW k, NEW nodes, NEW node \in ToSet(nodes)
    PROVE  /\ NodeConditions0(node) \subseteq NodeConditions1(GroupNode(k, nodes))
           /\ NodeConditions1(node) \subseteq NodeConditions2(GroupNode(k, nodes))
           /\ NodeConditions2(node) \subseteq NodeConditions3(GroupNode(k, nodes))
           /\ NodeConditions3(node) \ {NoCondition} \subseteq Conditions(GroupNode(k, nodes))
<1>. DEFINE g == GroupNode(k, nodes)
<1>1. 1 \in DOMAIN g /\ g[1].kids = nodes
  BY DEF GroupNode
<1>. HIDE DEF g
<1>2. NodeConditions0(node) \subseteq NodeConditions1(g)
  BY <1>1 DEF NodeConditions1
<1>3. NodeConditions1(node) \subseteq NodeConditions2(g)
  BY <1>1 DEF NodeConditions2
<1>4. NodeConditions2(node) \subseteq NodeConditions3(g)
  BY <1>1 DEF NodeConditions3
<1>5. ASSUME NEW c \in NodeConditions3(node), c # NoCondition PROVE c \in Conditions(g)
  <2>1. c \in UNION {NodeConditions3(kid) : kid \in ToSet(g[1].kids)}
    BY <1>1
  <2>. DEFINE part(i) == {g[i].cond} \cup UNION {NodeConditions3(kid) : kid \in ToSet(g[i].kids)}
  <2>2. c \in part(1)
    BY <2>1
  <2>. DEFINE parts == {part(i) : i \in DOMAIN g}
  <2>3. Conditions(g) = (UNION parts) \ {NoCondition}
    BY Zenon DEF Conditions
  <2>4. part(1) \in parts
    BY <1>1, Zenon
  <2>. HIDE DEF part, parts
  <2>. QED  BY <1>5, <2>2, <2>3, <2>4
<1>. QED  BY <1>2, <1>3, <1>4, <1>5 DEF g

LEMMA GroupedConditions ==
    ASSUME NEW k, NEW conds, IsSeq(conds), NEW c \in ToSet(conds)
    PROVE  c \in NodeConditions1(Grouped(k, FieldNodes(conds)))
<1>1. c \in NodeConditions0(FieldNode(c))
  BY DEF NodeConditions0, FieldNode
<1>2. /\ FieldNode(c) \in ToSet(FieldNodes(conds)) /\ IsSeq(FieldNodes(conds))
  BY FieldNodesRange
<1>3. CASE Len(FieldNodes(conds)) = 1
  <2>1. ToSet(FieldNodes(conds)) = {FieldNodes(conds)[1]}
    BY <1>2, <1>3, SeqDomain DEF ToSet
  <2>2. Grouped(k, FieldNodes(conds)) = FieldNode(c)
    BY <1>2, <1>3, <2>1 DEF Grouped
  <2>. QED  BY <1>1, <2>2, DeeperConditions
<1>4. CASE Len(FieldNodes(conds)) # 1
  <2>1. Grouped(k, FieldNodes(conds)) = GroupNode(k, FieldNodes(conds))
    BY <1>4 DEF Grouped
  <2>. QED  BY <1>1, <1>2, <2>1, GroupConditions
<1>. QED  BY <1>3, <1>4

LEMMA QuerySearchConditions ==
    ASSUME NEW q, q.s = <<>>, IsSeq(ParseFilters(q.filter)), IsSeq(ParseFilters(q.or)),
           NEW c \in ToSet(ParseFilters(q.filter)) \cup ToSet(ParseFilters(q.or))
    PROVE  \E node \in ToSet(QuerySearch(q)) : c \in NodeConditions2(node)
<1>. DEFINE F == ParseFilters(q.filter)
            O == ParseFilters(q.or)
            A == Grouped("$and", FieldNodes(F))
            B == Grouped("$and", FieldNodes(O))
            C == Grouped("$or", FieldNodes(O))
            tree == QuerySearch(q)
<1>1. /\ FieldNodes(F) # <<>> /\ FieldNodes(O) # <<>> => tree = <<GroupNode("$or", <<A, B>>)>>
      /\ FieldNodes(F) # <<>> /\ FieldNodes(O) = <<>> => tree = <<A>>
      /\ FieldNodes(F) = <<>> /\ FieldNodes(O) # <<>> => tree = <<C>>
      /\ FieldNodes(F) = <<>> /\ FieldNodes(O) = <<>> => tree = <<>>
  <2>. DEFINE f == FieldNodes(F)
              o == FieldNodes(O)
              x == <<GroupNode("$or", <<A, B>>)>>
  <2>1. tree = IF f # <<>> /\ o # <<>> THEN x ELSE IF f # <<>> THEN <<A>>
                ELSE IF o # <<>> THEN <<C>> ELSE <<>>
    BY DEF QuerySearch
  <2>. HIDE DEF tree, f, o, x, A, B, C
  <2>2. /\ f # <<>> /\ o # <<>> => tree = x
        /\ f # <<>> /\ o = <<>> => tree = <<A>>
        /\ f = <<>> /\ o # <<>> => tree = <<C>>
        /\ f = <<>> /\ o = <<>> => tree = <<>>
    BY <2>1
  <2>. QED  BY <2>2 DEF f, o, x
<1>2. (FieldNodes(F) = <<>> <=> ToSet(F) = {}) /\ (FieldNodes(O) = <<>> <=> ToSet(O) = {})
  BY FieldNodesRange, EmptyRange
<1>3. /\ c \in ToSet(F) => c \in NodeConditions1(A)
      /\ c \in ToSet(O) => c \in NodeConditions1(B) /\ c \in NodeConditions1(C)
  BY GroupedConditions
<1>4. A \in ToSet(<<A, B>>) /\ B \in ToSet(<<A, B>>)
  <2>. HIDE DEF A, B
  <2>1. 1 \in DOMAIN <<A, B>> /\ 2 \in DOMAIN <<A, B>>
    OBVIOUS
  <2>2. <<A, B>>[1] = A /\ <<A, B>>[2] = B
    OBVIOUS
  <2>. QED  BY <2>1, <2>2, Zenon DEF ToSet
<1>5. /\ NodeConditions1(A) \subseteq NodeConditions2(GroupNode("$or", <<A, B>>))
      /\ NodeConditions1(B) \subseteq NodeConditions2(GroupNode("$or", <<A, B>>))
  BY <1>4, GroupConditions, Zenon
<1>. HIDE DEF A, B, C
<1>6. \A x : tree = <<x>> => x \in ToSet(tree)
  <2>. SUFFICES ASSUME NEW x PROVE x \in ToSet(<<x>>)
    OBVIOUS
  <2>. QED  BY DEF ToSet
<1>7. c \in ToSet(F) \/ c \in ToSet(O)
  OBVIOUS
<1>. HIDE DEF F, O, tree
<1>8. CASE ToSet(F) # {} /\ ToSet(O) # {}
  <2>1. GroupNode("$or", <<A, B>>) \in ToSet(tree)
    BY <1>1, <1>2, <1>6, <1>8
  <2>2. c \in NodeConditions2(GroupNode("$or", <<A, B>>))
    BY <1>3, <1>5, <1>7
  <2>. QED  BY <2>1, <2>2, Zenon DEF tree
<1>9. CASE ToSet(F) # {} /\ ToSet(O) = {}
  <2>1. A \in ToSet(tree)
    BY <1>1, <1>2, <1>6, <1>9
  <2>2. c \in NodeConditions2(A)
    BY <1>3, <1>7, <1>9, DeeperConditions
  <2>. QED  BY <2>1, <2>2, Zenon DEF tree
<1>10. CASE ToSet(F) = {}
  <2>1. ToSet(O) # {}
    BY <1>7, <1>10
  <2>2. C \in ToSet(tree)
    BY <1>1, <1>2, <1>6, <1>10, <2>1
  <2>3. c \in NodeConditions2(C)
    BY <1>3, <1>7, <1>10, DeeperConditions
  <2>. QED  BY <2>2, <2>3, Zenon DEF tree
<1>. QED  BY <1>8, <1>9, <1>10

LEMMA WithAuthConditions ==
    ASSUME NEW and, IsSeq(and), NEW node \in ToSet(and), NEW c \in NodeConditions2(node),
           c # NoCondition, NEW auth, {"filter", "or"} \subseteq DOMAIN auth,
           NEW parsed, parsed.search = WithAuth(and, AuthContext(auth))
    PROVE  c \in WhereConditions(parsed)
<1>1. c \in NodeConditions3(node)
  BY DeeperConditions
<1>2. c \in Conditions(parsed.search)
  <2>1. CASE auth.or # <<>>
    <3>1. AuthContext(auth).or = auth.or
      BY <2>1 DEF AuthContext
    <3>2. and # <<>>
      BY EmptyRange
    <3>. DEFINE nodes == <<auth.or, GroupNode("$and", and)>>
    <3>3. parsed.search = GroupNode("$or", nodes)
      BY <2>1, <3>1, <3>2 DEF WithAuth
    <3>4. GroupNode("$and", and) \in ToSet(nodes)
      <4>. DEFINE x == GroupNode("$and", and)
                  y == auth.or
      <4>. HIDE DEF x, y
      <4>1. 2 \in DOMAIN <<y, x>> /\ <<y, x>>[2] = x
        OBVIOUS
      <4>2. x \in ToSet(<<y, x>>)
        BY <4>1, Zenon DEF ToSet
      <4>. QED  BY <4>2 DEF x, y
    <3>5. c \in NodeConditions3(GroupNode("$and", and))
      BY GroupConditions
    <3>. HIDE DEF nodes
    <3>. QED  BY <3>3, <3>4, <3>5, GroupConditions
  <2>2. CASE auth.or = <<>>
    <3>1. AuthContext(auth) = auth
      BY <2>2 DEF AuthContext
    <3>. DEFINE all == IF auth.filter # <<>> THEN <<auth.filter>> \o and ELSE and
    <3>2. IsSeq(all) /\ node \in ToSet(all)
      BY SingleIsSeq, ConcatIsSeq, ConcatRange
    <3>3. all # <<>>
      BY <3>2, EmptyRange
    <3>4. parsed.search = Grouped("$and", all)
      BY <2>2, <3>1, <3>3 DEF WithAuth
    <3>. HIDE DEF all
    <3>5. CASE Len(all) = 1
      <4>1. ToSet(all) = {all[1]}
        BY <3>2, <3>5, SeqDomain DEF ToSet
      <4>2. parsed.search = node
        BY <3>2, <3>4, <3>5, <4>1 DEF Grouped
      <4>3. c \in Conditions(node)
        <5>1. \A n : NodeConditions1(n) \subseteq NodeConditions3(n)
          BY DeeperConditions
        <5>2. PICK i \in DOMAIN node :
                c = node[i].cond \/ \E kid \in ToSet(node[i].kids) : c \in NodeConditions1(kid)
          BY DEF NodeConditions2
        <5>. DEFINE part(j) == {node[j].cond} \cup UNION {NodeConditions3(kid) : kid \in ToSet(node[j].kids)}
        <5>3. c \in part(i)
          BY <5>1, <5>2
        <5>. DEFINE parts == {part(j) : j \in DOMAIN node}
        <5>4. Conditions(node) = (UNION parts) \ {NoCondition}
          BY Zenon DEF Conditions
        <5>5. part(i) \in parts
          BY Zenon
        <5>. HIDE DEF part, parts
        <5>. QED  BY <5>3, <5>4, <5>5
      <4>. QED  BY <4>2, <4>3
    <3>6. CASE Len(all) # 1
      <4>1. parsed.search = GroupNode("$and", all)
        BY <3>4, <3>6 DEF Grouped
      <4>. QED  BY <1>1, <3>2, <4>1, GroupConditions
    <3>. QED  BY <3>5, <3>6
  <2>. QED  BY <2>1, <2>2
<1>3. parsed.search # <<>>
  BY <1>2 DEF Conditions
<1>. QED  BY <1>2, <1>3 DEF WhereConditions

-----------------------------------------------------------------------------
(* A condition written by a client and read by a server.                   *)

NullOps == {"$isnull", "$notnull"}

MemberOps == {"$in", "$notin"}

OrderOps == {"$eq", "$ne", "$gt", "$gte", "$lt", "$lte"}

LikeOps == {"$starts", "$ends", "$cont"}

LEMMA WritableShape ==
    ASSUME NEW c, Writable(c)
    PROVE  /\ c = [field |-> c.field, op |-> c.op, args |-> c.args, shape |-> "exact"]
           /\ c.field = <<c.field[1], c.field[2]>> /\ c.field[1] \in {<<>>, AskedPath}
           /\ c.op \in NullOps \cup MemberOps \cup OrderOps \cup LikeOps
           /\ c.op \in NullOps => c.args = <<Null>>
           /\ c.op \in MemberOps => /\ c.args \in Seq(Val \ {NullText}) /\ c.args # <<>>
                                    /\ SplitText(c.args) = c.args
           /\ c.op \in OrderOps \cup LikeOps => /\ c.args = <<c.args[1]>>
                                                /\ c.args[1] \in Val \cup {Null}
                                                /\ c.args[1] # NullText
           /\ c # NoCondition
<1>1. c = [field |-> <<c.field[1], c.field[2]>>, op |-> c.op, args |-> c.args, shape |-> "exact"]
  BY DEF Writable, Condition
<1>2. c.field = <<c.field[1], c.field[2]>>
  BY <1>1
<1>3. c.op \in NullOps \cup MemberOps \cup OrderOps \cup LikeOps
  BY DEF Writable, NullOps, MemberOps, OrderOps, LikeOps
<1>4. c.op # ""
  BY <1>3 DEF NullOps, MemberOps, OrderOps, LikeOps
<1>5. c # NoCondition
  <2>1. NoCondition.op = ""
    BY DEF NoCondition, Condition
  <2>. QED  BY <1>4, <2>1
<1>6. c.field[1] \in {<<>>, AskedPath}
  BY DEF Writable
<1>7. c.op \in NullOps => c.args = <<Null>>
  BY DEF Writable, NullOps
<1>8. c.op \in MemberOps => /\ c.args \in Seq(Val \ {NullText}) /\ c.args # <<>>
                            /\ SplitText(c.args) = c.args
  BY DEF Writable, MemberOps
<1>9. c.op \in OrderOps \cup LikeOps => /\ c.args = <<c.args[1]>>
                                        /\ c.args[1] \in Val \cup {Null}
                                        /\ c.args[1] # NullText
  BY DEF Writable, OrderOps, LikeOps
<1>. QED  BY <1>1, <1>2, <1>3, <1>5, <1>6, <1>7, <1>8, <1>9

LEMMA ListText ==
    ASSUME NEW args \in Seq(Val \ {NullText}), args # <<>>
    PROVE  /\ [i \in DOMAIN args |-> Text(args[i])] = args
           /\ [i \in DOMAIN args |-> Coerce(args[i])] = args
           /\ args # <<NullText>>
<1>1. args \in [1..Len(args) -> Val \ {NullText}] /\ DOMAIN args = 1..Len(args) /\ Len(args) \in Nat
  BY LenProperties
<1>2. \A x \in Val \ {NullText} : Text(x) = x /\ Coerce(x) = x
  BY SearchTreeAssumption DEF Text, Coerce
<1>3. [i \in DOMAIN args |-> Text(args[i])] = args /\ [i \in DOMAIN args |-> Coerce(args[i])] = args
  BY <1>1, <1>2
<1>4. args # <<NullText>>
  <2>1. 1 \in DOMAIN args
    BY <1>1, EmptySeq
  <2>2. args[1] # NullText
    BY <1>1, <2>1
  <2>. QED  BY <2>2
<1>. QED  BY <1>3, <1>4

LEMMA ScalarText ==
    ASSUME NEW x \in Val \cup {Null}, x # NullText
    PROVE  /\ [i \in DOMAIN <<x>> |-> Text((<<x>>)[i])] = <<Text(x)>>
           /\ [i \in DOMAIN <<Text(x)>> |-> Coerce((<<Text(x)>>)[i])] = <<x>>
           /\ Text(x) = NullText <=> x = Null
           /\ Text(x) # NullText => Text(x) = x
           /\ Text(Text(x)) = Text(x)
<1>1. \A y : DOMAIN <<y>> = 1..1 /\ (<<y>>)[1] = y
  OBVIOUS
<1>2. Coerce(Text(x)) = x /\ Text(Text(x)) = Text(x)
  BY SearchTreeAssumption DEF Coerce, Text
<1>3. (Text(x) = NullText <=> x = Null) /\ (Text(x) # NullText => Text(x) = x)
  BY DEF Text
<1>4. [i \in DOMAIN <<x>> |-> Text((<<x>>)[i])] = <<Text(x)>>
  OBVIOUS
<1>. DEFINE y == Text(x)
<1>. HIDE DEF y
<1>5. [i \in DOMAIN <<y>> |-> Coerce((<<y>>)[i])] = <<Coerce(y)>>
  OBVIOUS
<1>6. [i \in DOMAIN <<y>> |-> Coerce((<<y>>)[i])] = <<x>>
  BY <1>2, <1>5 DEF y
<1>. QED  BY <1>2, <1>3, <1>4, <1>6 DEF y

\* field||op||text and back.
LEMMA ReadBack ==
    ASSUME NEW c, Writable(c)
    PROVE  ParseFilterCondition(FilterToken(c)) = c /\ ~FilterRejected(FilterToken(c))
<1>. DEFINE text == [i \in DOMAIN c.args |-> Text(c.args[i])]
            token == FilterToken(c)
<1>1. /\ c = [field |-> c.field, op |-> c.op, args |-> c.args, shape |-> "exact"]
      /\ c.op \in NullOps \cup MemberOps \cup OrderOps \cup LikeOps
  BY WritableShape
<1>2. c.op \in LongOps /\ c.op \notin NamedOps /\ NormalizeOperator(c.op) = c.op
  BY <1>1 DEF NullOps, MemberOps, OrderOps, LikeOps, LongOps, NamedOps, NormalizeOperator
<1>3. CASE c.op \in NullOps
  <2>1. token = [field |-> c.field, op |-> c.op, parts |-> 2, text |-> <<>>]
    BY <1>3 DEF FilterToken, NullOps, ValuelessOps
  <2>. HIDE DEF token
  <2>2. ParseFilterCondition(token) = Condition(c.field, c.op, <<Null>>)
    BY <1>2, <2>1 DEF ParseFilterCondition
  <2>3. c.args = <<Null>>
    BY <1>3, WritableShape
  <2>4. ~FilterRejected(token)
    BY <1>2, <1>3, <2>1 DEF FilterRejected, NullOps
  <2>. QED  BY <1>1, <2>2, <2>3, <2>4 DEF Condition, token
<1>4. CASE c.op \notin NullOps
  <2>1. token = [field |-> c.field, op |-> c.op, parts |-> 3, text |-> text]
    <3>1. c.op \notin ValuelessOps
      BY <1>1, <1>4 DEF NullOps, MemberOps, OrderOps, LikeOps, ValuelessOps
    <3>. QED  BY <3>1 DEF FilterToken
  <2>. HIDE DEF token, text
  <2>2. ParseFilterCondition(token) = Condition(c.field, c.op, ParseValue(text, c.op))
    BY <1>2, <2>1 DEF ParseFilterCondition
  <2>3. ~(text = <<>>) /\ ParseValue(text, c.op) = c.args
    <3>1. CASE c.op \in MemberOps
      <4>1. c.args \in Seq(Val \ {NullText}) /\ c.args # <<>> /\ SplitText(c.args) = c.args
        BY <3>1, WritableShape
      <4>2. text = c.args /\ text # <<NullText>>
        BY <4>1, ListText DEF text
      <4>3. c.op \in ListOps
        BY <3>1 DEF MemberOps, ListOps, ArrayOps
      <4>4. ParseValue(c.args, c.op) = SplitText(c.args)
        BY <4>1, <4>2, <4>3 DEF ParseValue
      <4>. QED  BY <4>1, <4>2, <4>4
    <3>2. CASE c.op \in OrderOps \cup LikeOps
      <4>. DEFINE x == c.args[1]
      <4>1. c.args = <<x>> /\ x \in Val \cup {Null} /\ x # NullText
        BY <3>2, WritableShape
      <4>2. c.op \notin ListOps
        BY <3>2 DEF OrderOps, LikeOps, ListOps, ArrayOps
      <4>3. text = <<Text(x)>>
        <5>1. text = [i \in DOMAIN <<x>> |-> Text((<<x>>)[i])]
          BY <4>1 DEF text
        <5>. HIDE DEF x
        <5>. QED  BY <4>1, <5>1, ScalarText
      <4>. HIDE DEF x
      <4>4. CASE x = Null
        <5>1. text = <<NullText>>
          BY <4>3, <4>4 DEF Text
        <5>. QED  BY <4>1, <4>2, <4>4, <5>1 DEF ParseValue
      <4>5. CASE x # Null
        <5>1. text = <<x>> /\ <<x>> # <<NullText>> /\ <<x>> # <<>>
          BY <4>1, <4>3, <4>5 DEF Text
        <5>. QED  BY <4>1, <4>2, <5>1 DEF ParseValue
      <4>. QED  BY <4>4, <4>5
    <3>. QED  BY <1>1, <1>4, <3>1, <3>2
  <2>4. ~FilterRejected(token)
    BY <1>2, <2>1, <2>3 DEF FilterRejected
  <2>. QED  BY <1>1, <2>2, <2>3, <2>4 DEF Condition, token
<1>. QED  BY <1>3, <1>4

LEMMA ReadBackAll ==
    ASSUME NEW conds, IsSeq(conds), \A i \in DOMAIN conds : Writable(conds[i])
    PROVE  ParseFilters(FilterTokens(conds)) = conds
<1>1. conds \in [1..Len(conds) -> ToSet(conds)] /\ DOMAIN conds = 1..Len(conds)
  BY SeqDomain, LenProperties
<1>2. DOMAIN FilterTokens(conds) = DOMAIN conds
  BY DEF FilterTokens
<1>3. \A i \in DOMAIN conds : ParseFilterCondition(FilterTokens(conds)[i]) = conds[i]
  BY ReadBack DEF FilterTokens
<1>4. ParseFilters(FilterTokens(conds)) = [i \in DOMAIN conds |-> conds[i]]
  BY <1>2, <1>3 DEF ParseFilters
<1>. QED  BY <1>1, <1>4

\* col=op.value and back: the same condition, except that the three ways of
\* beginning, ending and containing become a pattern.
Reread(c) == ParseColumnFilter(ClientFilter(c))

Methods ==
    {<<"$eq", "eq">>, <<"$ne", "neq">>, <<"$gt", "gt">>, <<"$gte", "gte">>, <<"$lt", "lt">>,
     <<"$lte", "lte">>, <<"$in", "in">>, <<"$notin", "in">>, <<"$isnull", "is">>,
     <<"$notnull", "is">>, <<"$starts", "like">>, <<"$ends", "like">>, <<"$cont", "like">>}

LEMMA ClientFilterIs ==
    ASSUME NEW c, NEW method \in Methods, c.op = method[1]
    PROVE  /\ ClientFilter(c).field = c.field
           /\ ClientFilter(c).negated <=> c.op \in {"$notin", "$notnull"}
           /\ ClientFilter(c).op = method[2]
           /\ ClientFilter(c).text = [i \in DOMAIN c.args |-> Text(c.args[i])]
           /\ ClientFilter(c).shape = LikeShape(c)
<1>. DEFINE chosen == CASE c.op = "$eq" -> "eq"
                        [] c.op = "$ne" -> "neq"
                        [] c.op = "$gt" -> "gt"
                        [] c.op = "$gte" -> "gte"
                        [] c.op = "$lt" -> "lt"
                        [] c.op = "$lte" -> "lte"
                        [] c.op \in {"$in", "$notin"} -> "in"
                        [] c.op \in {"$isnull", "$notnull"} -> "is"
                        [] OTHER -> "like"
            negated == c.op \in {"$notin", "$notnull"}
            text == [i \in DOMAIN c.args |-> Text(c.args[i])]
<1>1. ClientFilter(c) = [Filter(c.field, negated, chosen, text) EXCEPT !.shape = LikeShape(c)]
  BY Zenon DEF ClientFilter
<1>2. chosen = method[2]
  BY DEF Methods
<1>. HIDE DEF chosen, text, negated
<1>3. /\ ClientFilter(c).field = c.field
      /\ ClientFilter(c).negated = negated
      /\ ClientFilter(c).op = chosen
      /\ ClientFilter(c).text = text
      /\ ClientFilter(c).shape = LikeShape(c)
  BY <1>1 DEF Filter
<1>. QED  BY <1>2, <1>3 DEF text, negated

LEMMA OpRead ==
    ASSUME NEW filter, NEW op, NEW method, <<op, method>> \in Methods,
           filter.negated <=> op \in {"$notin", "$notnull"}, filter.op = method
    PROVE  /\ filter.op \in DOMAIN OpMap(filter)
           /\ op \notin LikeOps => OpMap(filter)[filter.op] = op
           /\ op \in LikeOps => OpMap(filter)[filter.op] = "$like"
<1>1. CASE op = "$notin"
  <2>1. OpMap(filter) = NotMap /\ filter.op = "in"
    BY <1>1 DEF OpMap, Methods
  <2>2. NotMap["in"] = "$notin" /\ "in" \in DOMAIN NotMap
    BY DEF NotMap
  <2>. QED  BY <1>1, <2>1, <2>2 DEF LikeOps
<1>2. CASE op = "$notnull"
  <2>1. OpMap(filter) = NotMap /\ filter.op = "is"
    BY <1>2 DEF OpMap, Methods
  <2>2. NotMap["is"] = "$notnull" /\ "is" \in DOMAIN NotMap
    BY DEF NotMap
  <2>. QED  BY <1>2, <2>1, <2>2 DEF LikeOps
<1>3. CASE op \notin {"$notin", "$notnull"}
  <2>1. OpMap(filter) = PlainMap
    BY <1>3 DEF OpMap
  <2>2. /\ PlainMap["eq"] = "$eq" /\ PlainMap["neq"] = "$ne" /\ PlainMap["gt"] = "$gt"
        /\ PlainMap["gte"] = "$gte" /\ PlainMap["lt"] = "$lt" /\ PlainMap["lte"] = "$lte"
        /\ PlainMap["in"] = "$in" /\ PlainMap["is"] = "$isnull" /\ PlainMap["like"] = "$like"
        /\ {"eq", "neq", "gt", "gte", "lt", "lte", "in", "is", "like"} \subseteq DOMAIN PlainMap
    BY DEF PlainMap
  <2>. HIDE DEF PlainMap
  <2>3. method \in {"eq", "neq", "gt", "gte", "lt", "lte", "in", "is", "like"}
    BY DEF Methods
  <2>4. op \notin LikeOps => PlainMap[method] = op
    BY <1>3, <2>2 DEF Methods, LikeOps
  <2>5. op \in LikeOps => PlainMap[method] = "$like"
    BY <1>3, <2>2 DEF Methods, LikeOps
  <2>. QED  BY <2>1, <2>2, <2>3, <2>4, <2>5
<1>. QED  BY <1>1, <1>2, <1>3

LEMMA RereadSame ==
    ASSUME NEW c, Writable(c)
    PROVE  /\ Reread(c).field = c.field
           /\ ~ColumnFilterRejected(ClientFilter(c))
           /\ \A v : CondHolds(v, Reread(c)) <=> CondHolds(v, c)
           /\ Reread(c).op # "" /\ Buildable(Reread(c))
<1>. DEFINE filter == ClientFilter(c)
            coerced == [i \in DOMAIN filter.text |-> Coerce(filter.text[i])]
            op == OpMap(filter)[filter.op]
<1>1. /\ c = [field |-> c.field, op |-> c.op, args |-> c.args, shape |-> "exact"]
      /\ c.op \in NullOps \cup MemberOps \cup OrderOps \cup LikeOps
  BY WritableShape
<1>2. PICK method : /\ <<c.op, method>> \in Methods
                    /\ c.op \in LikeOps <=> method = "like"
                    /\ c.op \in NullOps <=> method = "is"
                    /\ method # "ilike"
  <2>1. \/ c.op = "$eq" \/ c.op = "$ne" \/ c.op = "$gt" \/ c.op = "$gte" \/ c.op = "$lt"
        \/ c.op = "$lte" \/ c.op = "$in" \/ c.op = "$notin" \/ c.op = "$isnull"
        \/ c.op = "$notnull" \/ c.op = "$starts" \/ c.op = "$ends" \/ c.op = "$cont"
    BY <1>1 DEF NullOps, MemberOps, OrderOps, LikeOps
  <2>. QED  BY <2>1 DEF Methods, NullOps, MemberOps, OrderOps, LikeOps
<1>3. /\ filter.field = c.field
      /\ filter.negated <=> c.op \in {"$notin", "$notnull"}
      /\ filter.op = method
      /\ filter.text = [i \in DOMAIN c.args |-> Text(c.args[i])]
      /\ filter.shape = LikeShape(c)
  <2>. DEFINE m == <<c.op, method>>
  <2>1. m \in Methods /\ c.op = m[1] /\ m[2] = method
    BY <1>2
  <2>. HIDE DEF m
  <2>2. /\ filter.field = c.field
        /\ filter.negated <=> c.op \in {"$notin", "$notnull"}
        /\ filter.op = m[2]
        /\ filter.text = [i \in DOMAIN c.args |-> Text(c.args[i])]
        /\ filter.shape = LikeShape(c)
    BY <2>1, ClientFilterIs
  <2>. QED  BY <2>1, <2>2
<1>. HIDE DEF filter
<1>4. /\ ~ColumnFilterRejected(filter)
      /\ c.op \notin LikeOps => op = c.op
      /\ c.op \in LikeOps => op = "$like"
  BY <1>2, <1>3, OpRead DEF ColumnFilterRejected
<1>5. c.op \notin LikeOps => coerced = c.args
  <2>1. CASE c.op \in MemberOps
    <3>1. c.args \in Seq(Val \ {NullText}) /\ c.args # <<>>
      BY <2>1, WritableShape
    <3>2. filter.text = c.args
      BY <1>3, <3>1, ListText
    <3>3. coerced = [i \in DOMAIN c.args |-> Coerce(c.args[i])]
      BY <3>2
    <3>. QED  BY <3>1, <3>3, ListText
  <2>2. CASE c.op \in NullOps \cup OrderOps
    <3>1. PICK x \in Val \cup {Null} : c.args = <<x>> /\ x # NullText
      BY <2>2, WritableShape, SearchTreeAssumption
    <3>2. filter.text = <<Text(x)>>
      BY <1>3, <3>1, ScalarText
    <3>. QED  BY <3>1, <3>2, ScalarText
  <2>. QED  BY <1>1, <2>1, <2>2
<1>6. Reread(c) = CASE filter.op \in {"like", "ilike"} ->
                         [Condition(filter.field, op, coerced)
                            EXCEPT !.args = filter.text, !.shape = filter.shape]
                    [] filter.op = "is" /\ coerced # <<Null>> ->
                         [Condition(filter.field, op, coerced)
                            EXCEPT !.op = IF filter.negated THEN "$ne" ELSE "$eq"]
                    [] OTHER -> Condition(filter.field, op, coerced)
  BY Zenon DEF Reread, ParseColumnFilter, filter
<1>. HIDE DEF op, coerced
<1>7. CASE c.op \notin LikeOps
  <2>1. filter.op = "is" => coerced = <<Null>>
    BY <1>2, <1>3, <1>5, <1>7, WritableShape
  <2>2. filter.op \notin {"like", "ilike"}
    BY <1>2, <1>3, <1>7
  <2>3. Reread(c) = Condition(c.field, c.op, c.args)
    BY <1>3, <1>4, <1>5, <1>6, <1>7, <2>1, <2>2
  <2>4. Reread(c) = c
    BY <1>1, <2>3 DEF Condition
  <2>5. c.op # "" /\ Buildable(c)
    <3>1. c.op # "" /\ c.op # "$between" /\ (c.op \in ArrayOps => c.op \in MemberOps)
      BY <1>1 DEF NullOps, MemberOps, OrderOps, LikeOps, ArrayOps
    <3>. QED  BY <3>1, WritableShape DEF Buildable
  <2>. QED  BY <1>4, <2>4, <2>5 DEF filter
<1>8. CASE c.op \in LikeOps
  <2>1. Reread(c) = [Condition(c.field, "$like", coerced)
                       EXCEPT !.args = filter.text, !.shape = LikeShape(c)]
    BY <1>2, <1>3, <1>4, <1>6, <1>8
  <2>2. Reread(c) = [field |-> c.field, op |-> "$like", args |-> filter.text,
                     shape |-> LikeShape(c)]
    BY <2>1 DEF Condition
  <2>3. PICK x \in Val \cup {Null} : c.args = <<x>> /\ x # NullText
    BY <1>8, WritableShape
  <2>4. filter.text = <<Text(x)>> /\ Text(Text(x)) = Text(x)
    BY <1>3, <2>3, ScalarText
  <2>. DEFINE d == Reread(c)
  <2>5. /\ d.field = c.field /\ d.op = "$like" /\ d.args = <<Text(x)>> /\ d.shape = LikeShape(c)
    BY <2>2, <2>4
  <2>. HIDE DEF d
  <2>6. LikeShape(d) = LikeShape(c)
    <3>1. LikeShape(d) = d.shape
      BY <2>5 DEF LikeShape
    <3>. QED  BY <2>5, <3>1
  <2>7. \A v : CondHolds(v, d) <=> v # Null /\ v \in Match[LikeShape(d)][Text(d.args[1])]
    BY <2>5 DEF CondHolds, ClauseOps
  <2>8. \A v : CondHolds(v, c) <=> v # Null /\ v \in Match[LikeShape(c)][Text(c.args[1])]
    BY <1>8 DEF CondHolds, ClauseOps, LikeOps
  <2>9. d.args[1] = Text(x) /\ c.args[1] = x
    BY <2>3, <2>5
  <2>10. d.op # "" /\ Buildable(d)
    BY <2>5 DEF Buildable, ArrayOps
  <2>. QED  BY <1>4, <2>4, <2>5, <2>6, <2>7, <2>8, <2>9, <2>10 DEF d, filter
<1>. QED  BY <1>7, <1>8

-----------------------------------------------------------------------------
(* WHERE, dialect by dialect: the row values a condition reads, and what   *)
(* the parsed query keeps.                                                 *)

\* The related row the conditions read, in one environment.
KeyOf(env, joined) == IF AskedPath \in joined THEN env[AskedPath] ELSE Null

Known(joined, conds) ==
    \A c \in conds : c.field \in KnownFields(joined) /\ c.field[1] \in {<<>>, AskedPath}

LEMMA FieldIsKnown ==
    ASSUME NEW joined, <<>> \notin joined, NEW f \in KnownFields(joined)
    PROVE  /\ f[1] = <<>> => f[2] \in RootColumn
           /\ f[1] # <<>> => f[1] \in joined
BY DEF KnownFields

LEMMA RowValue ==
    ASSUME NEW joined, <<>> \notin joined, NEW id, NEW env, NEW c, Known(joined, {c})
    PROVE  Holds(RowValues(id, env, joined), c) <=> RowHolds(id, KeyOf(env, joined), c)
<1>. DEFINE f == c.field
<1>1. f \in KnownFields(joined) /\ f[1] \in {<<>>, AskedPath}
  BY DEF Known
<1>. HIDE DEF f
<1>2. RowValues(id, env, joined)[f] = IF f[1] = <<>> THEN Rows[id][f[2]]
        ELSE IF env[f[1]] = Null THEN Null ELSE Related[f[1]][env[f[1]]].row[f[2]]
  BY <1>1 DEF RowValues
<1>3. f[1] # <<>> => KeyOf(env, joined) = env[f[1]]
  BY <1>1, FieldIsKnown DEF KeyOf
<1>4. RowValues(id, env, joined)[f] =
        IF f[1] = <<>> THEN Rows[id][f[2]]
        ELSE IF KeyOf(env, joined) = Null THEN Null
        ELSE Related[f[1]][KeyOf(env, joined)].row[f[2]]
  BY <1>2, <1>3
<1>. QED  BY <1>4, Zenon DEF Holds, RowHolds, f

LEMMA RowTruth ==
    ASSUME NEW joined, <<>> \notin joined, NEW id, NEW env, NEW conds, Known(joined, conds)
    PROVE  /\ HoldAll(RowValues(id, env, joined), conds) <=> All(id, KeyOf(env, joined), conds)
           /\ HoldSome(RowValues(id, env, joined), conds) <=> Some(id, KeyOf(env, joined), conds)
<1>1. \A c \in conds : Holds(RowValues(id, env, joined), c) <=> RowHolds(id, KeyOf(env, joined), c)
  <2>1. \A c \in conds : Known(joined, {c})
    BY DEF Known
  <2>. QED  BY <2>1, RowValue
<1>. QED  BY <1>1 DEF HoldAll, HoldSome, All, Some

\* What is configured speaks of columns of the root entity.
LEMMA ColumnsKnown ==
    ASSUME NEW node, OnColumns(node), NEW joined
    PROVE  Flat(node) /\ Known(joined, NodeConditions0(node))
<1>1. Flat(node)
  BY DEF OnColumns, Flat
<1>2. ASSUME NEW c \in NodeConditions0(node)
      PROVE  c.field \in KnownFields(joined) /\ c.field[1] \in {<<>>, AskedPath}
  <2>1. PICK col \in RootColumn : c.field = <<<<>>, col>>
    BY DEF OnColumns, NodeConditions0
  <2>2. c.field \in {<<<<>>, x>> : x \in RootColumn} /\ c.field[1] = <<>>
    BY <2>1
  <2>. QED  BY <2>2, Zenon DEF KnownFields
<1>. QED  BY <1>1, <1>2 DEF Known

LEMMA SettingNodes ==
    ASSUME NEW st \in Setting, PlainSettings
    PROVE  /\ OnColumns(st.auth.or) /\ OnColumns(st.auth.filter)
           /\ IsSeq(st.opts.filter) /\ \A node \in ToSet(st.opts.filter) : OnColumns(node)
<1>1. \A node \in ToSet(st.opts.filter) \cup {st.auth.or} : OnColumns(node)
  BY DEF PlainSettings
<1>2. OnColumns(st.auth.filter) /\ IsSeq(st.opts.filter)
  BY SettingAssumption DEF OnColumns, IsSeq
<1>. QED  BY <1>1, <1>2

LEMMA BuiltQuery ==
    ASSUME NEW p
    PROVE  /\ BuildQueryParams(p).fields = p.fields
           /\ BuildQueryParams(p).filter = FilterTokens(p.filter)
           /\ BuildQueryParams(p).or = FilterTokens(p.or)
           /\ BuildQueryParams(p).join = JoinTokens(p.join)
           /\ BuildQueryParams(p).sort = p.sort
           /\ BuildQueryParams(p).limit = p.limit
           /\ BuildQueryParams(p).offset = p.offset
           /\ BuildQueryParams(p).page = p.page
           /\ BuildQueryParams(p).s = <<>> /\ BuildQueryParams(p).select = <<>>
           /\ BuildQueryParams(p).order = <<>> /\ BuildQueryParams(p).cols = <<>>
           /\ BuildQueryParams(p).orGroup = <<>> /\ BuildQueryParams(p).andGroup = <<>>
BY DEF BuildQueryParams, NoQuery

LEMMA NoParamsParsed == ParseParams(<<>>) = <<>> /\ FieldNodes(<<>>) = <<>>
<1>1. DOMAIN <<>> = {}
  OBVIOUS
<1>2. DOMAIN ParseParams(<<>>) = {} /\ DOMAIN FieldNodes(<<>>) = {}
  BY <1>1 DEF ParseParams, FieldNodes
<1>3. DOMAIN ParseParams(<<>>) = 1..0 /\ DOMAIN FieldNodes(<<>>) = 1..0
  BY <1>2
<1>4. IsSeq(ParseParams(<<>>)) /\ IsSeq(FieldNodes(<<>>))
  <2>1. ParseParams(<<>>) \in [1..0 -> {}] /\ FieldNodes(<<>>) \in [1..0 -> {}]
    BY <1>3 DEF ParseParams, FieldNodes
  <2>. QED  BY <2>1, SeqOfDomain
<1>. QED  BY <1>2, <1>4, EmptyDomain

\* What a list of conditions written by a client must be.
Written(conds) == IsSeq(conds) /\ \A i \in DOMAIN conds : Writable(conds[i])

LEMMA WrittenMembers ==
    ASSUME NEW conds, Written(conds)
    PROVE  \A c \in ToSet(conds) : Writable(c) /\ c # NoCondition /\ c.field[1] \in {<<>>, AskedPath}
BY WritableShape DEF Written, ToSet

LEMMA NestjsxTree ==
    ASSUME NEW st \in Setting, NEW p, Written(p.filter), Written(p.or),
           NEW parsed, parsed = ParseNestjsx(BuildQueryParams(p), <<>>, AuthContext(st.auth), st.opts)
    PROVE  /\ parsed.search = WithAuth(st.opts.filter \o QuerySearch(BuildQueryParams(p)),
                                       AuthContext(st.auth))
           /\ parsed.paramsFilter = <<>>
           /\ ParseFilters(BuildQueryParams(p).filter) = p.filter
           /\ ParseFilters(BuildQueryParams(p).or) = p.or
<1>. DEFINE q == BuildQueryParams(p)
<1>1. ParseFilters(q.filter) = p.filter /\ ParseFilters(q.or) = p.or
  BY BuiltQuery, ReadBackAll DEF Written
<1>. HIDE DEF q
<1>2. parsed.search = BuildSearchTree(q, ParseParams(<<>>), AuthContext(st.auth), st.opts)
      /\ parsed.paramsFilter = ParseParams(<<>>)
  BY DEF ParseNestjsx, q
<1>3. FieldNodes(ParseParams(<<>>)) \o st.opts.filter \o QuerySearch(q) = st.opts.filter \o QuerySearch(q)
  <2>1. IsSeq(st.opts.filter)
    BY SettingAssumption DEF IsSeq
  <2>2. <<>> \o st.opts.filter = st.opts.filter
    BY <2>1 DEF IsSeq
  <2>. QED  BY <2>2, NoParamsParsed
<1>4. parsed.search = WithAuth(st.opts.filter \o QuerySearch(q), AuthContext(st.auth))
  BY <1>2, <1>3, NoParamsParsed DEF BuildSearchTree
<1>. QED  BY <1>1, <1>2, <1>4, NoParamsParsed DEF q

LEMMA NestjsxConditions ==
    ASSUME NEW st \in Setting,
           NEW p, Written(p.filter), Written(p.or),
           NEW parsed, parsed = ParseNestjsx(BuildQueryParams(p), <<>>, AuthContext(st.auth), st.opts)
    PROVE  ToSet(p.filter) \cup ToSet(p.or) \subseteq WhereConditions(parsed)
<1>. DEFINE q == BuildQueryParams(p)
            and == st.opts.filter \o QuerySearch(q)
<1>1. /\ parsed.search = WithAuth(and, AuthContext(st.auth))
      /\ ParseFilters(q.filter) = p.filter /\ ParseFilters(q.or) = p.or /\ q.s = <<>>
  BY NestjsxTree, BuiltQuery
<1>. HIDE DEF q
<1>2. IsSeq(st.opts.filter) /\ IsSeq(QuerySearch(q)) /\ IsSeq(p.filter) /\ IsSeq(p.or)
  BY SettingAssumption, QuerySearchSeq DEF IsSeq, Written
<1>3. IsSeq(and) /\ ToSet(and) = ToSet(st.opts.filter) \cup ToSet(QuerySearch(q))
  BY <1>2, ConcatIsSeq, ConcatRange
<1>. HIDE DEF and
<1>. SUFFICES ASSUME NEW c \in ToSet(p.filter) \cup ToSet(p.or) PROVE c \in WhereConditions(parsed)
  OBVIOUS
<1>4. c # NoCondition
  BY WrittenMembers
<1>5. PICK node \in ToSet(QuerySearch(q)) : c \in NodeConditions2(node)
  BY <1>1, <1>2, QuerySearchConditions
<1>6. {"filter", "or"} \subseteq DOMAIN st.auth
  BY SettingAssumption
<1>. QED  BY <1>1, <1>3, <1>4, <1>5, <1>6, WithAuthConditions, SettingAssumption

LEMMA NestjsxWhere ==
    ASSUME NEW st \in Setting, PlainSettings,
           NEW p, Written(p.filter), Written(p.or),
           NEW parsed, parsed = ParseNestjsx(BuildQueryParams(p), <<>>, AuthContext(st.auth), st.opts),
           NEW ask, ToSet(p.filter) = Standing(ask.conds), p.or = ask.any,
           NEW joined, <<>> \notin joined,
           Known(joined, ToSet(p.filter) \cup ToSet(p.or)), NEW id, NEW env
    PROVE  WhereHolds(parsed, RowValues(id, env, joined))
              <=> NestjsxKeeps(ask, st, id, KeyOf(env, joined))
<1>. DEFINE q == BuildQueryParams(p)
            and == st.opts.filter \o QuerySearch(q)
            r == RowValues(id, env, joined)
            k == KeyOf(env, joined)
            F == ToSet(p.filter)
            O == ToSet(p.or)
<1>1. /\ parsed.search = WithAuth(and, AuthContext(st.auth)) /\ parsed.paramsFilter = <<>>
      /\ ParseFilters(q.filter) = p.filter /\ ParseFilters(q.or) = p.or /\ q.s = <<>>
  BY NestjsxTree, BuiltQuery
<1>. HIDE DEF q
<1>2. IsSeq(p.filter) /\ IsSeq(p.or) /\ IsSeq(st.opts.filter)
  BY SettingNodes DEF Written
<1>3. /\ IsSeq(QuerySearch(q))
      /\ \A node \in ToSet(QuerySearch(q)) : Shallow(r, node)
      /\ QuerySearch(q) = <<>> <=> F = {} /\ O = {}
      /\ AllTrue(r, QuerySearch(q)) <=> Asks(r, F, O)
  BY <1>1, <1>2, QuerySearchTruth
<1>4. IsSeq(and) /\ ToSet(and) = ToSet(st.opts.filter) \cup ToSet(QuerySearch(q))
  BY <1>2, <1>3, ConcatIsSeq, ConcatRange
<1>5. and = <<>> <=> st.opts.filter = <<>> /\ F = {} /\ O = {}
  <2>1. /\ and = <<>> <=> ToSet(and) = {}
        /\ st.opts.filter = <<>> <=> ToSet(st.opts.filter) = {}
        /\ QuerySearch(q) = <<>> <=> ToSet(QuerySearch(q)) = {}
    BY <1>2, <1>3, <1>4, EmptyRange
  <2>. QED  BY <1>3, <1>4, <2>1
<1>6. \A node \in ToSet(st.opts.filter) :
        Shallow(r, node) /\ (Node2(r, node, "$and") <=> All(id, k, NodeConditions0(node)))
  <2>. TAKE node \in ToSet(st.opts.filter)
  <2>1. Flat(node) /\ Known(joined, NodeConditions0(node))
    BY SettingNodes, ColumnsKnown
  <2>2. HoldAll(r, NodeConditions0(node)) <=> All(id, k, NodeConditions0(node))
    BY <2>1, RowTruth
  <2>. QED  BY <2>1, <2>2, FlatIsShallow
<1>. HIDE DEF and, r
<1>7. AllTrue(r, and) <=> ControllerHolds(st, id, k) /\ Asks(r, F, O)
  <2>1. AllTrue(r, and) <=> (\A node \in ToSet(st.opts.filter) : Node2(r, node, "$and"))
                               /\ AllTrue(r, QuerySearch(q))
    BY <1>4 DEF AllTrue
  <2>2. (\A node \in ToSet(st.opts.filter) : Node2(r, node, "$and")) <=> ControllerHolds(st, id, k)
    BY <1>6 DEF ControllerHolds
  <2>. QED  BY <1>3, <2>1, <2>2
<1>8. /\ HoldSome(r, NodeConditions0(st.auth.or)) <=> Some(id, k, NodeConditions0(st.auth.or))
      /\ HoldAll(r, NodeConditions0(st.auth.filter)) <=> All(id, k, NodeConditions0(st.auth.filter))
      /\ Flat(st.auth.or) /\ Flat(st.auth.filter)
  BY SettingNodes, ColumnsKnown, RowTruth DEF r
<1>9. WhereHolds(parsed, r) <=>
        IF st.auth.or # <<>>
        THEN HoldSome(r, NodeConditions0(st.auth.or)) \/ (and # <<>> /\ AllTrue(r, and))
        ELSE HoldAll(r, NodeConditions0(st.auth.filter)) /\ AllTrue(r, and)
  <2>1. \A node \in ToSet(and) : Shallow(r, node)
    BY <1>3, <1>4, <1>6
  <2>2. {"filter", "or"} \subseteq DOMAIN st.auth
    BY SettingAssumption
  <2>. QED  BY <1>1, <1>4, <1>8, <2>1, <2>2, WithAuthTruth
<1>10. Asks(r, F, O) <=> \/ F # {} /\ All(id, k, F)
                         \/ O # {} /\ (IF F = {} THEN Some(id, k, O) ELSE All(id, k, O))
                         \/ F = {} /\ O = {}
  <2>1. Known(joined, F) /\ Known(joined, O)
    BY DEF Known
  <2>2. /\ HoldAll(r, F) <=> All(id, k, F)
        /\ HoldAll(r, O) <=> All(id, k, O)
        /\ HoldSome(r, O) <=> Some(id, k, O)
    BY <2>1, RowTruth DEF r
  <2>. HIDE DEF F, O, k
  <2>. QED  BY <2>2 DEF Asks
<1>11. NestjsxKeeps(ask, st, id, k) <=>
        \/ AuthWidens(st, id, k)
        \/ /\ AuthAllows(st, id, k)
           /\ st.auth.or # <<>> => F \cup O # {} \/ st.opts.filter # <<>>
           /\ ControllerHolds(st, id, k)
           /\ Asks(r, F, O)
  <2>1. F = Standing(ask.conds) /\ O = ToSet(ask.any)
    OBVIOUS
  <2>. HIDE DEF F, O, k
  <2>2. (F \cup O = {}) <=> (F = {} /\ O = {})
    OBVIOUS
  <2>. QED  BY <1>10, <2>1, <2>2, Zenon DEF NestjsxKeeps
<1>. HIDE DEF F, O, k
<1>. QED  BY <1>5, <1>7, <1>8, <1>9, <1>11 DEF AuthWidens, AuthAllows, r, k

-----------------------------------------------------------------------------
(* What a PostgREST query says: its select list, its filters, its order.   *)

LEMMA ImageSeq ==
    ASSUME NEW n \in Nat, NEW s, DOMAIN s = 1..n, s = [i \in 1..n |-> s[i]]
    PROVE  IsSeq(s) /\ Len(s) = n /\ ToSet(s) = {s[i] : i \in 1..n}
<1>1. s \in [1..n -> {s[i] : i \in 1..n}]
  OBVIOUS
<1>2. IsSeq(s) /\ Len(s) = n
  <2>1. s \in Seq({s[i] : i \in 1..n})
    BY <1>1, SeqDef
  <2>2. IsSeq(s)
    BY <2>1 DEF IsSeq
  <2>3. Len(s) \in Nat /\ 1..n = 1..Len(s)
    BY <2>2, SeqDomain
  <2>. QED  BY <2>2, <2>3
<1>. QED  BY <1>2 DEF ToSet

LEMMA SelectList ==
    ASSUME NEW ask, IsSeq(ask.columns), IsSeq(ask.relations)
    PROVE  /\ IsSeq(SelectItems(ask))
           /\ ToSet(SelectItems(ask)) =
                (IF ask.columns = <<>> THEN {Column("*")} ELSE {Column(c) : c \in ToSet(ask.columns)})
                \cup {Embed(p, FALSE, <<>>) : p \in ToSet(ask.relations)}
<1>. DEFINE named == [i \in DOMAIN ask.columns |-> Column(ask.columns[i])]
            cols == IF ask.columns = <<>> THEN <<Column("*")>> ELSE named
            embeds == [i \in DOMAIN ask.relations |-> Embed(ask.relations[i], FALSE, <<>>)]
<1>1. /\ DOMAIN ask.columns = 1..Len(ask.columns) /\ Len(ask.columns) \in Nat
      /\ DOMAIN ask.relations = 1..Len(ask.relations) /\ Len(ask.relations) \in Nat
  BY SeqDomain
<1>2. IsSeq(named) /\ ToSet(named) = {Column(c) : c \in ToSet(ask.columns)}
  <2>1. DOMAIN named = 1..Len(ask.columns) /\ named = [i \in 1..Len(ask.columns) |-> named[i]]
    BY <1>1
  <2>2. IsSeq(named) /\ ToSet(named) = {named[i] : i \in 1..Len(ask.columns)}
    <3>. HIDE DEF named
    <3>. QED  BY <1>1, <2>1, ImageSeq
  <2>. QED  BY <1>1, <2>2 DEF ToSet
<1>3. IsSeq(embeds) /\ ToSet(embeds) = {Embed(p, FALSE, <<>>) : p \in ToSet(ask.relations)}
  <2>1. DOMAIN embeds = 1..Len(ask.relations) /\ embeds = [i \in 1..Len(ask.relations) |-> embeds[i]]
    BY <1>1
  <2>2. IsSeq(embeds) /\ ToSet(embeds) = {embeds[i] : i \in 1..Len(ask.relations)}
    <3>. HIDE DEF embeds
    <3>. QED  BY <1>1, <2>1, ImageSeq
  <2>. QED  BY <1>1, <2>2 DEF ToSet
<1>4. IsSeq(<<Column("*")>>) /\ ToSet(<<Column("*")>>) = {Column("*")}
  <2>. DEFINE x == Column("*")
  <2>. HIDE DEF x
  <2>1. DOMAIN <<x>> = {1} /\ (<<x>>)[1] = x
    OBVIOUS
  <2>2. IsSeq(<<x>>) /\ ToSet(<<x>>) = {x}
    BY <2>1, SingleIsSeq DEF ToSet
  <2>. QED  BY <2>2 DEF x
<1>5. SelectItems(ask) = cols \o embeds
  BY Zenon DEF SelectItems
<1>. HIDE DEF named, embeds
<1>6. IsSeq(cols) /\ ToSet(cols) = IF ask.columns = <<>> THEN {Column("*")}
                                   ELSE {Column(c) : c \in ToSet(ask.columns)}
  BY <1>2, <1>4
<1>. HIDE DEF cols
<1>. QED  BY <1>3, <1>5, <1>6, ConcatIsSeq, ConcatRange

\* A select list there is, or none and nothing asked that needs one.
SelectOf(q, ask) ==
    /\ q.select \in {<<>>, SelectItems(ask)}
    /\ q.select = <<>> => ask.columns = <<>> /\ ask.relations = <<>>

LEMMA PositionsOfKind ==
    ASSUME NEW s, IsSeq(s), NEW P, P \subseteq DOMAIN s
    PROVE  /\ DOMAIN AtPositions(s, P) = 1..Len(AtPositions(s, P))
           /\ Len(AtPositions(s, P)) \in Nat
           /\ \A n \in DOMAIN AtPositions(s, P) : \E i \in P : AtPositions(s, P)[n] = s[i]
           /\ \A i \in P : \E n \in DOMAIN AtPositions(s, P) : AtPositions(s, P)[n] = s[i]
<1>1. IsSeq(AtPositions(s, P)) /\ ToSet(AtPositions(s, P)) = {s[i] : i \in P}
  BY AtPositionsRange
<1>2. \A n \in DOMAIN AtPositions(s, P) : AtPositions(s, P)[n] \in ToSet(AtPositions(s, P))
  BY DEF ToSet
<1>3. \A i \in P : \E n \in DOMAIN AtPositions(s, P) : AtPositions(s, P)[n] = s[i]
  <2>. TAKE i \in P
  <2>1. s[i] \in ToSet(AtPositions(s, P))
    BY <1>1
  <2>. QED  BY <2>1 DEF ToSet
<1>. QED  BY <1>1, <1>2, <1>3, SeqDomain

LEMMA EmbedsRead ==
    ASSUME NEW ask, IsSeq(ask.columns), IsSeq(ask.relations), NEW q, SelectOf(q, ask)
    PROVE  /\ IsSeq(ParseEmbeds(q.select))
           /\ {ParseEmbeds(q.select)[i].path : i \in DOMAIN ParseEmbeds(q.select)} = ToSet(ask.relations)
           /\ \A i \in DOMAIN ParseEmbeds(q.select) :
                 ParseEmbeds(q.select)[i] = [path |-> ParseEmbeds(q.select)[i].path, inner |-> FALSE,
                                             on |-> <<>>, select |-> <<>>]
<1>. DEFINE items == q.select
            P == {i \in DOMAIN items : items[i].kind = "embed"}
            embeds == AtPositions(items, P)
            joins == ParseEmbeds(items)
<1>1. IsSeq(items) /\ \A p : (\E i \in DOMAIN items : items[i].kind = "embed" /\ items[i].path = p)
                               <=> p \in ToSet(ask.relations)
  <2>1. CASE items = <<>>
    <3>1. DOMAIN items = {} /\ IsSeq(items)
      BY <2>1, EmptyIsSeq, EmptyDomain
    <3>2. ToSet(ask.relations) = {}
      BY <2>1, EmptyRange DEF SelectOf
    <3>. QED  BY <3>1, <3>2
  <2>2. CASE items # <<>>
    <3>1. items = SelectItems(ask)
      BY <2>2 DEF SelectOf
    <3>. HIDE DEF items
    <3>2. IsSeq(items) /\ ToSet(items) =
                (IF ask.columns = <<>> THEN {Column("*")} ELSE {Column(c) : c \in ToSet(ask.columns)})
                \cup {Embed(p, FALSE, <<>>) : p \in ToSet(ask.relations)}
      BY <3>1, SelectList
    <3>3. \A c : Column(c).kind # "embed"
      BY DEF Column
    <3>4. \A p : Embed(p, FALSE, <<>>).kind = "embed" /\ Embed(p, FALSE, <<>>).path = p
      BY DEF Embed
    <3>5. ASSUME NEW i \in DOMAIN items, items[i].kind = "embed"
          PROVE  items[i].path \in ToSet(ask.relations)
      <4>1. items[i] \in ToSet(items)
        BY DEF ToSet
      <4>2. items[i] \in {Embed(p, FALSE, <<>>) : p \in ToSet(ask.relations)}
        BY <3>2, <3>3, <3>5, <4>1
      <4>. QED  BY <3>4, <4>2
    <3>6. ASSUME NEW p \in ToSet(ask.relations)
          PROVE  \E i \in DOMAIN items : items[i].kind = "embed" /\ items[i].path = p
      <4>1. Embed(p, FALSE, <<>>) \in ToSet(items)
        BY <3>2
      <4>. QED  BY <3>4, <4>1 DEF ToSet
    <3>. QED  BY <3>2, <3>5, <3>6
  <2>. QED  BY <2>1, <2>2
<1>2. \A i \in P : items[i] = Embed(items[i].path, FALSE, <<>>)
  <2>1. CASE items = <<>>
    <3>1. DOMAIN items = {}
      BY <2>1, EmptyIsSeq, EmptyDomain
    <3>. QED  BY <3>1
  <2>2. CASE items # <<>>
    <3>1. items = SelectItems(ask)
      BY <2>2 DEF SelectOf
    <3>2. ToSet(items) =
                (IF ask.columns = <<>> THEN {Column("*")} ELSE {Column(c) : c \in ToSet(ask.columns)})
                \cup {Embed(p, FALSE, <<>>) : p \in ToSet(ask.relations)}
      BY <3>1, SelectList
    <3>. HIDE DEF items
    <3>3. \A c : Column(c).kind # "embed"
      BY DEF Column
    <3>4. \A i \in P : items[i] \in ToSet(items) /\ items[i].kind = "embed"
      BY DEF ToSet
    <3>5. \A p : Embed(p, FALSE, <<>>).path = p
      BY DEF Embed
    <3>. QED  BY <3>2, <3>3, <3>4, <3>5
  <2>. QED  BY <2>1, <2>2
<1>3. joins = [i \in DOMAIN embeds |->
           [path |-> embeds[i].path, inner |-> embeds[i].inner, on |-> <<>>,
            select |-> embeds[i].cols]]
  BY Zenon DEF ParseEmbeds
<1>. HIDE DEF items
<1>4. /\ DOMAIN embeds = 1..Len(embeds) /\ Len(embeds) \in Nat
      /\ \A n \in DOMAIN embeds : \E i \in P : embeds[n] = items[i]
      /\ \A i \in P : \E n \in DOMAIN embeds : embeds[n] = items[i]
  <2>1. P \subseteq DOMAIN items
    OBVIOUS
  <2>. HIDE DEF P
  <2>. QED  BY <1>1, <2>1, PositionsOfKind
<1>. HIDE DEF joins, embeds
<1>5. DOMAIN joins = 1..Len(embeds) /\ IsSeq(joins)
  <2>1. DOMAIN joins = 1..Len(embeds) /\ joins = [i \in 1..Len(embeds) |-> joins[i]]
    BY <1>3, <1>4
  <2>. QED  BY <1>4, <2>1, ImageSeq
<1>6. \A n \in DOMAIN joins : embeds[n] = Embed(joins[n].path, FALSE, <<>>)
  <2>. TAKE n \in DOMAIN joins
  <2>1. PICK i \in P : embeds[n] = items[i]
    BY <1>4, <1>5
  <2>2. joins[n].path = embeds[n].path
    BY <1>3, <1>4, <1>5
  <2>3. items[i] = Embed(items[i].path, FALSE, <<>>)
    BY <1>2
  <2>. HIDE DEF P
  <2>. QED  BY <2>1, <2>2, <2>3
<1>7. \A n \in DOMAIN joins : joins[n] = [path |-> joins[n].path, inner |-> FALSE,
                                          on |-> <<>>, select |-> <<>>]
  <2>. TAKE n \in DOMAIN joins
  <2>1. joins[n] = [path |-> embeds[n].path, inner |-> embeds[n].inner, on |-> <<>>,
                    select |-> embeds[n].cols]
    BY <1>3, <1>4, <1>5
  <2>. DEFINE path == joins[n].path
  <2>2. embeds[n] = [kind |-> "embed", path |-> path, inner |-> FALSE, cols |-> <<>>]
    BY <1>6 DEF Embed
  <2>3. embeds[n].path = path /\ embeds[n].cols = <<>>
    BY <2>2
  <2>4. embeds[n].inner = FALSE
    <3>. HIDE DEF path
    <3>. QED  BY <2>2
  <2>. HIDE DEF path
  <2>5. joins[n] = [path |-> path, inner |-> FALSE, on |-> <<>>, select |-> <<>>]
    BY <2>1, <2>3, <2>4, Zenon
  <2>. QED  BY <2>5 DEF path
<1>8. {joins[i].path : i \in DOMAIN joins} = ToSet(ask.relations)
  <2>1. ASSUME NEW n \in DOMAIN joins PROVE joins[n].path \in ToSet(ask.relations)
    <3>1. PICK i \in P : embeds[n] = items[i]
      BY <1>4, <1>5
    <3>. QED  BY <1>1, <1>3, <1>4, <1>5, <3>1
  <2>2. ASSUME NEW p \in ToSet(ask.relations) PROVE \E n \in DOMAIN joins : joins[n].path = p
    <3>1. PICK i \in P : items[i].path = p
      BY <1>1
    <3>2. PICK n \in DOMAIN embeds : embeds[n] = items[i]
      BY <1>4
    <3>. QED  BY <1>3, <1>4, <1>5, <3>1, <3>2
  <2>. QED  BY <2>1, <2>2
<1>. QED  BY <1>5, <1>7, <1>8 DEF joins, items

LEMMA FieldsRead ==
    ASSUME NEW ask, IsSeq(ask.columns), "*" \notin ToSet(ask.columns), IsSeq(ask.relations),
           NEW q, SelectOf(q, ask)
    PROVE  /\ ToSet(ParseSelectFields(q.select)) = ToSet(ask.columns)
           /\ ParseSelectFields(q.select) = <<>> <=> ask.columns = <<>>
<1>. DEFINE items == q.select
            P == {i \in DOMAIN items : items[i].kind = "column" /\ items[i].cols # <<"*">>}
            named == AtPositions(items, P)
            fields == ParseSelectFields(items)
<1>1. IsSeq(items) /\ \A i \in DOMAIN items : items[i].kind = "column" /\ items[i].cols # <<"*">> =>
            \E c \in ToSet(ask.columns) : items[i].cols = <<c>>
  <2>1. CASE items = <<>>
    BY <2>1, EmptyIsSeq, EmptyDomain
  <2>2. CASE items # <<>>
    <3>1. items = SelectItems(ask)
      BY <2>2 DEF SelectOf
    <3>. HIDE DEF items
    <3>2. IsSeq(items) /\ ToSet(items) =
                (IF ask.columns = <<>> THEN {Column("*")} ELSE {Column(c) : c \in ToSet(ask.columns)})
                \cup {Embed(p, FALSE, <<>>) : p \in ToSet(ask.relations)}
      BY <3>1, SelectList
    <3>3. \A c : Column(c).cols = <<c>>
      BY DEF Column
    <3>4. \A p : Embed(p, FALSE, <<>>).kind # "column"
      BY DEF Embed
    <3>5. ASSUME NEW i \in DOMAIN items, items[i].kind = "column", items[i].cols # <<"*">>
          PROVE  \E c \in ToSet(ask.columns) : items[i].cols = <<c>>
      <4>1. items[i] \in ToSet(items)
        BY DEF ToSet
      <4>2. items[i] \in IF ask.columns = <<>> THEN {Column("*")}
                         ELSE {Column(c) : c \in ToSet(ask.columns)}
        BY <3>2, <3>4, <3>5, <4>1
      <4>. QED  BY <3>3, <3>5, <4>2
    <3>. QED  BY <3>2, <3>5
  <2>. QED  BY <2>1, <2>2
<1>2. ASSUME NEW c \in ToSet(ask.columns)
      PROVE  \E i \in DOMAIN items : items[i].kind = "column" /\ items[i].cols # <<"*">> /\ items[i].cols = <<c>>
  <2>1. ask.columns # <<>>
    BY EmptyRange
  <2>2. items = SelectItems(ask)
    BY <2>1 DEF SelectOf
  <2>. HIDE DEF items
  <2>3. Column(c) \in ToSet(items)
    BY <2>1, <2>2, SelectList
  <2>4. Column(c).kind = "column" /\ Column(c).cols = <<c>> /\ c # "*"
    BY DEF Column
  <2>5. <<c>> # <<"*">>
    BY <2>4
  <2>. QED  BY <2>3, <2>4, <2>5 DEF ToSet
<1>3. fields = [i \in DOMAIN named |-> named[i].cols[1]]
  BY Zenon DEF ParseSelectFields
<1>. HIDE DEF items
<1>4. /\ DOMAIN named = 1..Len(named) /\ Len(named) \in Nat
      /\ \A n \in DOMAIN named : \E i \in P : named[n] = items[i]
      /\ \A i \in P : \E n \in DOMAIN named : named[n] = items[i]
  <2>1. P \subseteq DOMAIN items
    OBVIOUS
  <2>. HIDE DEF P
  <2>. QED  BY <1>1, <2>1, PositionsOfKind
<1>. HIDE DEF fields, named
<1>5. DOMAIN fields = DOMAIN named /\ IsSeq(fields)
  <2>1. DOMAIN fields = 1..Len(named) /\ fields = [i \in 1..Len(named) |-> fields[i]]
    BY <1>3, <1>4
  <2>. QED  BY <1>4, <2>1, ImageSeq
<1>6. ToSet(fields) = ToSet(ask.columns)
  <2>1. ASSUME NEW n \in DOMAIN fields PROVE fields[n] \in ToSet(ask.columns)
    <3>1. PICK i \in P : named[n] = items[i]
      BY <1>4, <1>5
    <3>2. PICK c \in ToSet(ask.columns) : items[i].cols = <<c>>
      BY <1>1
    <3>3. fields[n] = c
      BY <1>3, <1>5, <3>1, <3>2
    <3>. QED  BY <3>3
  <2>2. ASSUME NEW c \in ToSet(ask.columns) PROVE \E n \in DOMAIN fields : fields[n] = c
    <3>1. PICK i \in P : items[i].cols = <<c>>
      BY <1>2
    <3>2. PICK n \in DOMAIN named : named[n] = items[i]
      BY <1>4
    <3>. QED  BY <1>3, <1>5, <3>1, <3>2
  <2>3. ToSet(fields) = {fields[n] : n \in DOMAIN fields}
    BY DEF ToSet
  <2>. QED  BY <2>1, <2>2, <2>3
<1>7. fields = <<>> <=> ask.columns = <<>>
  BY <1>5, <1>6, EmptyRange
<1>. QED  BY <1>6, <1>7 DEF fields, items

-----------------------------------------------------------------------------
(* The filters of a PostgREST query: which leave WHERE for a join's ON, and *)
(* what the others keep.                                                   *)

\* What the PostgREST builder holds when a program has asked for ask.
Searched(q, ask) ==
    /\ q.cols = [i \in DOMAIN ask.conds |-> ClientFilter(ask.conds[i])]
    /\ q.orGroup = [i \in DOMAIN ask.any |-> Branch("field", <<ClientFilter(ask.any[i])>>)]
    /\ q.andGroup = <<>>
    /\ SelectOf(q, ask)

LEMMA ShapesIs ==
    ASSUME NEW ask, IsSeq(ask.columns), IsSeq(ask.relations), NEW q, SelectOf(q, ask), NEW c
    PROVE  ShapesEmbed(c, ParseEmbeds(q.select))
              <=> c.field[1] # <<>> /\ c.field[1] \in ToSet(ask.relations)
<1>. DEFINE joins == ParseEmbeds(q.select)
            same == {i \in DOMAIN joins : joins[i].path = c.field[1]}
<1>1. /\ DOMAIN joins = 1..Len(joins) /\ Len(joins) \in Nat
      /\ {joins[i].path : i \in DOMAIN joins} = ToSet(ask.relations)
  BY EmbedsRead, SeqDomain
<1>2. \A i \in DOMAIN joins : ~joins[i].inner
  <2>. TAKE i \in DOMAIN joins
  <2>. DEFINE j == joins[i]
  <2>1. j = [path |-> j.path, inner |-> FALSE, on |-> <<>>, select |-> <<>>]
    BY EmbedsRead
  <2>. HIDE DEF j
  <2>2. ~j.inner
    BY <2>1
  <2>. QED  BY <2>2 DEF j
<1>. HIDE DEF joins
<1>3. ASSUME c.field[1] \in ToSet(ask.relations)
      PROVE  \E i \in DOMAIN joins : /\ joins[i].path = c.field[1]
                                     /\ \A j \in DOMAIN joins : j > i => joins[j].path # joins[i].path
  <2>1. same # {} /\ same \in SUBSET (1..Len(joins))
    BY <1>1, <1>3
  <2>2. PICK m \in same : \A i \in same : i <= m
    BY <1>1, <2>1, LastIndex
  <2>. QED  BY <1>1, <2>1, <2>2
<1>. QED  BY <1>1, <1>2, <1>3 DEF ShapesEmbed, joins

\* The conditions of conds as the server reads them.
Rereads(conds) == [i \in DOMAIN conds |-> Reread(conds[i])]

LEMMA RereadList ==
    ASSUME NEW conds, IsSeq(conds)
    PROVE  /\ ParseColumnFilters([i \in DOMAIN conds |-> ClientFilter(conds[i])]) = Rereads(conds)
           /\ IsSeq(Rereads(conds)) /\ DOMAIN Rereads(conds) = DOMAIN conds
           /\ ToSet(Rereads(conds)) = {Reread(c) : c \in ToSet(conds)}
<1>1. DOMAIN conds = 1..Len(conds) /\ Len(conds) \in Nat
  BY SeqDomain
<1>. DEFINE filters == [i \in DOMAIN conds |-> ClientFilter(conds[i])]
            s == Rereads(conds)
<1>2. ParseColumnFilters(filters) = s
  <2>1. DOMAIN filters = DOMAIN conds /\ \A i \in DOMAIN conds : filters[i] = ClientFilter(conds[i])
    OBVIOUS
  <2>. HIDE DEF filters
  <2>. QED  BY <2>1 DEF ParseColumnFilters, Rereads, Reread
<1>3. DOMAIN s = DOMAIN conds /\ \A i \in DOMAIN conds : s[i] = Reread(conds[i])
  BY DEF Rereads
<1>4. s = [i \in 1..Len(conds) |-> s[i]]
  BY <1>1 DEF Rereads
<1>. HIDE DEF s
<1>5. IsSeq(s) /\ ToSet(s) = {s[i] : i \in 1..Len(conds)}
  BY <1>1, <1>3, <1>4, ImageSeq
<1>6. ToSet(s) = {Reread(c) : c \in ToSet(conds)}
  BY <1>1, <1>3, <1>5 DEF ToSet
<1>. QED  BY <1>2, <1>3, <1>5, <1>6 DEF s

LEMMA RootFiltersRead ==
    ASSUME NEW ask, Written(ask.conds), IsSeq(ask.columns), IsSeq(ask.relations),
           NEW q, SelectOf(q, ask)
    PROVE  /\ IsSeq(RootFilters(Rereads(ask.conds), ParseEmbeds(q.select)))
           /\ ToSet(RootFilters(Rereads(ask.conds), ParseEmbeds(q.select)))
                = {Reread(c) : c \in ToSet(ask.conds) \ Shaping(ask)}
<1>. DEFINE conds == Rereads(ask.conds)
            joins == ParseEmbeds(q.select)
            P == {i \in DOMAIN conds : ~ShapesEmbed(conds[i], joins)}
<1>1. IsSeq(conds) /\ DOMAIN conds = DOMAIN ask.conds
  BY RereadList DEF Written
<1>2. \A i \in DOMAIN conds : conds[i] = Reread(ask.conds[i]) /\ conds[i].field = ask.conds[i].field
  <2>1. \A i \in DOMAIN ask.conds : Reread(ask.conds[i]).field = ask.conds[i].field
    BY RereadSame DEF Written
  <2>. QED  BY <2>1 DEF Rereads
<1>3. RootFilters(conds, joins) = AtPositions(conds, P)
  BY Zenon DEF RootFilters
<1>4. \A i \in DOMAIN conds : ShapesEmbed(conds[i], joins) <=> ask.conds[i] \in Shaping(ask)
  <2>1. \A c : ShapesEmbed(c, joins) <=> c.field[1] # <<>> /\ c.field[1] \in ToSet(ask.relations)
    BY ShapesIs
  <2>2. \A i \in DOMAIN conds : ask.conds[i] \in ToSet(ask.conds)
    BY <1>1 DEF ToSet
  <2>. HIDE DEF conds, joins
  <2>. QED  BY <1>2, <2>1, <2>2 DEF Shaping, OnRoot
<1>. HIDE DEF conds, joins
<1>5. IsSeq(AtPositions(conds, P)) /\ ToSet(AtPositions(conds, P)) = {conds[i] : i \in P}
  <2>1. P \subseteq DOMAIN conds
    OBVIOUS
  <2>. HIDE DEF P
  <2>. QED  BY <1>1, <2>1, AtPositionsRange
<1>6. {conds[i] : i \in P} = {Reread(c) : c \in ToSet(ask.conds) \ Shaping(ask)}
  <2>1. P = {i \in DOMAIN ask.conds : ask.conds[i] \notin Shaping(ask)}
    BY <1>1, <1>4
  <2>2. \A i \in DOMAIN ask.conds : conds[i] = Reread(ask.conds[i])
    BY <1>1, <1>2
  <2>. HIDE DEF P
  <2>. QED  BY <2>1, <2>2 DEF ToSet
<1>. QED  BY <1>3, <1>5, <1>6 DEF conds, joins

\* The ON clause of path p: the conditions of S on it.
OnIs(on, S, p) == ToSet(on) = {Reread(c) : c \in {d \in S : d.field[1] = p}}

\* One join for each relation asked for, selected whole, with the conditions of
\* S in the ON of their path.
JoinsAre(joins, ask, S) ==
    /\ IsSeq(joins)
    /\ {joins[i].path : i \in DOMAIN joins} = ToSet(ask.relations)
    /\ \A i \in DOMAIN joins : joins[i].select = <<>> /\ OnIs(joins[i].on, S, joins[i].path)

\* The joins of the request: one path each, all selected whole, and the
\* conditions that choose embedded rows in the ON of their path.
LEMMA JoinsRead ==
    ASSUME NEW ask, Written(ask.conds), IsSeq(ask.columns), IsSeq(ask.relations),
           NEW q, SelectOf(q, ask),
           NEW joins, joins = JoinsWithOn(Rereads(ask.conds), ParseEmbeds(q.select))
    PROVE  JoinsAre(joins, ask, Shaping(ask))
<1>. DEFINE conds == Rereads(ask.conds)
            embeds == ParseEmbeds(q.select)
            P(i) == {n \in DOMAIN conds : conds[n].field[1] = embeds[i].path /\ ShapesEmbed(conds[n], embeds)}
<1>1. IsSeq(conds) /\ DOMAIN conds = DOMAIN ask.conds
  BY RereadList DEF Written
<1>2. \A i \in DOMAIN conds : conds[i] = Reread(ask.conds[i]) /\ conds[i].field = ask.conds[i].field
  <2>1. \A i \in DOMAIN ask.conds : Reread(ask.conds[i]).field = ask.conds[i].field
    BY RereadSame DEF Written
  <2>. QED  BY <2>1 DEF Rereads
<1>3. \A i \in DOMAIN conds : ShapesEmbed(conds[i], embeds) <=> ask.conds[i] \in Shaping(ask)
  <2>1. \A c : ShapesEmbed(c, embeds) <=> c.field[1] # <<>> /\ c.field[1] \in ToSet(ask.relations)
    BY ShapesIs
  <2>2. \A i \in DOMAIN conds : ask.conds[i] \in ToSet(ask.conds)
    BY <1>1 DEF ToSet
  <2>. HIDE DEF conds, embeds
  <2>. QED  BY <1>2, <2>1, <2>2 DEF Shaping, OnRoot
<1>4. /\ IsSeq(embeds)
      /\ {embeds[i].path : i \in DOMAIN embeds} = ToSet(ask.relations)
      /\ \A i \in DOMAIN embeds : embeds[i] = [path |-> embeds[i].path, inner |-> FALSE,
                                               on |-> <<>>, select |-> <<>>]
  BY EmbedsRead
<1>5. joins = [i \in DOMAIN embeds |-> [embeds[i] EXCEPT !.on = AtPositions(conds, P(i))]]
  BY Zenon DEF JoinsWithOn
<1>. HIDE DEF conds, embeds
<1>6. DOMAIN embeds = 1..Len(embeds) /\ Len(embeds) \in Nat
  BY <1>4, SeqDomain
<1>7. IsSeq(joins) /\ DOMAIN joins = DOMAIN embeds
  <2>1. DOMAIN joins = 1..Len(embeds) /\ joins = [i \in 1..Len(embeds) |-> joins[i]]
    BY <1>5, <1>6
  <2>. QED  BY <1>6, <2>1, ImageSeq
<1>8. ASSUME NEW i \in DOMAIN embeds
      PROVE  /\ joins[i].path = embeds[i].path /\ joins[i].select = <<>>
             /\ OnIs(joins[i].on, Shaping(ask), embeds[i].path)
  <2>. DEFINE path == embeds[i].path
              on == AtPositions(conds, P(i))
  <2>2. joins[i].path = path /\ joins[i].select = <<>> /\ joins[i].on = on
    <3>. DEFINE e == embeds[i]
    <3>1. e = [path |-> path, inner |-> FALSE, on |-> <<>>, select |-> <<>>]
      BY <1>4
    <3>2. joins[i] = [e EXCEPT !.on = on]
      BY <1>5
    <3>. HIDE DEF path, on, e
    <3>3. e.path = path /\ e.select = <<>> /\ {"path", "on", "select"} \subseteq DOMAIN e
      BY <3>1
    <3>. QED  BY <3>2, <3>3
  <2>. HIDE DEF on
  <2>3. ToSet(on) = {conds[n] : n \in P(i)}
    <3>1. P(i) \subseteq DOMAIN conds
      OBVIOUS
    <3>. HIDE DEF P
    <3>. QED  BY <1>1, <3>1, AtPositionsRange DEF on
  <2>4. {conds[n] : n \in P(i)} = {Reread(c) : c \in {d \in Shaping(ask) : d.field[1] = path}}
    <3>1. P(i) = {n \in DOMAIN ask.conds : ask.conds[n].field[1] = path /\ ask.conds[n] \in Shaping(ask)}
      BY <1>1, <1>2, <1>3
    <3>2. \A n \in DOMAIN ask.conds : conds[n] = Reread(ask.conds[n])
      BY <1>1, <1>2
    <3>3. \A c \in Shaping(ask) : \E n \in DOMAIN ask.conds : c = ask.conds[n]
      BY DEF Shaping, ToSet
    <3>. HIDE DEF P, path
    <3>. QED  BY <3>1, <3>2, <3>3
  <2>. QED  BY <2>2, <2>3, <2>4 DEF OnIs
<1>9. {joins[i].path : i \in DOMAIN joins} = ToSet(ask.relations)
  <2>1. \A i \in DOMAIN embeds : joins[i].path = embeds[i].path
    BY <1>8
  <2>2. {joins[i].path : i \in DOMAIN joins} = {embeds[i].path : i \in DOMAIN embeds}
    BY <1>7, <2>1
  <2>. QED  BY <1>4, <2>2
<1>10. ASSUME NEW i \in DOMAIN joins
       PROVE  joins[i].select = <<>> /\ OnIs(joins[i].on, Shaping(ask), joins[i].path)
  BY <1>7, <1>8
<1>. QED  BY <1>4, <1>7, <1>9, <1>10 DEF JoinsAre

-----------------------------------------------------------------------------
(* WHERE in the PostgREST dialect.                                         *)

LEMMA BranchRead ==
    ASSUME NEW c
    PROVE  ParseBranch(Branch("field", <<ClientFilter(c)>>)) = FieldNode(Reread(c))
<1>. DEFINE f == ClientFilter(c)
            b == Branch("field", <<f>>)
<1>1. b.key = "field" /\ b.filters = <<f>>
  BY DEF Branch
<1>2. DOMAIN <<f>> = {1} /\ (<<f>>)[1] = f
  <2>. HIDE DEF f
  <2>. QED  OBVIOUS
<1>. HIDE DEF f, b
<1>3. ParseBranch(b) = FieldNodes(ParseColumnFilters(<<f>>))[1]
  BY <1>1 DEF ParseBranch
<1>4. DOMAIN ParseColumnFilters(<<f>>) = {1} /\ ParseColumnFilters(<<f>>)[1] = ParseColumnFilter(f)
  BY <1>2 DEF ParseColumnFilters
<1>5. FieldNodes(ParseColumnFilters(<<f>>))[1] = FieldNode(ParseColumnFilter(f))
  BY <1>4 DEF FieldNodes
<1>. QED  BY <1>3, <1>5 DEF Reread, b, f

LEMMA LogicalRead ==
    ASSUME NEW any, IsSeq(any)
    PROVE  ParseLogical([i \in DOMAIN any |-> Branch("field", <<ClientFilter(any[i])>>)], "$or")
             = IF any = <<>> THEN <<>> ELSE <<GroupNode("$or", FieldNodes(Rereads(any)))>>
<1>. DEFINE branches == [i \in DOMAIN any |-> Branch("field", <<ClientFilter(any[i])>>)]
            nodes == [i \in DOMAIN branches |-> ParseBranch(branches[i])]
<1>1. DOMAIN any = 1..Len(any) /\ Len(any) \in Nat
  BY SeqDomain
<1>2. /\ DOMAIN branches = DOMAIN any
      /\ \A i \in DOMAIN any : ParseBranch(branches[i]) = FieldNode(Reread(any[i]))
  BY BranchRead
<1>3. IsSeq(branches)
  <2>1. branches = [i \in 1..Len(any) |-> branches[i]]
    BY <1>1
  <2>. HIDE DEF branches
  <2>. QED  BY <1>1, <1>2, <2>1, ImageSeq
<1>. HIDE DEF branches
<1>4. branches = <<>> <=> any = <<>>
  BY <1>2, <1>3, EmptyDomain
<1>5. nodes = FieldNodes(Rereads(any))
  <2>1. DOMAIN Rereads(any) = DOMAIN any /\ \A i \in DOMAIN any : Rereads(any)[i] = Reread(any[i])
    BY DEF Rereads
  <2>. QED  BY <1>2, <2>1 DEF FieldNodes
<1>6. ParseLogical(branches, "$or") = IF branches = <<>> THEN <<>> ELSE <<GroupNode("$or", nodes)>>
  BY Zenon DEF ParseLogical
<1>. HIDE DEF nodes
<1>. QED  BY <1>4, <1>5, <1>6 DEF branches

\* The nodes beside auth.
Beside(q, ask) ==
    FieldNodes(RootFilters(Rereads(ask.conds), ParseEmbeds(q.select)))
    \o (IF ask.any = <<>> THEN <<>> ELSE <<GroupNode("$or", FieldNodes(Rereads(ask.any)))>>)

\* What is written with the methods of the PostgREST builder.
Programmed(ask) ==
    /\ Written(ask.conds)
    /\ Written(ask.any) /\ \A i \in DOMAIN ask.any : OnRoot(ask.any[i])
    /\ IsSeq(ask.columns) /\ "*" \notin ToSet(ask.columns)
    /\ IsSeq(ask.relations)

LEMMA PostgrestTree ==
    ASSUME NEW st \in Setting, NEW ask, Programmed(ask), NEW q, Searched(q, ask),
           NEW parsed, parsed = ParsePostgrest(q, <<>>, AuthContext(st.auth), st.opts)
    PROVE  /\ parsed.search = WithAuth(Beside(q, ask), AuthContext(st.auth))
           /\ parsed.paramsFilter = <<>>
           /\ parsed.join = JoinsWithOn(Rereads(ask.conds), ParseEmbeds(q.select))
<1>. DEFINE filters == FieldNodes(RootFilters(Rereads(ask.conds), ParseEmbeds(q.select)))
            any == ParseLogical(q.orGroup, "$or")
<1>1. ParseColumnFilters(q.cols) = Rereads(ask.conds)
  BY RereadList DEF Searched, Programmed, Written
<1>2. /\ parsed.search = WithAuth(FieldNodes(RootFilters(ParseColumnFilters(q.cols), ParseEmbeds(q.select)))
                            \o any \o ParseLogical(q.andGroup, "$and"), AuthContext(st.auth))
      /\ parsed.paramsFilter = ParseParams(<<>>)
      /\ parsed.join = JoinsWithOn(ParseColumnFilters(q.cols), ParseEmbeds(q.select))
  BY DEF ParsePostgrest
<1>3. any = IF ask.any = <<>> THEN <<>> ELSE <<GroupNode("$or", FieldNodes(Rereads(ask.any)))>>
  BY LogicalRead DEF Searched, Programmed, Written
<1>4. ParseLogical(q.andGroup, "$and") = <<>>
  BY DEF Searched, ParseLogical
<1>5. IsSeq(filters) /\ IsSeq(any)
  <2>1. IsSeq(RootFilters(Rereads(ask.conds), ParseEmbeds(q.select)))
    BY RootFiltersRead DEF Programmed, Searched
  <2>. QED  BY <2>1, FieldNodesRange, ParseLogicalSeq
<1>6. IsSeq(filters \o any)
  BY <1>5, ConcatIsSeq
<1>7. filters \o any = Beside(q, ask)
  BY <1>3, Zenon DEF Beside
<1>. HIDE DEF filters, any
<1>8. (filters \o any) \o <<>> = filters \o any
  BY <1>6 DEF IsSeq
<1>9. parsed.search = WithAuth(filters \o any, AuthContext(st.auth))
  BY <1>1, <1>2, <1>4, <1>8 DEF filters
<1>. QED  BY <1>1, <1>2, <1>7, <1>9, NoParamsParsed

\* The nodes there are.
LEMMA BesideRange ==
    ASSUME NEW ask, Programmed(ask), NEW q, SelectOf(q, ask)
    PROVE  /\ IsSeq(Beside(q, ask))
           /\ ToSet(Beside(q, ask)) =
                {FieldNode(Reread(c)) : c \in ToSet(ask.conds) \ Shaping(ask)} \cup
                (IF ask.any = <<>> THEN {} ELSE {GroupNode("$or", FieldNodes(Rereads(ask.any)))})
<1>. DEFINE R == RootFilters(Rereads(ask.conds), ParseEmbeds(q.select))
            g == GroupNode("$or", FieldNodes(Rereads(ask.any)))
            rest == IF ask.any = <<>> THEN <<>> ELSE <<g>>
<1>1. IsSeq(R) /\ ToSet(R) = {Reread(c) : c \in ToSet(ask.conds) \ Shaping(ask)}
  BY RootFiltersRead DEF Programmed
<1>2. Beside(q, ask) = FieldNodes(R) \o rest
  BY Zenon DEF Beside
<1>. HIDE DEF R, g
<1>3. IsSeq(FieldNodes(R)) /\ ToSet(FieldNodes(R)) = {FieldNode(Reread(c)) : c \in ToSet(ask.conds) \ Shaping(ask)}
  BY <1>1, FieldNodesRange
<1>4. IsSeq(<<g>>) /\ ToSet(<<g>>) = {g}
  <2>1. DOMAIN <<g>> = {1} /\ (<<g>>)[1] = g
    OBVIOUS
  <2>. QED  BY <2>1, SingleIsSeq DEF ToSet
<1>5. IsSeq(rest) /\ ToSet(rest) = IF ask.any = <<>> THEN {} ELSE {g}
  BY <1>4, EmptyIsSeq, EmptyRange
<1>. HIDE DEF rest
<1>. QED  BY <1>2, <1>3, <1>5, ConcatIsSeq, ConcatRange DEF g

\* Every condition that is not left to a join is in WHERE.
LEMMA PostgrestConditions ==
    ASSUME NEW st \in Setting, NEW ask, Programmed(ask), NEW q, Searched(q, ask),
           NEW parsed, parsed = ParsePostgrest(q, <<>>, AuthContext(st.auth), st.opts),
           NEW c \in (ToSet(ask.conds) \ Shaping(ask)) \cup ToSet(ask.any)
    PROVE  Reread(c) \in WhereConditions(parsed)
<1>. DEFINE and == Beside(q, ask)
            d == Reread(c)
<1>1. parsed.search = WithAuth(and, AuthContext(st.auth)) /\ {"filter", "or"} \subseteq DOMAIN st.auth
  BY PostgrestTree, SettingAssumption
<1>2. /\ IsSeq(and)
      /\ ToSet(and) =
                {FieldNode(Reread(x)) : x \in ToSet(ask.conds) \ Shaping(ask)} \cup
                (IF ask.any = <<>> THEN {} ELSE {GroupNode("$or", FieldNodes(Rereads(ask.any)))})
  BY BesideRange DEF Searched
<1>3. d # NoCondition
  <2>1. Writable(c)
    BY WrittenMembers DEF Programmed
  <2>2. d.op # "" /\ NoCondition.op = ""
    BY <2>1, RereadSame DEF NoCondition, Condition
  <2>. QED  BY <2>2
<1>4. \E node \in ToSet(and) : d \in NodeConditions2(node)
  <2>1. CASE c \in ToSet(ask.conds) \ Shaping(ask)
    <3>1. FieldNode(d) \in ToSet(and)
      BY <1>2, <2>1
    <3>2. d \in NodeConditions0(FieldNode(d))
      BY DEF NodeConditions0, FieldNode
    <3>. QED  BY <3>1, <3>2, DeeperConditions
  <2>2. CASE c \in ToSet(ask.any)
    <3>1. ask.any # <<>> /\ IsSeq(Rereads(ask.any)) /\ d \in ToSet(Rereads(ask.any))
      BY <2>2, EmptyRange, RereadList DEF Programmed, Written
    <3>2. FieldNode(d) \in ToSet(FieldNodes(Rereads(ask.any)))
      BY <3>1, FieldNodesRange
    <3>3. d \in NodeConditions0(FieldNode(d))
      BY DEF NodeConditions0, FieldNode
    <3>4. d \in NodeConditions1(GroupNode("$or", FieldNodes(Rereads(ask.any))))
      BY <3>2, <3>3, GroupConditions
    <3>5. GroupNode("$or", FieldNodes(Rereads(ask.any))) \in ToSet(and)
      BY <1>2, <3>1
    <3>. QED  BY <3>4, <3>5, DeeperConditions
  <2>. QED  BY <2>1, <2>2
<1>. HIDE DEF and, d
<1>5. PICK node \in ToSet(and) : d \in NodeConditions2(node)
  BY <1>4
<1>6. d \in WhereConditions(parsed)
  BY <1>1, <1>2, <1>3, <1>5, WithAuthConditions
<1>. QED  BY <1>6 DEF d

LEMMA RereadHolds ==
    ASSUME NEW r, NEW c, Writable(c)
    PROVE  Holds(r, Reread(c)) <=> Holds(r, c)
<1>. DEFINE d == Reread(c)
<1>1. d.field = c.field /\ \A v : CondHolds(v, d) <=> CondHolds(v, c)
  BY RereadSame
<1>. HIDE DEF d
<1>2. Holds(r, d) <=> Holds(r, c)
  BY <1>1, Zenon DEF Holds
<1>. QED  BY <1>2 DEF d

LEMMA BesideTruth ==
    ASSUME NEW ask, Programmed(ask), NEW q, SelectOf(q, ask), NEW r
    PROVE  /\ \A node \in ToSet(Beside(q, ask)) : Shallow(r, node)
           /\ Beside(q, ask) = <<>> <=> ToSet(ask.conds) \ Shaping(ask) = {} /\ ToSet(ask.any) = {}
           /\ AllTrue(r, Beside(q, ask)) <=>
                 /\ HoldAll(r, ToSet(ask.conds) \ Shaping(ask))
                 /\ ToSet(ask.any) # {} => HoldSome(r, ToSet(ask.any))
<1>. DEFINE and == Beside(q, ask)
            C == ToSet(ask.conds) \ Shaping(ask)
            O == ToSet(ask.any)
            g == GroupNode("$or", FieldNodes(Rereads(ask.any)))
<1>1. /\ IsSeq(and)
      /\ ToSet(and) = {FieldNode(Reread(c)) : c \in C} \cup (IF ask.any = <<>> THEN {} ELSE {g})
  BY BesideRange
<1>2. \A c \in C \cup O : Writable(c)
  BY WrittenMembers DEF Programmed
<1>3. ask.any = <<>> <=> O = {}
  BY EmptyRange DEF Programmed, Written
<1>4. \A c \in C : /\ Shallow(r, FieldNode(Reread(c)))
                   /\ Node2(r, FieldNode(Reread(c)), "$and") <=> Holds(r, c)
  <2>. TAKE c \in C
  <2>1. /\ Node2(r, FieldNode(Reread(c)), "$and") <=> Holds(r, Reread(c))
        /\ Node3(r, FieldNode(Reread(c)), "$and") <=> Holds(r, Reread(c))
        /\ Node4(r, FieldNode(Reread(c)), "$and") <=> Holds(r, Reread(c))
    BY OneFieldNode
  <2>2. Holds(r, Reread(c)) <=> Holds(r, c)
    BY <1>2, RereadHolds
  <2>. QED  BY <2>1, <2>2, Zenon DEF Shallow
<1>5. Shallow(r, g) /\ (Node2(r, g, "$and") <=> HoldSome(r, O))
  <2>. DEFINE nodes == FieldNodes(Rereads(ask.any))
  <2>1. ToSet(nodes) = {FieldNode(d) : d \in ToSet(Rereads(ask.any))}
        /\ ToSet(Rereads(ask.any)) = {Reread(c) : c \in O}
    BY FieldNodesRange, RereadList DEF Programmed, Written
  <2>2. ASSUME NEW c \in O
        PROVE  /\ Node1(r, FieldNode(Reread(c)), "$or") <=> Holds(r, c)
               /\ Node2(r, FieldNode(Reread(c)), "$or") <=> Holds(r, c)
               /\ Node3(r, FieldNode(Reread(c)), "$or") <=> Holds(r, c)
    <3>1. /\ Node1(r, FieldNode(Reread(c)), "$or") <=> Holds(r, Reread(c))
          /\ Node2(r, FieldNode(Reread(c)), "$or") <=> Holds(r, Reread(c))
          /\ Node3(r, FieldNode(Reread(c)), "$or") <=> Holds(r, Reread(c))
      BY OneFieldNode
    <3>2. Holds(r, Reread(c)) <=> Holds(r, c)
      BY <1>2, RereadHolds
    <3>. QED  BY <3>1, <3>2, Zenon
  <2>3. ToSet(nodes) = {FieldNode(Reread(c)) : c \in O}
    BY <2>1
  <2>. HIDE DEF nodes, O
  <2>4. /\ (\E node \in ToSet(nodes) : Node1(r, node, "$or")) <=> HoldSome(r, O)
        /\ (\E node \in ToSet(nodes) : Node2(r, node, "$or")) <=> HoldSome(r, O)
        /\ (\E node \in ToSet(nodes) : Node3(r, node, "$or")) <=> HoldSome(r, O)
    BY <2>2, <2>3 DEF HoldSome
  <2>5. /\ Node2(r, g, "$and") <=> \E node \in ToSet(nodes) : Node1(r, node, "$or")
        /\ Node3(r, g, "$and") <=> \E node \in ToSet(nodes) : Node2(r, node, "$or")
        /\ Node4(r, g, "$and") <=> \E node \in ToSet(nodes) : Node3(r, node, "$or")
    BY OrGroup DEF nodes
  <2>. QED  BY <2>4, <2>5, Zenon DEF Shallow
<1>. HIDE DEF and, C, O, g
<1>6. \A node \in ToSet(and) : Shallow(r, node)
  BY <1>1, <1>4, <1>5
<1>7. and = <<>> <=> C = {} /\ O = {}
  <2>1. and = <<>> <=> ToSet(and) = {}
    BY <1>1, EmptyRange
  <2>2. ToSet(and) = {} <=> C = {} /\ O = {}
    BY <1>1, <1>3
  <2>. QED  BY <2>1, <2>2
<1>8. AllTrue(r, and) <=> HoldAll(r, C) /\ (O # {} => HoldSome(r, O))
  <2>1. AllTrue(r, and) <=> /\ \A c \in C : Node2(r, FieldNode(Reread(c)), "$and")
                            /\ ask.any # <<>> => Node2(r, g, "$and")
    BY <1>1 DEF AllTrue
  <2>2. (\A c \in C : Node2(r, FieldNode(Reread(c)), "$and")) <=> HoldAll(r, C)
    BY <1>4 DEF HoldAll
  <2>. QED  BY <1>3, <1>5, <2>1, <2>2
<1>. QED  BY <1>6, <1>7, <1>8 DEF and, C, O

LEMMA PostgrestWhere ==
    ASSUME NEW st \in Setting, PlainSettings, NEW ask, Programmed(ask), NEW q, Searched(q, ask),
           NEW parsed, parsed = ParsePostgrest(q, <<>>, AuthContext(st.auth), st.opts),
           NEW joined, <<>> \notin joined,
           Known(joined, (ToSet(ask.conds) \ Shaping(ask)) \cup ToSet(ask.any)), NEW id, NEW env
    PROVE  WhereHolds(parsed, RowValues(id, env, joined))
              <=> PostgrestKeeps(ask, st, id, KeyOf(env, joined))
<1>. DEFINE and == Beside(q, ask)
            r == RowValues(id, env, joined)
            k == KeyOf(env, joined)
            C == ToSet(ask.conds) \ Shaping(ask)
            O == ToSet(ask.any)
<1>1. parsed.search = WithAuth(and, AuthContext(st.auth)) /\ parsed.paramsFilter = <<>>
  BY PostgrestTree
<1>2. IsSeq(and)
  BY BesideRange DEF Searched
<1>3. /\ \A node \in ToSet(and) : Shallow(r, node)
      /\ and = <<>> <=> C = {} /\ O = {}
      /\ AllTrue(r, and) <=> HoldAll(r, C) /\ (O # {} => HoldSome(r, O))
  BY BesideTruth DEF Searched
<1>4. /\ HoldSome(r, NodeConditions0(st.auth.or)) <=> Some(id, k, NodeConditions0(st.auth.or))
      /\ HoldAll(r, NodeConditions0(st.auth.filter)) <=> All(id, k, NodeConditions0(st.auth.filter))
      /\ Flat(st.auth.or) /\ Flat(st.auth.filter)
  BY SettingNodes, ColumnsKnown, RowTruth
<1>5. HoldAll(r, C) <=> All(id, k, C)
  <2>1. Known(joined, C)
    BY DEF Known
  <2>. HIDE DEF C
  <2>. QED  BY <2>1, RowTruth
<1>6. HoldSome(r, O) <=> Some(id, k, O)
  <2>1. Known(joined, O)
    BY DEF Known
  <2>. HIDE DEF O
  <2>. QED  BY <2>1, RowTruth
<1>. HIDE DEF and, r
<1>7. WhereHolds(parsed, r) <=>
        IF st.auth.or # <<>>
        THEN HoldSome(r, NodeConditions0(st.auth.or)) \/ (and # <<>> /\ AllTrue(r, and))
        ELSE HoldAll(r, NodeConditions0(st.auth.filter)) /\ AllTrue(r, and)
  <2>1. {"filter", "or"} \subseteq DOMAIN st.auth
    BY SettingAssumption
  <2>. QED  BY <1>1, <1>2, <1>3, <1>4, <2>1, WithAuthTruth
<1>8. PostgrestKeeps(ask, st, id, k) <=>
        \/ AuthWidens(st, id, k)
        \/ /\ AuthAllows(st, id, k)
           /\ st.auth.or # <<>> => C \cup O # {}
           /\ All(id, k, C)
           /\ O # {} => Some(id, k, O)
  BY Zenon DEF PostgrestKeeps
<1>. HIDE DEF C, O, k
<1>9. (C \cup O = {}) <=> (C = {} /\ O = {})
  OBVIOUS
<1>10. WhereHolds(parsed, r) <=> PostgrestKeeps(ask, st, id, k)
  BY <1>3, <1>4, <1>5, <1>6, <1>7, <1>8, <1>9 DEF AuthWidens, AuthAllows
<1>. QED  BY <1>10 DEF r, k

-----------------------------------------------------------------------------
(* Joins.                                                                  *)

Wanted(ask, st) ==
    (ToSet(ask.relations) \cup {p \in DOMAIN st.opts.join : st.opts.join[p].eager})
        \cap DOMAIN st.opts.join

Joined(ask, st) ==
    {p \in Wanted(ask, st) : \A n \in 1..Len(p) : SubSeq(p, 1, n) \in Wanted(ask, st)}

LEMMA JoinedIs ==
    ASSUME NEW ask, NEW st, NEW parsed, NEW S, JoinsAre(parsed.join, ask, S)
    PROVE  JoinedPaths(parsed, st.opts) = Joined(ask, st)
<1>1. {j.path : j \in ToSet(parsed.join)} = ToSet(ask.relations)
  <2>1. {j.path : j \in ToSet(parsed.join)} = {parsed.join[i].path : i \in DOMAIN parsed.join}
    BY DEF ToSet
  <2>. QED  BY <2>1 DEF JoinsAre
<1>2. WantedJoins(parsed, st.opts) \cap DOMAIN st.opts.join = Wanted(ask, st)
  BY <1>1, Zenon DEF WantedJoins, Wanted
<1>3. JoinedPaths(parsed, st.opts)
        = {p \in WantedJoins(parsed, st.opts) \cap DOMAIN st.opts.join : \A n \in 1..Len(p) :
              SubSeq(p, 1, n) \in WantedJoins(parsed, st.opts) \cap DOMAIN st.opts.join}
  BY Zenon DEF JoinedPaths
<1>. QED  BY <1>2, <1>3, Zenon DEF Joined

LEMMA AskedPathShape ==
    /\ Len(AskedPath) = 1 /\ AskedPath # <<>> /\ 1..Len(AskedPath) = {1}
    /\ SubSeq(AskedPath, 1, 1) = AskedPath
<1>1. PICK x : AskedPath = <<x>>
  BY DEF AskedPath
<1>. DEFINE s == <<x>>
            t == SubSeq(s, 1, 1)
<1>2. Len(s) = 1 /\ s # <<>> /\ 1..Len(s) = {1} /\ s \in Seq({x})
  OBVIOUS
<1>3. t \in Seq({x}) /\ Len(t) = 1
  BY <1>2
<1>4. t[1] = x /\ s[1] = x
  BY <1>3
<1>. HIDE DEF s, t
<1>5. t = s
  BY <1>2, <1>3, <1>4, SeqEqual
<1>. QED  BY <1>1, <1>2, <1>5 DEF s, t

LEMMA JoinedFacts ==
    ASSUME PlainSettings, NEW st \in Setting, NEW ask
    PROVE  /\ <<>> \notin Joined(ask, st)
           /\ Joined(ask, st) \subseteq DOMAIN st.opts.join
           /\ Joined(ask, st) \subseteq DOMAIN Related
           /\ AskedPath \in Joined(ask, st) <=> AskedPath \in Wanted(ask, st)
           /\ \A p \in Joined(ask, st) :
                 /\ Len(p) \in Nat \ {0}
                 /\ Len(p) # 1 => Front(p) \in Joined(ask, st) /\ Len(Front(p)) = Len(p) - 1
<1>. DEFINE wanted == Wanted(ask, st)
            joined == Joined(ask, st)
<1>1. joined = {p \in wanted : \A n \in 1..Len(p) : SubSeq(p, 1, n) \in wanted}
  BY DEF Joined
<1>2. wanted \subseteq DOMAIN st.opts.join
  BY DEF Wanted
<1>3. DOMAIN st.opts.join \subseteq DOMAIN Related \ {<<>>}
  BY DEF PlainSettings
<1>. HIDE DEF wanted, joined
<1>4. AskedPath \in joined <=> AskedPath \in wanted
  BY <1>1, AskedPathShape
<1>5. ASSUME NEW p \in joined
      PROVE  /\ Len(p) \in Nat \ {0}
             /\ Len(p) # 1 => Front(p) \in joined /\ Len(Front(p)) = Len(p) - 1
  <2>1. p \in Seq(ToSet(p)) /\ p # <<>>
    BY <1>1, <1>2, <1>3, SettingAssumption
  <2>2. Len(p) \in Nat \ {0}
    BY <2>1, EmptySeq, LenProperties
  <2>3. ASSUME Len(p) # 1 PROVE Front(p) \in joined /\ Len(Front(p)) = Len(p) - 1
    <3>. DEFINE n == Len(p) - 1
                f == SubSeq(p, 1, n)
    <3>1. n \in 1..Len(p) /\ Front(p) = f
      BY <2>2, <2>3 DEF Front
    <3>2. f \in Seq(ToSet(p)) /\ Len(f) = n
      BY <2>1, <2>2, <3>1
    <3>3. f \in wanted
      BY <1>1, <3>1
    <3>4. ASSUME NEW m \in 1..Len(f) PROVE SubSeq(f, 1, m) \in wanted
      <4>1. SubSeq(f, 1, m) = SubSeq(p, 1, m)
        BY <2>1, <3>1, <3>2, PathPrefix
      <4>2. m \in 1..Len(p)
        BY <2>2, <3>1, <3>2
      <4>. QED  BY <1>1, <4>1, <4>2
    <3>. HIDE DEF n, f
    <3>5. f \in joined
      BY <1>1, <3>3, <3>4
    <3>. QED  BY <3>1, <3>2, <3>5 DEF n
  <2>. QED  BY <2>2, <2>3
<1>6. <<>> \notin joined /\ joined \subseteq DOMAIN st.opts.join /\ joined \subseteq DOMAIN Related
  BY <1>1, <1>2, <1>3
<1>. QED  BY <1>4, <1>5, <1>6 DEF joined, wanted

\* The joins of a parsed request; only conditions of a joined relation shape it.
JoinsFor(parsed, ask, S) ==
    /\ JoinsAre(parsed.join, ask, S)
    /\ \A c \in S : Writable(c) /\ c.field[1] = AskedPath /\ AskedPath \in ToSet(ask.relations)

LEMMA JoinOfIs ==
    ASSUME NEW parsed, NEW ask, NEW S, JoinsFor(parsed, ask, S), NEW p
    PROVE  /\ JoinOf(parsed, p).path = p /\ JoinOf(parsed, p).select = <<>>
           /\ OnIs(JoinOf(parsed, p).on, S, p)
<1>. DEFINE same == {i \in DOMAIN parsed.join : parsed.join[i].path = p}
            none == [path |-> p, inner |-> FALSE, on |-> <<>>, select |-> <<>>]
<1>1. JoinOf(parsed, p) = IF same = {} THEN none ELSE parsed.join[Max(same)]
  BY Zenon DEF JoinOf
<1>2. CASE same = {}
  <2>1. p \notin ToSet(ask.relations)
    BY <1>2 DEF JoinsFor, JoinsAre
  <2>2. {d \in S : d.field[1] = p} = {}
    BY <2>1 DEF JoinsFor, JoinsAre
  <2>3. ToSet(<<>>) = {}
    BY DEF ToSet
  <2>4. JoinOf(parsed, p) = none
    BY <1>1, <1>2
  <2>5. none.path = p /\ none.select = <<>> /\ none.on = <<>>
    OBVIOUS
  <2>6. {Reread(c) : c \in {d \in S : d.field[1] = p}} = {}
    BY <2>2
  <2>7. OnIs(<<>>, S, p)
    BY <2>3, <2>6, Zenon DEF OnIs
  <2>. HIDE DEF none
  <2>. QED  BY <2>4, <2>5, <2>7
<1>3. CASE same # {}
  <2>1. DOMAIN parsed.join = 1..Len(parsed.join) /\ Len(parsed.join) \in Nat
    BY SeqDomain DEF JoinsFor, JoinsAre
  <2>2. same \in SUBSET (1..Len(parsed.join))
    BY <2>1
  <2>3. \E m \in same : \A i \in same : i <= m
    BY <1>3, <2>1, <2>2, LastIndex
  <2>4. \E m \in same : \A i \in same : m >= i
    BY <2>2, <2>3
  <2>5. Max(same) \in same
    <3>. HIDE DEF same
    <3>. QED  BY <2>4 DEF Max
  <2>. DEFINE m == Max(same)
  <2>6. m \in DOMAIN parsed.join /\ parsed.join[m].path = p
    BY <2>5
  <2>7. JoinOf(parsed, p) = parsed.join[m]
    BY <1>1, <1>3
  <2>. HIDE DEF m
  <2>8. OnIs(parsed.join[m].on, S, parsed.join[m].path) /\ parsed.join[m].select = <<>>
    BY <2>6 DEF JoinsFor, JoinsAre
  <2>. QED  BY <2>6, <2>7, <2>8
<1>. QED  BY <1>2, <1>3

-----------------------------------------------------------------------------
(* The rows of the join that belong to one root row.                       *)

\* The related rows of id that the conditions of S choose.
Chosen(id, S) == {k \in OwnRelated(id) : All(id, k, S)}

LEMMA MatchingIs ==
    ASSUME NEW parsed, NEW ask, NEW S, JoinsFor(parsed, ask, S), AskedPath \in DOMAIN Related,
           NEW id, NEW env
    PROVE  Matching(id, env, AskedPath, JoinOf(parsed, AskedPath).on) = Chosen(id, S)
<1>. DEFINE on == JoinOf(parsed, AskedPath).on
            row(k) == Related[AskedPath][k].row
<1>1. ToSet(on) = {Reread(c) : c \in S}
  <2>1. ToSet(on) = {Reread(c) : c \in {d \in S : d.field[1] = AskedPath}}
    BY JoinOfIs DEF OnIs
  <2>2. {d \in S : d.field[1] = AskedPath} = S
    BY DEF JoinsFor, JoinsAre
  <2>. QED  BY <2>1, <2>2
<1>2. ParentKey(id, env, AskedPath) = id
  BY AskedPathShape DEF ParentKey
<1>. HIDE DEF on
<1>3. ASSUME NEW k \in DOMAIN Related[AskedPath]
      PROVE  (\A i \in DOMAIN on : CondHolds(Related[AskedPath][k].row[on[i].field[2]], on[i]))
                <=> All(id, k, S)
  <2>1. (\A i \in DOMAIN on : CondHolds(row(k)[on[i].field[2]], on[i]))
          <=> (\A d \in ToSet(on) : CondHolds(row(k)[d.field[2]], d))
    <3>. HIDE DEF row
    <3>. QED  BY DEF ToSet
  <2>2. ASSUME NEW c \in S
        PROVE  CondHolds(row(k)[Reread(c).field[2]], Reread(c)) <=> RowHolds(id, k, c)
    <3>1. Writable(c) /\ c.field[1] = AskedPath
      BY DEF JoinsFor, JoinsAre
    <3>2. Reread(c).field = c.field /\ \A v : CondHolds(v, Reread(c)) <=> CondHolds(v, c)
      BY <3>1, RereadSame
    <3>3. k # Null /\ c.field[1] # <<>>
      BY <3>1, AskedPathShape, CrudServiceAssumption
    <3>4. RowHolds(id, k, c) <=> CondHolds(row(k)[c.field[2]], c)
      <4>1. (IF c.field[1] = <<>> THEN Rows[id][c.field[2]]
             ELSE IF k = Null THEN Null ELSE Related[c.field[1]][k].row[c.field[2]])
               = row(k)[c.field[2]]
        BY <3>1, <3>3
      <4>. HIDE DEF row
      <4>. QED  BY <4>1, Zenon DEF RowHolds
    <3>5. CondHolds(row(k)[Reread(c).field[2]], Reread(c)) <=> CondHolds(row(k)[c.field[2]], c)
      <4>. HIDE DEF row
      <4>. QED  BY <3>2
    <3>. QED  BY <3>4, <3>5
  <2>3. (\A d \in ToSet(on) : CondHolds(row(k)[d.field[2]], d)) <=> All(id, k, S)
    <3>. HIDE DEF row
    <3>1. (\A d \in ToSet(on) : CondHolds(row(k)[d.field[2]], d))
            <=> (\A c \in S : CondHolds(row(k)[Reread(c).field[2]], Reread(c)))
      BY <1>1
    <3>. QED  BY <2>2, <3>1 DEF All
  <2>. QED  BY <2>1, <2>3
<1>4. Matching(id, env, AskedPath, on) = {k \in DOMAIN Related[AskedPath] :
        /\ Related[AskedPath][k].of = id
        /\ \A i \in DOMAIN on : CondHolds(Related[AskedPath][k].row[on[i].field[2]], on[i])}
  BY <1>2, Zenon DEF Matching
<1>5. Matching(id, env, AskedPath, on) = Chosen(id, S)
  BY <1>3, <1>4 DEF Chosen, OwnRelated
<1>. QED  BY <1>5 DEF on

\* The related rows of id the join offers are those of M.
Offers(parsed, id, M) ==
    \A env : Matching(id, env, AskedPath, JoinOf(parsed, AskedPath).on) = M

\* v may be the related row of a row of the join that has those of M to offer.
MayTake(st, M, v) ==
    IF M = {} THEN ~JoinOptions(st.opts, AskedPath).required /\ v = Null ELSE v \in M

\* Every choice of the related row the conditions read extends to a row of the
\* join, relation below relation.
LEMMA EnvironmentExists ==
    ASSUME PlainSettings, NEW st \in Setting, NEW ask, NEW joined, joined = Joined(ask, st),
           NEW parsed, NEW id, NEW M, NEW v, Offers(parsed, id, M),
           AskedPath \in joined => MayTake(st, M, v)
    PROVE  \E env \in Environments(id, parsed, st.opts, joined) :
              AskedPath \in joined => env[AskedPath] = v
<1>. DEFINE T == {Null} \cup UNION {DOMAIN Related[p] : p \in joined}
            lev(n) == {p \in joined : Len(p) <= n}
            rows(env, p) == Matching(id, env, p, JoinOf(parsed, p).on)
            pick(env, p) == IF p = AskedPath THEN v
                            ELSE IF rows(env, p) = {} THEN Null ELSE CHOOSE k \in rows(env, p) : TRUE
            right(env, p) ==
                /\ IF rows(env, p) = {} THEN ~JoinOptions(st.opts, p).required /\ env[p] = Null
                   ELSE env[p] \in rows(env, p)
                /\ p = AskedPath => env[p] = v
            good(n, env) == env \in [lev(n) -> T] /\ \A p \in lev(n) : right(env, p)
            N == {n \in Nat : \E env : good(n, env)}
<1>1. /\ <<>> \notin joined /\ joined \subseteq DOMAIN st.opts.join
      /\ \A p \in joined : /\ Len(p) \in Nat \ {0}
                           /\ Len(p) # 1 => Front(p) \in joined /\ Len(Front(p)) = Len(p) - 1
  BY JoinedFacts
<1>2. \A p \in joined : p # AskedPath => ~JoinOptions(st.opts, p).required
  BY <1>1 DEF JoinOptions, PlainSettings
<1>3. \A p \in joined : \A env : rows(env, p) \subseteq T
  <2>1. \A p, env : rows(env, p) \subseteq DOMAIN Related[p]
    BY DEF Matching
  <2>. HIDE DEF rows
  <2>. QED  BY <2>1
<1>4. 0 \in N
  <2>1. lev(0) = {}
    BY <1>1
  <2>. DEFINE env == [p \in {} |-> Null]
  <2>2. env \in [{} -> T]
    OBVIOUS
  <2>. HIDE DEF T, lev, env, right
  <2>3. good(0, env)
    BY <2>1, <2>2
  <2>. QED  BY <2>3
<1>5. ASSUME NEW n \in Nat, n \in N PROVE n + 1 \in N
  <2>1. PICK env : good(n, env)
    BY <1>5
  <2>. DEFINE new == [p \in lev(n + 1) |-> IF p \in lev(n) THEN env[p] ELSE pick(env, p)]
  <2>2. ASSUME NEW p \in lev(n + 1) PROVE rows(new, p) = rows(env, p)
    <3>1. p \in joined /\ Len(p) <= n + 1 /\ Len(p) \in Nat \ {0}
      BY <1>1
    <3>2. Len(p) # 1 => Front(p) \in lev(n) /\ Front(p) \in lev(n + 1)
      BY <1>1, <3>1
    <3>3. Len(p) # 1 => new[Front(p)] = env[Front(p)]
      <4>. HIDE DEF lev, pick
      <4>. QED  BY <3>2
    <3>. HIDE DEF new
    <3>4. ParentKey(id, new, p) = ParentKey(id, env, p)
      BY <3>3 DEF ParentKey
    <3>. QED  BY <3>4, Zenon DEF Matching
  <2>3. ASSUME NEW p \in lev(n + 1) PROVE new[p] \in T /\ right(new, p)
    <3>1. p \in joined
      OBVIOUS
    <3>2. CASE p \in lev(n)
      <4>1. new[p] = env[p]
        <5>. HIDE DEF lev, pick
        <5>. QED  BY <3>2
      <4>2. env[p] \in T /\ right(env, p)
        <5>. HIDE DEF lev, T, right
        <5>. QED  BY <2>1, <3>2
      <4>3. rows(new, p) = rows(env, p)
        BY <2>2
      <4>. HIDE DEF new, rows, T
      <4>. QED  BY <4>1, <4>2, <4>3
    <3>3. CASE p \notin lev(n)
      <4>1. new[p] = pick(env, p)
        <5>. HIDE DEF lev, pick
        <5>. QED  BY <3>3
      <4>2. rows(new, p) = rows(env, p) /\ rows(env, p) \subseteq T
        BY <1>3, <2>2
      <4>3. CASE p = AskedPath
        <5>1. rows(env, p) = M /\ new[p] = v
          BY <4>1, <4>3 DEF Offers
        <5>2. IF M = {} THEN ~JoinOptions(st.opts, p).required /\ v = Null ELSE v \in M
          BY <3>1, <4>3 DEF MayTake
        <5>3. Null \in T
          OBVIOUS
        <5>. HIDE DEF new, rows, T
        <5>. QED  BY <4>2, <5>1, <5>2, <5>3
      <4>4. CASE p # AskedPath
        <5>1. ~JoinOptions(st.opts, p).required
          BY <1>2, <3>1, <4>4
        <5>2. new[p] = IF rows(env, p) = {} THEN Null ELSE CHOOSE k \in rows(env, p) : TRUE
          BY <4>1, <4>4
        <5>3. Null \in T
          OBVIOUS
        <5>. HIDE DEF new, rows, T
        <5>4. rows(env, p) # {} => new[p] \in rows(env, p)
          BY <5>2
        <5>. QED  BY <4>2, <4>4, <5>1, <5>2, <5>3, <5>4
      <4>. QED  BY <4>3, <4>4
    <3>. QED  BY <3>2, <3>3
  <2>4. new = [p \in lev(n + 1) |-> new[p]]
    <3>. HIDE DEF lev, pick
    <3>. QED  OBVIOUS
  <2>. HIDE DEF new, lev, T, right
  <2>5. new \in [lev(n + 1) -> T]
    BY <2>3, <2>4
  <2>6. good(n + 1, new)
    BY <2>3, <2>5
  <2>. HIDE DEF good
  <2>. QED  BY <2>6
<1>6. PICK depth \in Nat : \A p \in DOMAIN st.opts.join : Len(p) <= depth
  <2>1. \A p \in DOMAIN st.opts.join : Len(p) \in Nat
    BY SettingAssumption, LenProperties
  <2>. QED  BY <2>1 DEF PlainSettings
<1>7. depth \in N
  <2>. HIDE DEF N
  <2>1. \A n \in Nat : n \in N => n + 1 \in N
    BY <1>5
  <2>. QED  BY <1>4, <1>6, <2>1, ClimbsForever
<1>8. PICK env : good(depth, env)
  BY <1>7
<1>9. lev(depth) = joined
  BY <1>1, <1>6
<1>10. env \in [joined -> T] /\ \A p \in joined : right(env, p)
  <2>. HIDE DEF lev, right, T
  <2>. QED  BY <1>8, <1>9
<1>11. env \in Environments(id, parsed, st.opts, joined)
  <2>. HIDE DEF T
  <2>1. \A p \in joined : IF rows(env, p) = {} THEN ~JoinOptions(st.opts, p).required /\ env[p] = Null
                          ELSE env[p] \in rows(env, p)
    BY <1>10
  <2>. QED  BY <1>10, <2>1, Zenon DEF Environments, T
<1>12. AskedPath \in joined => env[AskedPath] = v
  <2>. HIDE DEF T, rows
  <2>. QED  BY <1>10
<1>. QED  BY <1>11, <1>12

-----------------------------------------------------------------------------
(* The rows that are kept.                                                 *)

LEMMA RequiredIs ==
    ASSUME PlainSettings, NEW st \in Setting, NEW ask, NEW S, NEW id
    PROVE  HasRequired(ask, st, id, S) <=>
              (AskedPath \in Joined(ask, st) /\ JoinOptions(st.opts, AskedPath).required
                  => Chosen(id, S) # {})
BY JoinedFacts DEF HasRequired, JoinOptions, Wanted, Chosen

\* WHERE keeps the rows of the join whose related row is in W.
Decides(parsed, st, joined, id, W) ==
    \A env \in Environments(id, parsed, st.opts, joined) :
        WhereHolds(parsed, RowValues(id, env, joined)) <=> KeyOf(env, joined) \in W

Indifferent(id, W) == \A k, l \in {Null} \cup OwnRelated(id) : k \in W <=> l \in W

\* A row is kept when one of its related rows is, if a row of the join decides;
\* when the conditions choose among the related rows, or none is joined, what
\* is asked does not depend on them.
LEMMA KeptIs ==
    ASSUME PlainSettings, NEW st \in Setting, NEW ask, NEW S,
           NEW joined, joined = Joined(ask, st),
           NEW parsed, JoinsFor(parsed, ask, S), NEW id, NEW W,
           Decides(parsed, st, joined, id, W),
           S # {} \/ AskedPath \notin joined => Indifferent(id, W)
    PROVE  KeptEnvironments(id, parsed, st.opts, joined) # {}
              <=> (\E k \in Keys(id) : k \in W) /\ HasRequired(ask, st, id, S)
<1>. DEFINE M == Chosen(id, S)
            required == JoinOptions(st.opts, AskedPath).required
            envs == Environments(id, parsed, st.opts, joined)
<1>1. \A env : Matching(id, env, AskedPath, JoinOf(parsed, AskedPath).on) = M
  BY MatchingIs DEF PlainSettings
<1>2. HasRequired(ask, st, id, S) <=> (AskedPath \in joined /\ required => M # {})
  BY RequiredIs
<1>3. KeptEnvironments(id, parsed, st.opts, joined) # {} <=> \E env \in envs : KeyOf(env, joined) \in W
  BY DEF KeptEnvironments, Decides
<1>4. /\ M \subseteq OwnRelated(id)
      /\ S = {} => M = OwnRelated(id)
      /\ Keys(id) = IF OwnRelated(id) = {} THEN {Null} ELSE OwnRelated(id)
  BY DEF Chosen, All, Keys
<1>5. ASSUME NEW env \in envs, AskedPath \in joined
      PROVE  IF M = {} THEN ~required /\ env[AskedPath] = Null ELSE env[AskedPath] \in M
  BY <1>1, <1>5 DEF Environments
<1>6. ASSUME NEW v, AskedPath \in joined => IF M = {} THEN ~required /\ v = Null ELSE v \in M
      PROVE  \E env \in envs : AskedPath \in joined => env[AskedPath] = v
  <2>1. AskedPath \in joined => MayTake(st, M, v)
    BY <1>6 DEF MayTake
  <2>2. Offers(parsed, id, M)
    BY <1>1 DEF Offers
  <2>. HIDE DEF M
  <2>. QED  BY <2>1, <2>2, EnvironmentExists
<1>. HIDE DEF M, required, envs
<1>7. ASSUME \E env \in envs : KeyOf(env, joined) \in W
      PROVE  (\E k \in Keys(id) : k \in W) /\ (AskedPath \in joined /\ required => M # {})
  BY <1>4, <1>5, <1>7 DEF KeyOf, Indifferent
<1>8. ASSUME \E k \in Keys(id) : k \in W, AskedPath \in joined /\ required => M # {}
      PROVE  \E env \in envs : KeyOf(env, joined) \in W
  <2>1. PICK k \in Keys(id) : k \in W
    BY <1>8
  <2>. DEFINE v == IF M = {} THEN Null ELSE IF k \in M THEN k ELSE CHOOSE m \in M : TRUE
  <2>2. IF M = {} THEN v = Null ELSE v \in M
    OBVIOUS
  <2>3. AskedPath \in joined => v \in W
    BY <1>4, <2>1 DEF Indifferent
  <2>. HIDE DEF v
  <2>4. PICK env \in envs : AskedPath \in joined => env[AskedPath] = v
    BY <1>6, <1>8, <2>2
  <2>5. AskedPath \notin joined => Null \in W
    BY <1>4, <2>1 DEF Indifferent
  <2>. QED  BY <2>3, <2>4, <2>5 DEF KeyOf
<1>. QED  BY <1>2, <1>3, <1>7, <1>8

LEMMA RootIndependent ==
    ASSUME NEW conds, \A c \in conds : OnRoot(c), NEW id, NEW k, NEW l
    PROVE  /\ All(id, k, conds) <=> All(id, l, conds)
           /\ Some(id, k, conds) <=> Some(id, l, conds)
<1>1. \A c \in conds : RowHolds(id, k, c) <=> RowHolds(id, l, c)
  <2>. TAKE c \in conds
  <2>1. c.field[1] = <<>>
    BY DEF OnRoot
  <2>. QED  BY <2>1, Zenon DEF RowHolds
<1>. QED  BY <1>1 DEF All, Some

LEMMA SettingOnRoot ==
    ASSUME PlainSettings, NEW st \in Setting, NEW id, NEW k, NEW l
    PROVE  /\ AuthWidens(st, id, k) <=> AuthWidens(st, id, l)
           /\ AuthAllows(st, id, k) <=> AuthAllows(st, id, l)
           /\ ControllerHolds(st, id, k) <=> ControllerHolds(st, id, l)
<1>1. \A node : OnColumns(node) => \A c \in NodeConditions0(node) : OnRoot(c)
  BY DEF OnColumns, NodeConditions0, OnRoot
<1>2. /\ \A c \in NodeConditions0(st.auth.or) \cup NodeConditions0(st.auth.filter) : OnRoot(c)
      /\ \A node \in ToSet(st.opts.filter) : \A c \in NodeConditions0(node) : OnRoot(c)
  BY <1>1, SettingNodes
<1>3. Some(id, k, NodeConditions0(st.auth.or)) <=> Some(id, l, NodeConditions0(st.auth.or))
  BY <1>2, RootIndependent
<1>4. All(id, k, NodeConditions0(st.auth.filter)) <=> All(id, l, NodeConditions0(st.auth.filter))
  BY <1>2, RootIndependent
<1>5. \A node \in ToSet(st.opts.filter) : All(id, k, NodeConditions0(node)) <=> All(id, l, NodeConditions0(node))
  BY <1>2, RootIndependent
<1>. QED  BY <1>3, <1>4, <1>5 DEF AuthWidens, AuthAllows, ControllerHolds

LEMMA KeepsOnRoot ==
    ASSUME PlainSettings, NEW st \in Setting, NEW ask, NEW id, NEW k, NEW l
    PROVE  /\ (\A c \in Standing(ask.conds) \cup ToSet(ask.any) : OnRoot(c))
              => (NestjsxKeeps(ask, st, id, k) <=> NestjsxKeeps(ask, st, id, l))
           /\ (\A c \in (ToSet(ask.conds) \ Shaping(ask)) \cup ToSet(ask.any) : OnRoot(c))
              => (PostgrestKeeps(ask, st, id, k) <=> PostgrestKeeps(ask, st, id, l))
<1>. DEFINE same(C) == /\ All(id, k, C) <=> All(id, l, C)
                       /\ Some(id, k, C) <=> Some(id, l, C)
            O == ToSet(ask.any)
<1>1. \A C : (\A c \in C : OnRoot(c)) => same(C)
  BY RootIndependent
<1>2. /\ AuthWidens(st, id, k) <=> AuthWidens(st, id, l)
      /\ AuthAllows(st, id, k) <=> AuthAllows(st, id, l)
      /\ ControllerHolds(st, id, k) <=> ControllerHolds(st, id, l)
  BY SettingOnRoot
<1>3. ASSUME \A c \in Standing(ask.conds) \cup O : OnRoot(c)
      PROVE  NestjsxKeeps(ask, st, id, k) <=> NestjsxKeeps(ask, st, id, l)
  <2>. DEFINE C == Standing(ask.conds)
  <2>1. same(C) /\ same(O)
    BY <1>1, <1>3
  <2>2. \A m : NestjsxKeeps(ask, st, id, m) <=>
           \/ AuthWidens(st, id, m)
           \/ /\ AuthAllows(st, id, m)
              /\ st.auth.or # <<>> => C \cup O # {} \/ st.opts.filter # <<>>
              /\ ControllerHolds(st, id, m)
              /\ \/ C # {} /\ All(id, m, C)
                 \/ O # {} /\ (IF C = {} THEN Some(id, m, O) ELSE All(id, m, O))
                 \/ C \cup O = {}
    BY Zenon DEF NestjsxKeeps
  <2>. HIDE DEF C, O
  <2>. QED  BY <1>2, <2>1, <2>2
<1>4. ASSUME \A c \in (ToSet(ask.conds) \ Shaping(ask)) \cup O : OnRoot(c)
      PROVE  PostgrestKeeps(ask, st, id, k) <=> PostgrestKeeps(ask, st, id, l)
  <2>. DEFINE C == ToSet(ask.conds) \ Shaping(ask)
  <2>1. same(C) /\ same(O)
    BY <1>1, <1>4
  <2>2. \A m : PostgrestKeeps(ask, st, id, m) <=>
           \/ AuthWidens(st, id, m)
           \/ /\ AuthAllows(st, id, m)
              /\ st.auth.or # <<>> => C \cup O # {}
              /\ All(id, m, C)
              /\ O # {} => Some(id, m, O)
    BY Zenon DEF PostgrestKeeps
  <2>. HIDE DEF C, O
  <2>. QED  BY <1>2, <2>1, <2>2
<1>. QED  BY <1>3, <1>4

\* What the params object holds when a program has asked for ask.
Paramed(p, ask) ==
    /\ Written(p.filter) /\ ToSet(p.filter) = Standing(ask.conds)
    /\ p.or = ask.any /\ p.join = ask.relations /\ p.fields = ask.columns

LEMMA NestjsxJoins ==
    ASSUME NEW st, NEW ask, Programmed(ask), NEW p, Paramed(p, ask),
           NEW parsed, parsed = ParseNestjsx(BuildQueryParams(p), <<>>, AuthContext(st.auth), st.opts)
    PROVE  JoinsFor(parsed, ask, {})
<1>. DEFINE paths == ask.relations
            tokens == JoinTokens(paths)
            joins == ParseJoins(tokens)
<1>1. parsed.join = joins
  <2>1. BuildQueryParams(p).join = tokens
    BY BuiltQuery DEF Paramed
  <2>. HIDE DEF tokens
  <2>. QED  BY <2>1 DEF ParseNestjsx
<1>2. DOMAIN paths = 1..Len(paths) /\ Len(paths) \in Nat
  BY SeqDomain DEF Programmed
<1>3. DOMAIN tokens = DOMAIN paths
      /\ \A i \in DOMAIN paths : tokens[i].path = paths[i] /\ tokens[i].select = <<>>
  BY DEF JoinTokens
<1>. HIDE DEF tokens
<1>4. DOMAIN joins = 1..Len(paths)
      /\ \A i \in 1..Len(paths) : /\ joins[i].path = paths[i] /\ joins[i].select = <<>>
                                  /\ joins[i].on = <<>>
  BY <1>2, <1>3 DEF ParseJoins
<1>5. joins = [i \in 1..Len(paths) |-> joins[i]]
  BY <1>2, <1>3 DEF ParseJoins
<1>. HIDE DEF joins
<1>6. IsSeq(joins)
  BY <1>2, <1>4, <1>5, ImageSeq
<1>7. {joins[i].path : i \in DOMAIN joins} = ToSet(paths)
  BY <1>2, <1>4 DEF ToSet
<1>8. ASSUME NEW i \in DOMAIN joins
      PROVE  joins[i].select = <<>> /\ OnIs(joins[i].on, {}, joins[i].path)
  <2>1. joins[i].select = <<>> /\ joins[i].on = <<>>
    BY <1>4
  <2>2. ToSet(<<>>) = {}
    BY DEF ToSet
  <2>3. {Reread(c) : c \in {d \in {} : d.field[1] = joins[i].path}} = {}
    OBVIOUS
  <2>. QED  BY <2>1, <2>2, <2>3 DEF OnIs
<1>. QED  BY <1>1, <1>6, <1>7, <1>8 DEF JoinsFor, JoinsAre

LEMMA NestjsxKept ==
    ASSUME PlainSettings, NEW st \in Setting, NEW ask, Programmed(ask), NEW p, Paramed(p, ask),
           NEW parsed, parsed = ParseNestjsx(BuildQueryParams(p), <<>>, AuthContext(st.auth), st.opts),
           NEW joined, joined = Joined(ask, st),
           Known(joined, Standing(ask.conds) \cup ToSet(ask.any))
    PROVE  KeptRows(parsed, st.opts, joined) = Meant("nestjsx", ask, st)
<1>1. JoinsFor(parsed, ask, {}) /\ <<>> \notin joined
  BY NestjsxJoins, JoinedFacts
<1>2. ASSUME NEW id
      PROVE  KeptEnvironments(id, parsed, st.opts, joined) # {}
                <=> (\E k \in Keys(id) : NestjsxKeeps(ask, st, id, k)) /\ HasRequired(ask, st, id, {})
  <2>. DEFINE envs == Environments(id, parsed, st.opts, joined)
              W == {k \in {Null} \cup OwnRelated(id) \cup {KeyOf(env, joined) : env \in envs} :
                      NestjsxKeeps(ask, st, id, k)}
  <2>1. Decides(parsed, st, joined, id, W)
    <3>1. \A env : WhereHolds(parsed, RowValues(id, env, joined))
                      <=> NestjsxKeeps(ask, st, id, KeyOf(env, joined))
      BY <1>1, NestjsxWhere DEF Paramed, Programmed
    <3>. QED  BY <3>1 DEF Decides
  <2>2. AskedPath \notin joined => Indifferent(id, W)
    <3>. SUFFICES ASSUME AskedPath \notin joined
                  PROVE  \A k, l : NestjsxKeeps(ask, st, id, k) <=> NestjsxKeeps(ask, st, id, l)
      BY DEF Indifferent
    <3>1. \A c \in Standing(ask.conds) \cup ToSet(ask.any) : OnRoot(c)
      BY <1>1, FieldIsKnown DEF Known, OnRoot
    <3>. QED  BY <3>1, KeepsOnRoot
  <2>3. \A k \in Keys(id) : k \in W <=> NestjsxKeeps(ask, st, id, k)
    BY DEF Keys
  <2>. HIDE DEF W, envs
  <2>4. KeptEnvironments(id, parsed, st.opts, joined) # {}
           <=> (\E k \in Keys(id) : k \in W) /\ HasRequired(ask, st, id, {})
    BY <1>1, <2>1, <2>2, KeptIs
  <2>. QED  BY <2>3, <2>4
<1>3. Meant("nestjsx", ask, st) = {id \in DOMAIN Rows : \E k \in Keys(id) :
          NestjsxKeeps(ask, st, id, k) /\ HasRequired(ask, st, id, {})}
  BY DEF Meant
<1>. QED  BY <1>2, <1>3 DEF KeptRows

LEMMA ShapingMembers ==
    ASSUME NEW ask, Programmed(ask)
    PROVE  /\ \A c \in Shaping(ask) :
                 Writable(c) /\ c.field[1] = AskedPath /\ AskedPath \in ToSet(ask.relations)
           /\ Shaping(ask) # {} => \A c \in ToSet(ask.conds) \ Shaping(ask) : OnRoot(c)
           /\ \A c \in ToSet(ask.any) : OnRoot(c)
<1>1. \A c \in ToSet(ask.conds) : Writable(c) /\ c.field[1] \in {<<>>, AskedPath}
  BY WrittenMembers DEF Programmed
<1>2. \A c \in ToSet(ask.any) : OnRoot(c)
  BY DEF Programmed, ToSet
<1>. QED  BY <1>1, <1>2 DEF Shaping, OnRoot

LEMMA PostgrestJoins ==
    ASSUME NEW st \in Setting, NEW ask, Programmed(ask), NEW q, Searched(q, ask),
           NEW parsed, parsed = ParsePostgrest(q, <<>>, AuthContext(st.auth), st.opts)
    PROVE  JoinsFor(parsed, ask, Shaping(ask))
<1>1. parsed.join = JoinsWithOn(Rereads(ask.conds), ParseEmbeds(q.select))
  BY PostgrestTree
<1>2. Written(ask.conds) /\ IsSeq(ask.columns) /\ IsSeq(ask.relations) /\ SelectOf(q, ask)
  BY DEF Programmed, Searched
<1>. QED  BY <1>1, <1>2, JoinsRead, ShapingMembers DEF JoinsFor

LEMMA PostgrestKept ==
    ASSUME PlainSettings, NEW st \in Setting, NEW ask, Programmed(ask), NEW q, Searched(q, ask),
           NEW parsed, parsed = ParsePostgrest(q, <<>>, AuthContext(st.auth), st.opts),
           NEW joined, joined = Joined(ask, st),
           Known(joined, (ToSet(ask.conds) \ Shaping(ask)) \cup ToSet(ask.any))
    PROVE  KeptRows(parsed, st.opts, joined) = Meant("postgrest", ask, st)
<1>. DEFINE S == Shaping(ask)
<1>1. JoinsFor(parsed, ask, S) /\ <<>> \notin joined
  BY PostgrestJoins, JoinedFacts
<1>2. ASSUME NEW id
      PROVE  KeptEnvironments(id, parsed, st.opts, joined) # {}
                <=> (\E k \in Keys(id) : PostgrestKeeps(ask, st, id, k)) /\ HasRequired(ask, st, id, S)
  <2>. DEFINE envs == Environments(id, parsed, st.opts, joined)
              W == {k \in {Null} \cup OwnRelated(id) \cup {KeyOf(env, joined) : env \in envs} :
                      PostgrestKeeps(ask, st, id, k)}
  <2>1. Decides(parsed, st, joined, id, W)
    <3>1. \A env : WhereHolds(parsed, RowValues(id, env, joined))
                      <=> PostgrestKeeps(ask, st, id, KeyOf(env, joined))
      BY <1>1, PostgrestWhere
    <3>. QED  BY <3>1 DEF Decides
  <2>2. S # {} \/ AskedPath \notin joined => Indifferent(id, W)
    <3>. SUFFICES ASSUME S # {} \/ AskedPath \notin joined
                  PROVE  \A k, l : PostgrestKeeps(ask, st, id, k) <=> PostgrestKeeps(ask, st, id, l)
      BY DEF Indifferent
    <3>1. \A c \in (ToSet(ask.conds) \ S) \cup ToSet(ask.any) : OnRoot(c)
      BY <1>1, ShapingMembers, FieldIsKnown DEF Known, OnRoot
    <3>. QED  BY <3>1, KeepsOnRoot
  <2>3. \A k \in Keys(id) : k \in W <=> PostgrestKeeps(ask, st, id, k)
    BY DEF Keys
  <2>. HIDE DEF W, envs, S
  <2>4. KeptEnvironments(id, parsed, st.opts, joined) # {}
           <=> (\E k \in Keys(id) : k \in W) /\ HasRequired(ask, st, id, S)
    BY <1>1, <2>1, <2>2, KeptIs
  <2>. QED  BY <2>3, <2>4
<1>3. Meant("postgrest", ask, st) = {id \in DOMAIN Rows : \E k \in Keys(id) :
          PostgrestKeeps(ask, st, id, k) /\ HasRequired(ask, st, id, S)}
  BY DEF Meant
<1>. HIDE DEF S
<1>. QED  BY <1>2, <1>3 DEF KeptRows

-----------------------------------------------------------------------------
(* What is shown of the rows.                                              *)

ColumnsAsked(ask) ==
    IF ask.columns = <<>> THEN RootColumn
    ELSE {PrimaryKey} \cup (ToSet(ask.columns) \cap RootColumn)

Whole(p) == [path |-> p, inner |-> FALSE, on |-> <<>>, select |-> <<>>]

JoinsAsked(ask, st) ==
    [p \in Joined(ask, st) |-> JoinColumns(Whole(p), JoinOptions(st.opts, p))]

\* The rows of the join without conditions.
FreeEnvironments(id, ask, st) == Environments(id, [join |-> <<>>], st.opts, Joined(ask, st))

RelatedAsked(ids, ask, st) ==
    [id \in ids |-> [p \in Joined(ask, st) |->
        {env[p] : env \in FreeEnvironments(id, ask, st)} \ {Null}]]

AllOnRoot(ask) == \A c \in ToSet(ask.conds) \cup ToSet(ask.any) : OnRoot(c)

Shows(a, ask, st) ==
    /\ a.columns = ColumnsAsked(ask)
    /\ a.joins = JoinsAsked(ask, st)
    /\ AllOnRoot(ask) => a.related = RelatedAsked(ToSet(a.rows), ask, st)

LEMMA FreeJoins ==
    ASSUME NEW parsed, NEW ask, JoinsFor(parsed, ask, {}), NEW st, NEW id
    PROVE  Environments(id, parsed, st.opts, Joined(ask, st)) = FreeEnvironments(id, ask, st)
<1>. DEFINE free == [join |-> <<>>]
            joined == Joined(ask, st)
            rows(env, p) == Matching(id, env, p, JoinOf(parsed, p).on)
            freeRows(env, p) == Matching(id, env, p, JoinOf(free, p).on)
<1>1. \A p : DOMAIN JoinOf(parsed, p).on = {}
  <2>. TAKE p
  <2>1. OnIs(JoinOf(parsed, p).on, {}, p)
    BY JoinOfIs
  <2>. QED  BY <2>1 DEF OnIs, ToSet
<1>2. \A p : DOMAIN JoinOf(free, p).on = {}
  <2>. TAKE p
  <2>1. free.join = <<>> /\ DOMAIN <<>> = {}
    OBVIOUS
  <2>2. {i \in DOMAIN free.join : free.join[i].path = p} = {}
    BY <2>1
  <2>. DEFINE none == Whole(p)
  <2>3. JoinOf(free, p) = none
    BY <2>2, Zenon DEF JoinOf, Whole
  <2>4. none.on = <<>>
    BY DEF Whole
  <2>. QED  BY <2>1, <2>3, <2>4
<1>3. \A env, p, on : DOMAIN on = {} =>
         Matching(id, env, p, on) = {k \in DOMAIN Related[p] : Related[p][k].of = ParentKey(id, env, p)}
  BY DEF Matching
<1>4. \A env, p : rows(env, p) = freeRows(env, p)
  <2>. TAKE env, p
  <2>. DEFINE on == JoinOf(parsed, p).on
              none == JoinOf(free, p).on
  <2>1. DOMAIN on = {} /\ DOMAIN none = {}
    BY <1>1, <1>2
  <2>. HIDE DEF on, none
  <2>2. Matching(id, env, p, on) = Matching(id, env, p, none)
    BY <1>3, <2>1
  <2>. QED  BY <2>2 DEF on, none
<1>5. Environments(id, parsed, st.opts, joined)
        = {env \in [joined -> {Null} \cup UNION {DOMAIN Related[p] : p \in joined}] :
             \A p \in joined : IF rows(env, p) = {} THEN ~JoinOptions(st.opts, p).required /\ env[p] = Null
                               ELSE env[p] \in rows(env, p)}
  BY Zenon DEF Environments
<1>6. Environments(id, free, st.opts, joined)
        = {env \in [joined -> {Null} \cup UNION {DOMAIN Related[p] : p \in joined}] :
             \A p \in joined : IF freeRows(env, p) = {} THEN ~JoinOptions(st.opts, p).required /\ env[p] = Null
                               ELSE env[p] \in freeRows(env, p)}
  BY Zenon DEF Environments
<1>. HIDE DEF rows, freeRows, free, joined
<1>7. Environments(id, parsed, st.opts, joined) = Environments(id, free, st.opts, joined)
  BY <1>4, <1>5, <1>6
<1>. QED  BY <1>7 DEF FreeEnvironments, free, joined

LEMMA WholeJoins ==
    ASSUME NEW parsed, NEW ask, NEW S, JoinsFor(parsed, ask, S), NEW p, NEW cfg
    PROVE  JoinColumns(JoinOf(parsed, p), cfg) = JoinColumns(Whole(p), cfg)
<1>. DEFINE j == JoinOf(parsed, p)
            w == Whole(p)
<1>1. j.path = p /\ j.select = <<>>
  BY JoinOfIs
<1>2. w.path = p /\ w.select = <<>>
  BY DEF Whole
<1>. HIDE DEF j, w
<1>. DEFINE columns == IF ToSet(cfg.allow) = {} THEN RelColumn[p] ELSE ToSet(cfg.allow) \cup {PrimaryKey}
<1>3. JoinColumns(j, cfg) = columns
  BY <1>1 DEF JoinColumns
<1>4. JoinColumns(w, cfg) = columns
  BY <1>2 DEF JoinColumns
<1>. QED  BY <1>3, <1>4 DEF j, w

RelatedOf(ids, parsed, opts, joined) ==
    [id \in ids |-> [p \in joined |->
        {env[p] : env \in KeptEnvironments(id, parsed, opts, joined)} \ {Null}]]

JoinsOf(parsed, opts, joined) ==
    [p \in joined |-> JoinColumns(JoinOf(parsed, p), JoinOptions(opts, p))]

LEMMA SelectedFields ==
    ASSUME NEW rows, NEW parsed, NEW opts, NEW joined,
           NEW a, a = Selected(rows, parsed, opts, joined)
    PROVE  /\ a.status = 200 /\ a.rows = rows /\ a.columns = RootSelect(parsed)
           /\ a.joins = JoinsOf(parsed, opts, joined)
           /\ a.related = RelatedOf(ToSet(rows), parsed, opts, joined)
BY DEF Selected, Failure, JoinsOf, RelatedOf

LEMMA SelectedShows ==
    ASSUME NEW rows, NEW parsed, NEW ask, NEW S, JoinsFor(parsed, ask, S), NEW st,
           AllOnRoot(ask) => S = {},
           ToSet(parsed.fields) = ToSet(ask.columns), parsed.fields = <<>> <=> ask.columns = <<>>,
           AllOnRoot(ask) => \A id \in ToSet(rows) :
              KeptEnvironments(id, parsed, st.opts, Joined(ask, st))
                 = Environments(id, parsed, st.opts, Joined(ask, st))
    PROVE  Shows(Selected(rows, parsed, st.opts, Joined(ask, st)), ask, st)
<1>. DEFINE joined == Joined(ask, st)
            a == Selected(rows, parsed, st.opts, joined)
            kept(id) == KeptEnvironments(id, parsed, st.opts, joined)
            free(id) == FreeEnvironments(id, ask, st)
            shown(j) == JoinColumns(JoinOf(parsed, j), JoinOptions(st.opts, j))
            whole(j) == JoinColumns(Whole(j), JoinOptions(st.opts, j))
<1>1. /\ a.rows = rows /\ a.columns = RootSelect(parsed)
      /\ a.joins = JoinsOf(parsed, st.opts, joined)
      /\ a.related = RelatedOf(ToSet(rows), parsed, st.opts, joined)
  BY SelectedFields
<1>2. /\ JoinsOf(parsed, st.opts, joined) = [p \in joined |-> shown(p)]
      /\ RelatedOf(ToSet(rows), parsed, st.opts, joined)
           = [id \in ToSet(rows) |-> [p \in joined |-> {env[p] : env \in kept(id)} \ {Null}]]
  BY Zenon DEF JoinsOf, RelatedOf
<1>3. RootSelect(parsed) = ColumnsAsked(ask)
  BY DEF RootSelect, ColumnsAsked
<1>4. \A p : shown(p) = whole(p)
  BY WholeJoins
<1>5. AllOnRoot(ask) => \A id \in ToSet(rows) : kept(id) = free(id)
  BY FreeJoins
<1>6. JoinsAsked(ask, st) = [p \in joined |-> whole(p)]
  BY Zenon DEF JoinsAsked
<1>7. RelatedAsked(ToSet(rows), ask, st) =
        [id \in ToSet(rows) |-> [p \in joined |-> {env[p] : env \in free(id)} \ {Null}]]
  BY Zenon DEF RelatedAsked
<1>. HIDE DEF kept, free, shown, whole, a, joined
<1>8. a.joins = JoinsAsked(ask, st)
  BY <1>1, <1>4, <1>6, <1>2
<1>9. AllOnRoot(ask) => a.related = RelatedAsked(ToSet(a.rows), ask, st)
  BY <1>1, <1>5, <1>7, <1>2
<1>. QED  BY <1>1, <1>3, <1>8, <1>9, Zenon DEF Shows, a, joined

\* WHERE does not read the joined rows of id.
Blind(parsed, id, joined) ==
    \A env, other : WhereHolds(parsed, RowValues(id, env, joined))
                       <=> WhereHolds(parsed, RowValues(id, other, joined))

LEMMA WhereFree ==
    ASSUME NEW parsed, NEW opts, NEW joined, NEW id \in KeptRows(parsed, opts, joined),
           Blind(parsed, id, joined)
    PROVE  KeptEnvironments(id, parsed, opts, joined) = Environments(id, parsed, opts, joined)
<1>. DEFINE envs == Environments(id, parsed, opts, joined)
<1>1. KeptEnvironments(id, parsed, opts, joined)
        = {env \in envs : WhereHolds(parsed, RowValues(id, env, joined))}
  BY DEF KeptEnvironments
<1>2. KeptEnvironments(id, parsed, opts, joined) # {}
  BY DEF KeptRows
<1>. HIDE DEF envs
<1>3. \A env \in envs : WhereHolds(parsed, RowValues(id, env, joined))
  BY <1>1, <1>2 DEF Blind
<1>4. KeptEnvironments(id, parsed, opts, joined) = envs
  BY <1>1, <1>3
<1>. QED  BY <1>4 DEF envs

LEMMA NestjsxShows ==
    ASSUME PlainSettings, NEW st \in Setting, NEW ask, Programmed(ask), NEW p, Paramed(p, ask),
           NEW parsed, parsed = ParseNestjsx(BuildQueryParams(p), <<>>, AuthContext(st.auth), st.opts),
           Known(Joined(ask, st), Standing(ask.conds) \cup ToSet(ask.any)),
           NEW rows, ToSet(rows) \subseteq KeptRows(parsed, st.opts, Joined(ask, st))
    PROVE  Shows(Selected(rows, parsed, st.opts, Joined(ask, st)), ask, st)
<1>. DEFINE joined == Joined(ask, st)
<1>1. JoinsFor(parsed, ask, {}) /\ <<>> \notin joined
  BY NestjsxJoins, JoinedFacts
<1>2. parsed.fields = ask.columns
  <2>1. parsed.fields = BuildQueryParams(p).fields
    BY DEF ParseNestjsx
  <2>. QED  BY <2>1, BuiltQuery DEF Paramed
<1>3. ASSUME AllOnRoot(ask), NEW id \in ToSet(rows)
      PROVE  KeptEnvironments(id, parsed, st.opts, joined) = Environments(id, parsed, st.opts, joined)
  <2>1. \A env : WhereHolds(parsed, RowValues(id, env, joined))
                    <=> NestjsxKeeps(ask, st, id, KeyOf(env, joined))
    BY <1>1, NestjsxWhere DEF Paramed, Programmed
  <2>2. \A c \in Standing(ask.conds) \cup ToSet(ask.any) : OnRoot(c)
    BY <1>3 DEF AllOnRoot, Standing, ToSet
  <2>3. \A k, l : NestjsxKeeps(ask, st, id, k) <=> NestjsxKeeps(ask, st, id, l)
    BY <2>2, KeepsOnRoot
  <2>4. Blind(parsed, id, joined)
    BY <2>1, <2>3 DEF Blind
  <2>5. id \in KeptRows(parsed, st.opts, joined)
    BY <1>3
  <2>. HIDE DEF joined
  <2>. QED  BY <2>4, <2>5, WhereFree
<1>4. AllOnRoot(ask) => \A id \in ToSet(rows) :
         KeptEnvironments(id, parsed, st.opts, joined) = Environments(id, parsed, st.opts, joined)
  BY <1>3
<1>. QED  BY <1>1, <1>2, <1>4, SelectedShows

LEMMA PostgrestShows ==
    ASSUME PlainSettings, NEW st \in Setting, NEW ask, Programmed(ask), NEW q, Searched(q, ask),
           NEW parsed, parsed = ParsePostgrest(q, <<>>, AuthContext(st.auth), st.opts),
           Known(Joined(ask, st), (ToSet(ask.conds) \ Shaping(ask)) \cup ToSet(ask.any)),
           NEW rows, ToSet(rows) \subseteq KeptRows(parsed, st.opts, Joined(ask, st))
    PROVE  Shows(Selected(rows, parsed, st.opts, Joined(ask, st)), ask, st)
<1>. DEFINE joined == Joined(ask, st)
<1>1. JoinsFor(parsed, ask, Shaping(ask)) /\ <<>> \notin joined
  BY PostgrestJoins, JoinedFacts
<1>2. ToSet(parsed.fields) = ToSet(ask.columns) /\ (parsed.fields = <<>> <=> ask.columns = <<>>)
  <2>1. parsed.fields = ParseSelectFields(q.select)
    BY DEF ParsePostgrest
  <2>. QED  BY <2>1, FieldsRead DEF Searched, Programmed
<1>3. ASSUME AllOnRoot(ask), NEW id \in ToSet(rows)
      PROVE  KeptEnvironments(id, parsed, st.opts, joined) = Environments(id, parsed, st.opts, joined)
  <2>1. \A env : WhereHolds(parsed, RowValues(id, env, joined))
                    <=> PostgrestKeeps(ask, st, id, KeyOf(env, joined))
    BY <1>1, PostgrestWhere
  <2>2. \A c \in (ToSet(ask.conds) \ Shaping(ask)) \cup ToSet(ask.any) : OnRoot(c)
    BY <1>3 DEF AllOnRoot
  <2>3. \A k, l : PostgrestKeeps(ask, st, id, k) <=> PostgrestKeeps(ask, st, id, l)
    BY <2>2, KeepsOnRoot
  <2>4. Blind(parsed, id, joined)
    BY <2>1, <2>3 DEF Blind
  <2>5. id \in KeptRows(parsed, st.opts, joined)
    BY <1>3
  <2>. HIDE DEF joined
  <2>. QED  BY <2>4, <2>5, WhereFree
<1>4. AllOnRoot(ask) => \A id \in ToSet(rows) :
         KeptEnvironments(id, parsed, st.opts, joined) = Environments(id, parsed, st.opts, joined)
  BY <1>3
<1>5. AllOnRoot(ask) => Shaping(ask) = {}
  BY DEF AllOnRoot, Shaping
<1>. QED  BY <1>1, <1>2, <1>4, <1>5, SelectedShows

-----------------------------------------------------------------------------
(* ORDER BY.                                                               *)

LEMMA Enumerated ==
    ASSUME NEW T, NEW s \in Seq(T), \A i, j \in 1..Len(s) : i # j => s[i] # s[j]
    PROVE  Cardinality(ToSet(s)) = Len(s)
<1>. DEFINE S == ToSet(s)
<1>1. s \in [1..Len(s) -> T] /\ Len(s) \in Nat
  OBVIOUS
<1>2. S = {s[i] : i \in 1..Len(s)}
  BY <1>1 DEF ToSet
<1>3. s \in Bijection(1..Len(s), S)
  BY <1>1, <1>2 DEF Bijection, Injection, Surjection, IsInjective
<1>4. ExistsBijection(1..Len(s), S)
  BY <1>3 DEF ExistsBijection
<1>. HIDE DEF S
<1>. QED  BY <1>1, <1>4, FS_CountingElements DEF S

LEMMA ComesFirstOrder ==
    ASSUME NEW x \in Val \cup {Null}, NEW y \in Val \cup {Null}, NEW s
    PROVE  /\ ~(ComesFirst(x, y, s) /\ ComesFirst(y, x, s))
           /\ x # y => ComesFirst(x, y, s) \/ ComesFirst(y, x, s)
<1>1. Val \subseteq Int /\ Null \notin Val
  BY SearchTreeAssumption
<1>2. CASE x = Null
  BY <1>1, <1>2 DEF ComesFirst
<1>3. CASE x # Null /\ y = Null
  BY <1>1, <1>3 DEF ComesFirst
<1>4. CASE x # Null /\ y # Null
  <2>1. x \in Int /\ y \in Int
    BY <1>1, <1>4
  <2>2. /\ ComesFirst(x, y, s) <=> (IF s.order = "DESC" THEN x > y ELSE x < y)
        /\ ComesFirst(y, x, s) <=> (IF s.order = "DESC" THEN y > x ELSE y < x)
    BY <1>4 DEF ComesFirst
  <2>. QED  BY <2>1, <2>2
<1>. QED  BY <1>2, <1>3, <1>4

\* Not more than one sort, on a column of the root entity.
OneSort(ask) ==
    \/ ask.sort = <<>>
    \/ /\ ask.sort = <<[field |-> <<<<>>, ask.sort[1].field[2]>>, order |-> ask.sort[1].order]>>
       /\ ask.sort[1].order \in {"ASC", "DESC"}

SortKnown(ask) == ask.sort # <<>> => ask.sort[1].field[2] \in RootColumn

LEMMA PrecedesIs ==
    ASSUME NEW ask, OneSort(ask), NEW a, NEW b
    PROVE  /\ ask.sort = <<>> => ~Precedes(a, b, SortAsked(ask))
           /\ ask.sort # <<>> =>
                (Precedes(a, b, SortAsked(ask)) <=>
                   ComesFirst(Rows[a][ask.sort[1].field[2]], Rows[b][ask.sort[1].field[2]],
                              SortAsked(ask)[1]))
<1>. DEFINE sort == SortAsked(ask)
<1>1. CASE ask.sort = <<>>
  <2>1. DOMAIN ask.sort = {}
    BY <1>1
  <2>2. DOMAIN sort = {}
    BY <2>1 DEF SortAsked
  <2>. HIDE DEF sort
  <2>3. ~Precedes(a, b, sort)
    BY <2>2 DEF Precedes
  <2>. QED  BY <1>1, <2>3 DEF sort
<1>2. CASE ask.sort # <<>>
  <2>. DEFINE col == ask.sort[1].field[2]
  <2>1. DOMAIN ask.sort = {1}
    <3>1. ask.sort = <<[field |-> <<<<>>, ask.sort[1].field[2]>>, order |-> ask.sort[1].order]>>
      BY <1>2 DEF OneSort
    <3>2. \A x : DOMAIN <<x>> = {1}
      OBVIOUS
    <3>. QED  BY <3>1, <3>2
  <2>2. DOMAIN sort = {1} /\ sort[1].field[2] = col
    BY <2>1 DEF SortAsked
  <2>. HIDE DEF sort, col
  <2>3. Precedes(a, b, sort) <=> ComesFirst(Rows[a][col], Rows[b][col], sort[1])
    <3>1. \A j \in 1..(1 - 1) : FALSE
      OBVIOUS
    <3>. QED  BY <2>2, <3>1 DEF Precedes
  <2>. QED  BY <1>2, <2>3 DEF sort, col
<1>. QED  BY <1>1, <1>2

LEMMA PrecedesOrder ==
    ASSUME NEW ask, OneSort(ask), SortKnown(ask),
           NEW a \in DOMAIN Rows, NEW b \in DOMAIN Rows
    PROVE  /\ ~(Precedes(a, b, SortAsked(ask)) /\ Precedes(b, a, SortAsked(ask)))
           /\ SortsByKey(ask) /\ a # b =>
                Precedes(a, b, SortAsked(ask)) \/ Precedes(b, a, SortAsked(ask))
<1>1. CASE ask.sort = <<>>
  BY <1>1, PrecedesIs DEF SortsByKey
<1>2. CASE ask.sort # <<>>
  <2>. DEFINE col == ask.sort[1].field[2]
              s == SortAsked(ask)[1]
  <2>1. col \in RootColumn
    BY <1>2 DEF SortKnown
  <2>2. Rows[a][col] \in Val \cup {Null} /\ Rows[b][col] \in Val \cup {Null}
    BY <2>1, CrudServiceAssumption
  <2>3. SortsByKey(ask) => col = PrimaryKey
    BY DEF SortsByKey
  <2>4. SortsByKey(ask) => Rows[a][col] = a /\ Rows[b][col] = b
    BY <2>3, CrudServiceAssumption
  <2>5. /\ Precedes(a, b, SortAsked(ask)) <=> ComesFirst(Rows[a][col], Rows[b][col], s)
        /\ Precedes(b, a, SortAsked(ask)) <=> ComesFirst(Rows[b][col], Rows[a][col], s)
    BY <1>2, PrecedesIs
  <2>. HIDE DEF col, s
  <2>. QED  BY <2>2, <2>4, <2>5, ComesFirstOrder
<1>. QED  BY <1>1, <1>2

LEMMA OrderingIs ==
    ASSUME NEW ask, OneSort(ask), SortKnown(ask), NEW ids \in SUBSET DOMAIN Rows,
           NEW s \in Orderings(ids, SortAsked(ask))
    PROVE  /\ s \in Seq(ids) /\ Len(s) = Cardinality(ids) /\ ToSet(s) = ids /\ Len(s) \in Nat
           /\ \A i, j \in 1..Len(s) : i # j => s[i] # s[j]
           /\ \A i, j \in 1..Len(s) : i < j => ~Precedes(s[j], s[i], SortAsked(ask))
           /\ SortsByKey(ask) => \A i, j \in 1..Len(s) : i < j => Precedes(s[i], s[j], SortAsked(ask))
<1>. DEFINE n == Cardinality(ids)
            sort == SortAsked(ask)
<1>1. n \in Nat /\ IsFiniteSet(ids)
  BY CrudServiceAssumption, FS_Subset, FS_CardinalityType
<1>2. s \in [1..n -> ids] /\ \A i, j \in 1..n : i # j => s[i] # s[j]
  BY DEF Orderings, SetToSeqs
<1>. HIDE DEF n, sort
<1>3. s \in Seq(ids) /\ Len(s) = n
  BY <1>1, <1>2, SeqDef
<1>4. ToSet(s) = ids
  <2>1. Cardinality(ToSet(s)) = n
    BY <1>2, <1>3, Enumerated
  <2>2. ToSet(s) \in SUBSET ids
    BY <1>2 DEF ToSet
  <2>. QED  BY <1>1, <2>1, <2>2, FS_Subset DEF n
<1>5. ASSUME NEW i \in 1..n, NEW j \in 1..n, i < j
      PROVE  ~Precedes(s[j], s[i], sort) /\ (SortsByKey(ask) => Precedes(s[i], s[j], sort))
  <2>1. s[i] \in DOMAIN Rows /\ s[j] \in DOMAIN Rows /\ s[i] # s[j]
    BY <1>2, <1>5
  <2>2. Precedes(s[i], s[j], sort) \/ ~Precedes(s[j], s[i], sort)
    <3>1. \A k, l \in DOMAIN s : k < l => Precedes(s[k], s[l], sort) \/ ~Precedes(s[l], s[k], sort)
      BY DEF Orderings, sort
    <3>. QED  BY <1>2, <1>5, <3>1
  <2>. QED  BY <2>1, <2>2, PrecedesOrder DEF sort
<1>. QED  BY <1>1, <1>2, <1>3, <1>4, <1>5 DEF n, sort

\* Sorted by the key there is one order.
LEMMA OneOrdering ==
    ASSUME NEW ask, OneSort(ask), SortKnown(ask), SortsByKey(ask), NEW ids \in SUBSET DOMAIN Rows,
           NEW s \in Orderings(ids, SortAsked(ask)), NEW t \in Orderings(ids, SortAsked(ask))
    PROVE  s = t
<1>. DEFINE n == Len(s)
            sort == SortAsked(ask)
            D == {i \in 1..n : s[i] # t[i]}
<1>1. /\ s \in Seq(ids) /\ n \in Nat /\ ToSet(s) = ids
      /\ \A i, j \in 1..n : i # j => s[i] # s[j]
      /\ \A i, j \in 1..n : i < j => Precedes(s[i], s[j], sort)
  BY OrderingIs
<1>2. /\ t \in Seq(ids) /\ Len(t) = n /\ ToSet(t) = ids
      /\ \A i, j \in 1..n : i # j => t[i] # t[j]
      /\ \A i, j \in 1..n : i < j => Precedes(t[i], t[j], sort)
  <2>1. Len(s) = Cardinality(ids) /\ Len(t) = Cardinality(ids)
    BY OrderingIs
  <2>. QED  BY <2>1, OrderingIs
<1>3. \A a, b \in ids : ~(Precedes(a, b, sort) /\ Precedes(b, a, sort))
  BY PrecedesOrder
<1>. HIDE DEF n, sort
<1>4. DOMAIN s = 1..n /\ DOMAIN t = 1..n
  BY <1>1, <1>2 DEF n
<1>5. ASSUME D # {} PROVE FALSE
  <2>1. D \in SUBSET Nat
    BY <1>1
  <2>. HIDE DEF D
  <2>2. PICK m \in D : \A i \in D : m <= i
    BY <1>5, <2>1, LeastNatural
  <2>3. m \in 1..n /\ s[m] # t[m] /\ \A i \in 1..n : i < m => s[i] = t[i]
    BY <1>1, <2>1, <2>2 DEF D
  <2>4. PICK k \in 1..n : t[k] = s[m]
    <3>1. s[m] \in ToSet(t)
      BY <1>1, <1>2, <1>4, <2>3 DEF ToSet
    <3>. QED  BY <1>4, <3>1 DEF ToSet
  <2>5. PICK l \in 1..n : s[l] = t[m]
    <3>1. t[m] \in ToSet(s)
      BY <1>1, <1>2, <1>4, <2>3 DEF ToSet
    <3>. QED  BY <1>4, <3>1 DEF ToSet
  <2>6. m < k /\ m < l
    BY <1>1, <1>2, <2>3, <2>4, <2>5
  <2>7. Precedes(t[m], s[m], sort) /\ Precedes(s[m], t[m], sort)
    BY <1>1, <1>2, <2>3, <2>4, <2>5, <2>6
  <2>8. s[m] \in ids /\ t[m] \in ids
    BY <1>1, <1>2, <1>4, <2>3 DEF ToSet
  <2>. QED  BY <1>3, <2>7, <2>8
<1>6. \A i \in 1..n : s[i] = t[i]
  BY <1>5
<1>. QED  BY <1>1, <1>2, <1>6, SeqEqual DEF n

-----------------------------------------------------------------------------
(* LIMIT and OFFSET.                                                       *)

LEMMA WindowIs ==
    ASSUME NEW S, NEW s \in Seq(S), NEW offset \in Nat, NEW limit \in Nat
    PROVE  /\ Window(s, offset, limit) \in Seq(S)
           /\ Len(Window(s, offset, limit)) =
                IF offset >= Len(s) THEN 0 ELSE Least(limit, Len(s) - offset)
           /\ \A i \in 1..Len(Window(s, offset, limit)) : Window(s, offset, limit)[i] = s[offset + i]
<1>. DEFINE m == offset + 1
            n == Least(offset + limit, Len(s))
            w == SubSeq(s, m, n)
<1>1. m \in Int /\ m >= 1 /\ n \in Int /\ n <= Len(s) /\ Len(s) \in Nat
  BY DEF Least
<1>2. Window(s, offset, limit) = w
  BY DEF Window
<1>3. n - m + 1 = IF offset >= Len(s) THEN n - offset ELSE Least(limit, Len(s) - offset)
  BY DEF Least
<1>4. offset >= Len(s) => n <= offset
  BY DEF Least
<1>5. m <= n <=> offset < Len(s) /\ limit > 0
  BY DEF Least
<1>6. limit = 0 /\ offset < Len(s) => Least(limit, Len(s) - offset) = 0
  BY DEF Least
<1>. HIDE DEF n
<1>7. \A i \in m..n : s[i] \in S
  BY <1>1
<1>8. /\ w \in Seq(S) /\ Len(w) = IF m <= n THEN n - m + 1 ELSE 0
      /\ \A i \in 1..(n - m + 1) : w[i] = s[m + i - 1]
  BY <1>1, <1>7, SubSeqProperties
<1>9. Len(w) = IF offset >= Len(s) THEN 0 ELSE Least(limit, Len(s) - offset)
  BY <1>1, <1>3, <1>5, <1>6, <1>8
<1>10. \A i \in 1..Len(w) : w[i] = s[offset + i]
  <2>. HIDE DEF w
  <2>1. \A i \in 1..Len(w) : i \in 1..(n - m + 1) /\ m + i - 1 = offset + i
    BY <1>1, <1>8
  <2>. QED  BY <1>8, <2>1
<1>. HIDE DEF w
<1>. QED  BY <1>2, <1>8, <1>9, <1>10

LEMMA WindowsJoin ==
    ASSUME NEW S, NEW s \in Seq(S), NEW m \in Nat, NEW n \in Nat
    PROVE  Window(s, 0, m) \o Window(s, m, n) = Window(s, 0, m + n)
<1>. DEFINE a == Window(s, 0, m)
            b == Window(s, m, n)
            c == Window(s, 0, m + n)
<1>1. /\ a \in Seq(S) /\ b \in Seq(S) /\ c \in Seq(S) /\ Len(s) \in Nat
      /\ Len(a) = (IF 0 >= Len(s) THEN 0 ELSE Least(m, Len(s) - 0))
      /\ Len(b) = (IF m >= Len(s) THEN 0 ELSE Least(n, Len(s) - m))
      /\ Len(c) = (IF 0 >= Len(s) THEN 0 ELSE Least(m + n, Len(s) - 0))
      /\ \A i \in 1..Len(a) : a[i] = s[0 + i]
      /\ \A i \in 1..Len(b) : b[i] = s[m + i]
      /\ \A i \in 1..Len(c) : c[i] = s[0 + i]
  <2>0. 0 \in Nat /\ m + n \in Nat /\ Len(s) \in Nat
    OBVIOUS
  <2>1. /\ a \in Seq(S) /\ Len(a) = (IF 0 >= Len(s) THEN 0 ELSE Least(m, Len(s) - 0))
        /\ \A i \in 1..Len(a) : a[i] = s[0 + i]
    BY <2>0, WindowIs
  <2>2. /\ b \in Seq(S) /\ Len(b) = (IF m >= Len(s) THEN 0 ELSE Least(n, Len(s) - m))
        /\ \A i \in 1..Len(b) : b[i] = s[m + i]
    BY <2>0, WindowIs
  <2>3. /\ c \in Seq(S) /\ Len(c) = (IF 0 >= Len(s) THEN 0 ELSE Least(m + n, Len(s) - 0))
        /\ \A i \in 1..Len(c) : c[i] = s[0 + i]
    BY <2>0, WindowIs
  <2>. HIDE DEF a, b, c
  <2>. QED  BY <2>0, <2>1, <2>2, <2>3
<1>. HIDE DEF a, b, c
<1>2. Len(a) = (IF m < Len(s) THEN m ELSE Len(s)) /\ Len(a) + Len(b) = Len(c)
  <2>. DEFINE k == Len(s)
  <2>1. /\ k \in Nat
        /\ Len(a) = (IF 0 >= k THEN 0 ELSE Least(m, k - 0))
        /\ Len(b) = (IF m >= k THEN 0 ELSE Least(n, k - m))
        /\ Len(c) = (IF 0 >= k THEN 0 ELSE Least(m + n, k - 0))
    BY <1>1
  <2>. HIDE DEF k
  <2>2. Len(a) = (IF m < k THEN m ELSE k) /\ Len(a) + Len(b) = Len(c)
    BY <2>1 DEF Least
  <2>. QED  BY <2>2 DEF k
<1>3. a \o b \in Seq(S) /\ Len(a \o b) = Len(c)
  BY <1>1, <1>2, ConcatProperties
<1>4. ASSUME NEW i \in 1..Len(c) PROVE (a \o b)[i] = c[i]
  <2>0. Len(a) \in Nat /\ Len(b) \in Nat /\ Len(c) \in Nat
    BY <1>1
  <2>1. (a \o b)[i] = IF i <= Len(a) THEN a[i] ELSE b[i - Len(a)]
    BY <1>1, <1>2, <2>0, ConcatProperties
  <2>2. CASE i <= Len(a)
    <3>1. i \in 1..Len(a) /\ 0 + i = i
      BY <2>0, <2>2
    <3>. QED  BY <1>1, <2>1, <2>2, <3>1
  <2>3. CASE ~(i <= Len(a))
    <3>1. i - Len(a) \in 1..Len(b) /\ Len(b) # 0
      BY <1>2, <2>0, <2>3
    <3>2. Len(a) = m
      BY <1>1, <1>2, <3>1
    <3>3. b[i - Len(a)] = s[m + (i - Len(a))] /\ m + (i - Len(a)) = i
      BY <1>1, <3>1, <3>2
    <3>. QED  BY <1>1, <2>1, <2>3, <3>3
  <2>. QED  BY <2>2, <2>3
<1>5. a \o b = c
  BY <1>1, <1>3, <1>4, SeqEqual
<1>. QED  BY <1>5 DEF a, b, c

LEMMA WholeWindow ==
    ASSUME NEW S, NEW s \in Seq(S), NEW n \in Nat, Len(s) <= n
    PROVE  Window(s, 0, n) = s
<1>1. /\ Window(s, 0, n) \in Seq(S)
      /\ Len(Window(s, 0, n)) = IF 0 >= Len(s) THEN 0 ELSE Least(n, Len(s) - 0)
      /\ \A i \in 1..Len(Window(s, 0, n)) : Window(s, 0, n)[i] = s[0 + i]
  BY WindowIs
<1>2. Len(Window(s, 0, n)) = Len(s)
  BY <1>1 DEF Least
<1>3. \A i \in 1..Len(Window(s, 0, n)) : Window(s, 0, n)[i] = s[i]
  BY <1>1
<1>. QED  BY <1>1, <1>2, <1>3, SeqEqual

\* The rows of a query, told by its window into one order of what is meant.
LEMMA WindowRows ==
    ASSUME NEW ask, OneSort(ask), SortKnown(ask), NEW ids \in SUBSET DOMAIN Rows,
           NEW s \in Orderings(ids, SortAsked(ask)), NEW limit \in Nat,
           NEW rows, rows = Window(s, 0, limit)
    PROVE  /\ ToSet(rows) \subseteq ids
           /\ Len(rows) = Least(Cardinality(ids), limit)
           /\ \A i, j \in DOMAIN rows : i < j =>
                 rows[i] # rows[j] /\ ~Precedes(rows[j], rows[i], SortAsked(ask))
           /\ \A id \in ids \ ToSet(rows) : \A i \in DOMAIN rows :
                 ~Precedes(id, rows[i], SortAsked(ask))
           /\ SortsByKey(ask) => \A i, j \in DOMAIN rows : i < j =>
                 Precedes(rows[i], rows[j], SortAsked(ask))
<1>. DEFINE sort == SortAsked(ask)
<1>1. /\ s \in Seq(ids) /\ Len(s) = Cardinality(ids) /\ ToSet(s) = ids /\ Len(s) \in Nat
      /\ \A i, j \in 1..Len(s) : i # j => s[i] # s[j]
      /\ \A i, j \in 1..Len(s) : i < j => ~Precedes(s[j], s[i], sort)
      /\ SortsByKey(ask) => \A i, j \in 1..Len(s) : i < j => Precedes(s[i], s[j], sort)
  BY OrderingIs
<1>. HIDE DEF sort
<1>2. /\ rows \in Seq(ids)
      /\ Len(rows) = IF 0 >= Len(s) THEN 0 ELSE Least(limit, Len(s) - 0)
      /\ \A i \in 1..Len(rows) : rows[i] = s[0 + i]
  BY <1>1, WindowIs
<1>3. DOMAIN rows = 1..Len(rows) /\ Len(rows) \in Nat
  BY <1>2
<1>4. Len(rows) <= Len(s) /\ Len(rows) = Least(Len(s), limit) /\ \A i \in 1..Len(rows) : rows[i] = s[i] /\ i \in 1..Len(s)
  BY <1>1, <1>2, <1>3 DEF Least
<1>5. ToSet(rows) \subseteq ids
  BY <1>2, <1>3 DEF ToSet
<1>6. ASSUME NEW id \in ids \ ToSet(rows), NEW i \in DOMAIN rows PROVE ~Precedes(id, rows[i], sort)
  <2>1. DOMAIN s = 1..Len(s)
    BY <1>1
  <2>2. PICK n \in 1..Len(s) : id = s[n]
    BY <1>1, <2>1 DEF ToSet
  <2>3. n \notin 1..Len(rows)
    <3>1. \A m \in 1..Len(rows) : s[m] \in ToSet(rows)
      BY <1>3, <1>4 DEF ToSet
    <3>. QED  BY <2>2, <3>1
  <2>4. i \in 1..Len(rows) /\ i < n /\ rows[i] = s[i] /\ i \in 1..Len(s)
    BY <1>3, <1>4, <2>2, <2>3
  <2>. QED  BY <1>1, <2>2, <2>4
<1>7. ASSUME NEW i \in DOMAIN rows, NEW j \in DOMAIN rows, i < j
      PROVE  /\ rows[i] # rows[j] /\ ~Precedes(rows[j], rows[i], sort)
             /\ SortsByKey(ask) => Precedes(rows[i], rows[j], sort)
  <2>1. i \in 1..Len(s) /\ j \in 1..Len(s) /\ rows[i] = s[i] /\ rows[j] = s[j] /\ i # j
    BY <1>3, <1>4, <1>7
  <2>. QED  BY <1>1, <1>7, <2>1
<1>. QED  BY <1>1, <1>4, <1>5, <1>6, <1>7 DEF sort

-----------------------------------------------------------------------------
(* Sizes and pages.                                                        *)

\* A program that turns pages has said how long they are; findOne turns none.
Sized(ask, t) ==
    /\ ask.size \in (Nat \ {0}) \cup {Null}
    /\ ask.paging \in {"none", "page", "offset"}
    /\ ask.paging # "none" => ask.size # Null
    /\ t \in Nat
    /\ ask.one \/ ask.paging = "none" => t = 0

\* findMany and the PostgREST builder.
Many(ask) == ~ask.one

\* Page numbers are the nestjsx dialect's alone.
Style(lane, ask) ==
    IF lane = "postgrest" /\ ask.paging = "page" THEN "offset" ELSE ask.paging

\* The limit, offset and page of a query for page t.
Numbered(q, style, ask, t) ==
    /\ q.limit = IF ask.one THEN 1 ELSE ask.size
    /\ q.offset = IF style = "offset" THEN t * ask.size ELSE Null
    /\ q.page = IF style = "page" THEN t + 1 ELSE Null

\* The first row of page t.
Start(style, ask, st, t) ==
    IF style = "page" THEN t * PageSize(ask, st)
    ELSE IF style = "offset" THEN t * ask.size ELSE 0

Caps(st) ==
    /\ OrElse(st.opts.maxLimit, DefaultMaxLimit) \in Nat \ {0}
    /\ OrElse(st.svc.maxLimit, DefaultMaxLimit) \in Nat \ {0}
    /\ OrElse(st.opts.limit, DefaultPageSize) \in Nat \ {0}

LEMMA SettingNumbers ==
    ASSUME PlainSettings, NEW st \in Setting
    PROVE  /\ Caps(st)
           /\ OrElse(st.opts.maxLimit, DefaultMaxLimit)
                = IF st.opts.maxLimit = Null THEN DefaultMaxLimit ELSE st.opts.maxLimit
           /\ OrElse(st.opts.limit, DefaultPageSize)
                = IF st.opts.limit = Null THEN DefaultPageSize ELSE st.opts.limit
<1>1. /\ st.opts.limit \in Nat \cup {Null} /\ st.opts.maxLimit \in Nat \cup {Null}
      /\ st.svc.maxLimit \in Nat \cup {Null}
  BY SettingAssumption
<1>2. st.opts.limit # 0 /\ st.opts.maxLimit # 0
  BY DEF PlainSettings
<1>. QED  BY <1>1, <1>2 DEF Caps, OrElse, DefaultMaxLimit, DefaultPageSize

\* What pages are made of.
LEMMA PageNumberFacts ==
    ASSUME PlainSettings, NEW st \in Setting, NEW ask, NEW t, Sized(ask, t)
    PROVE  /\ ask.size # Null => PageSize(ask, st) \in Nat \ {0}
           /\ Room("postgrest", ask, st) \in Nat \ {0}
           /\ ask.paging # "none" => t * ask.size \in Nat /\ t * PageSize(ask, st) \in Nat
           /\ ask.one => Room("postgrest", ask, st) = 1
           /\ ~ask.one /\ ask.size # Null => Room("postgrest", ask, st)
                = Least(PageSize(ask, st), OrElse(st.svc.maxLimit, DefaultMaxLimit))
           /\ ~ask.one /\ ask.size = Null => Room("postgrest", ask, st)
                = Least(OrElse(st.opts.limit, DefaultPageSize), OrElse(st.svc.maxLimit, DefaultMaxLimit))
<1>. DEFINE a == OrElse(st.opts.maxLimit, DefaultMaxLimit)
            b == OrElse(st.svc.maxLimit, DefaultMaxLimit)
            c == OrElse(st.opts.limit, DefaultPageSize)
            n == PageSize(ask, st)
            r == Room("postgrest", ask, st)
<1>1. a \in Nat \ {0} /\ b \in Nat \ {0} /\ c \in Nat \ {0}
  BY SettingNumbers DEF Caps
<1>2. n = Least(ask.size, a)
  BY DEF PageSize
<1>3. r = IF ask.one THEN 1 ELSE IF ask.size # Null THEN Least(ask.size, Least(a, b)) ELSE Least(c, b)
  BY DEF Room
<1>4. ask.size \in (Nat \ {0}) \cup {Null} /\ t \in Nat /\ (ask.paging # "none" => ask.size # Null)
  BY DEF Sized
<1>. HIDE DEF a, b, c, n, r
<1>5. ask.size # Null => n \in Nat \ {0}
  BY <1>1, <1>2, <1>4 DEF Least
<1>6. ask.size # Null => Least(ask.size, Least(a, b)) = Least(n, b) /\ Least(n, b) \in Nat \ {0}
  BY <1>1, <1>2, <1>4, <1>5 DEF Least
<1>7. Least(c, b) \in Nat \ {0}
  BY <1>1 DEF Least
<1>8. ask.paging # "none" => t * ask.size \in Nat /\ t * n \in Nat
  BY <1>4, <1>5
<1>. QED  BY <1>3, <1>4, <1>5, <1>6, <1>7, <1>8 DEF a, b, c, n, r

\* What the parser makes of them.
NumbersRead(parsed, style, ask, st, t) ==
    /\ PageLimit(parsed, st.svc) = Room("postgrest", ask, st)
    /\ PageOffset(parsed, st.svc) = Start(style, ask, st, t)
    /\ parsed.asked.limit <=> ask.one \/ ask.size # Null
    /\ parsed.asked.page <=> style = "page"
    /\ parsed.asked.offset <=> style # "none"
    /\ parsed.page = IF style = "page" THEN t + 1 ELSE 1
    /\ ~ask.one /\ ask.size # Null => parsed.limit = PageSize(ask, st)

LEMMA NestjsxNumbers ==
    ASSUME PlainSettings, NEW st \in Setting, NEW ask, NEW t, Sized(ask, t),
           NEW q, NEW style, style \in {ask.paging, Style("postgrest", ask)},
           Numbered(q, style, ask, t), NEW auth,
           NEW parsed, parsed = ParseNestjsx(q, <<>>, auth, st.opts)
    PROVE  NumbersRead(parsed, style, ask, st, t)
<1>. DEFINE a == OrElse(st.opts.maxLimit, DefaultMaxLimit)
            b == OrElse(st.svc.maxLimit, DefaultMaxLimit)
            c == OrElse(st.opts.limit, DefaultPageSize)
            d == OrElse(st.svc.limit, DefaultPageSize)
            n == PageSize(ask, st)
            r == Room("postgrest", ask, st)
            l == ParseLimit(q, st.opts)
            o == ParseOffset(q, st.opts)
<1>1. a \in Nat \ {0} /\ b \in Nat \ {0} /\ c \in Nat \ {0}
  BY SettingNumbers DEF Caps
<1>2. /\ ask.size # Null => n \in Nat \ {0} /\ n = Least(ask.size, a)
      /\ r \in Nat
      /\ ask.paging # "none" => t * ask.size \in Nat /\ t * n \in Nat
      /\ ask.one => r = 1
      /\ ~ask.one /\ ask.size # Null => r = Least(n, b)
      /\ ~ask.one /\ ask.size = Null => r = Least(c, b)
  BY PageNumberFacts DEF PageSize
<1>3. /\ ask.size \in (Nat \ {0}) \cup {Null} /\ t \in Nat
      /\ ask.paging \in {"none", "page", "offset"}
      /\ ask.paging # "none" => ask.size # Null
      /\ ask.one => t = 0
      /\ Null \notin Int
  BY QueryPipelineAssumption DEF Sized
<1>4. style \in {"none", "page", "offset"} /\ (style # "none" <=> ask.paging # "none")
  BY <1>3 DEF Style
<1>5. /\ q.limit = IF ask.one THEN 1 ELSE ask.size
      /\ q.offset = IF style = "offset" THEN t * ask.size ELSE Null
      /\ q.page = IF style = "page" THEN t + 1 ELSE Null
  BY DEF Numbered
<1>6. /\ l = IF q.limit = Null THEN Null ELSE Least(q.limit, a)
      /\ o = IF q.page # Null /\ q.offset \in {Null, 0} THEN (q.page - 1) * OrElse(l, c) ELSE q.offset
  BY DEF ParseLimit, ParseOffset
<1>7. /\ parsed.limit = OrElse(l, c) /\ parsed.offset = OrElse(o, 0) /\ parsed.page = OrElse(q.page, 1)
      /\ parsed.asked.limit <=> q.limit # Null
      /\ parsed.asked.page <=> q.page # Null
      /\ parsed.asked.offset <=> o # Null
  BY DEF ParseNestjsx
<1>8. /\ PageLimit(parsed, st.svc) = Least(OrElse(parsed.limit, d), b)
      /\ PageOffset(parsed, st.svc)
           = OrElse(parsed.offset, (OrElse(parsed.page, 1) - 1) * PageLimit(parsed, st.svc))
  BY DEF PageLimit, PageOffset
<1>9. Start(style, ask, st, t)
        = IF style = "page" THEN t * n ELSE IF style = "offset" THEN t * ask.size ELSE 0
  BY DEF Start
<1>. HIDE DEF a, b, c, d, n, r, l, o
<1>10. /\ ask.one => l = 1
       /\ ~ask.one /\ ask.size # Null => l = n
       /\ ~ask.one /\ ask.size = Null => l = Null
  BY <1>1, <1>2, <1>3, <1>5, <1>6 DEF Least
<1>11. /\ ask.one => parsed.limit = 1
       /\ ~ask.one /\ ask.size # Null => parsed.limit = n
       /\ ~ask.one /\ ask.size = Null => parsed.limit = c
       /\ parsed.limit = OrElse(l, c)
  BY <1>1, <1>2, <1>3, <1>7, <1>10 DEF OrElse
<1>12. OrElse(parsed.limit, d) = parsed.limit
  BY <1>1, <1>2, <1>3, <1>11 DEF OrElse
<1>13. PageLimit(parsed, st.svc) = r
  <2>1. ask.one => Least(parsed.limit, b) = 1
    BY <1>1, <1>11 DEF Least
  <2>. QED  BY <1>2, <1>8, <1>11, <1>12, <2>1
<1>14. style = "page" => q.page = t + 1 /\ q.page # Null /\ q.offset = Null /\ o = t * parsed.limit
  <2>1. style = "page" => t + 1 \in Int /\ (t + 1) - 1 = t
    BY <1>3
  <2>. QED  BY <1>3, <1>5, <1>6, <1>11, <2>1
<1>15. style # "page" => q.page = Null /\ o = q.offset
  BY <1>5, <1>6
<1>16. style # "none" => parsed.offset = Start(style, ask, st, t) /\ o # Null
  <2>1. style = "page" => o = t * n /\ t * n \in Nat
    <3>1. CASE ask.one
      <4>1. t = 0 /\ (style = "page" => n \in Nat)
        BY <1>2, <1>3, <1>4, <3>1
      <4>2. parsed.limit = 1
        BY <1>11, <3>1
      <4>3. style = "page" => t * n = 0 /\ t * parsed.limit = 0
        BY <4>1, <4>2
      <4>. QED  BY <1>14, <4>3
    <3>2. CASE ~ask.one
      BY <1>2, <1>3, <1>4, <1>11, <1>14, <3>2
    <3>. QED  BY <3>1, <3>2
  <2>2. style = "offset" => o = t * ask.size /\ t * ask.size \in Nat
    BY <1>2, <1>4, <1>5, <1>15
  <2>3. \A x \in Nat : OrElse(x, 0) = x /\ x # Null
    BY <1>3 DEF OrElse
  <2>. QED  BY <1>4, <1>7, <1>9, <2>1, <2>2, <2>3
<1>17. style = "none" => o = Null /\ parsed.offset = 0 /\ Start(style, ask, st, t) = 0
  BY <1>5, <1>7, <1>9, <1>15 DEF OrElse
<1>18. parsed.page = (IF style = "page" THEN t + 1 ELSE 1) /\ OrElse(parsed.page, 1) = parsed.page
  BY <1>3, <1>4, <1>5, <1>7 DEF OrElse
<1>19. PageOffset(parsed, st.svc) = Start(style, ask, st, t)
  <2>. DEFINE e == Start(style, ask, st, t)
  <2>1. e \in Nat /\ parsed.offset = e
    BY <1>2, <1>4, <1>9, <1>16, <1>17
  <2>2. CASE e # 0
    BY <1>3, <1>8, <2>1, <2>2 DEF OrElse
  <2>3. CASE e = 0
    <3>1. (parsed.page - 1) * r = 0
      <4>1. CASE style = "page"
        <5>0. n \in Nat \ {0}
          BY <1>2, <1>3, <1>4, <4>1
        <5>1. t * n = 0
          BY <1>9, <2>3, <4>1
        <5>2. t = 0
          BY <1>3, <5>0, <5>1
        <5>3. parsed.page - 1 = 0
          BY <1>18, <4>1, <5>2
        <5>. QED  BY <1>2, <5>3
      <4>2. CASE style # "page"
        <5>1. parsed.page - 1 = 0
          BY <1>18, <4>2
        <5>. QED  BY <1>2, <5>1
      <4>. QED  BY <4>1, <4>2
    <3>2. PageOffset(parsed, st.svc) = (parsed.page - 1) * r
      BY <1>8, <1>13, <1>18, <2>1, <2>3 DEF OrElse
    <3>. QED  BY <2>3, <3>1, <3>2
  <2>. QED  BY <2>2, <2>3
<1>20. parsed.asked.limit <=> ask.one \/ ask.size # Null
  BY <1>3, <1>5, <1>7
<1>21. (parsed.asked.page <=> style = "page") /\ (parsed.asked.offset <=> style # "none")
  BY <1>7, <1>14, <1>15, <1>16, <1>17, <1>5
<1>. QED  BY <1>11, <1>13, <1>18, <1>19, <1>20, <1>21 DEF NumbersRead, n, r

LEMMA PostgrestNumbers ==
    ASSUME PlainSettings, NEW st \in Setting, NEW ask, NEW t, Sized(ask, t), Many(ask),
           NEW q, Numbered(q, Style("postgrest", ask), ask, t), NEW auth,
           NEW parsed, parsed = ParsePostgrest(q, <<>>, auth, st.opts)
    PROVE  /\ PageLimit(parsed, st.svc) = Room("postgrest", ask, st)
           /\ PageOffset(parsed, st.svc) = Start(Style("postgrest", ask), ask, st, t)
<1>. DEFINE a == OrElse(st.opts.maxLimit, DefaultMaxLimit)
            b == OrElse(st.svc.maxLimit, DefaultMaxLimit)
            c == OrElse(st.opts.limit, DefaultPageSize)
            d == OrElse(st.svc.limit, DefaultPageSize)
            n == PageSize(ask, st)
            r == Room("postgrest", ask, st)
            l == IF q.limit = Null THEN Null
                 ELSE Least(q.limit, IF st.opts.maxLimit = Null THEN DefaultMaxLimit ELSE st.opts.maxLimit)
            style == Style("postgrest", ask)
<1>1. /\ a \in Nat \ {0} /\ b \in Nat \ {0} /\ c \in Nat \ {0}
      /\ a = IF st.opts.maxLimit = Null THEN DefaultMaxLimit ELSE st.opts.maxLimit
      /\ c = IF st.opts.limit = Null THEN DefaultPageSize ELSE st.opts.limit
  BY SettingNumbers DEF Caps
<1>2. /\ ask.size # Null => n \in Nat \ {0} /\ n = Least(ask.size, a)
      /\ r \in Nat
      /\ ask.paging # "none" => t * ask.size \in Nat
      /\ ask.size # Null => r = Least(n, b)
      /\ ask.size = Null => r = Least(c, b)
  BY PageNumberFacts DEF PageSize, Many
<1>3. /\ ask.size \in (Nat \ {0}) \cup {Null}
      /\ ask.paging \in {"none", "page", "offset"}
      /\ ask.paging # "none" => ask.size # Null
      /\ Null \notin Int
  BY QueryPipelineAssumption DEF Sized
<1>4. style \in {"none", "offset"} /\ (style # "none" <=> ask.paging # "none")
  BY <1>3 DEF Style
<1>5. /\ q.limit = ask.size
      /\ q.offset = IF style = "offset" THEN t * ask.size ELSE Null
  BY DEF Numbered, Many
<1>6. l = IF q.limit = Null THEN Null ELSE Least(q.limit, a)
  BY <1>1
<1>7. /\ parsed.limit = (IF l # Null THEN l
                         ELSE IF st.opts.limit # Null THEN st.opts.limit ELSE DefaultPageSize)
      /\ parsed.offset = (IF q.offset = Null THEN 0 ELSE q.offset)
      /\ parsed.page = (IF q.offset # Null /\ OrElse(l, 0) # 0 THEN q.offset \div l + 1 ELSE 1)
  BY DEF ParsePostgrest
<1>8. /\ PageLimit(parsed, st.svc) = Least(OrElse(parsed.limit, d), b)
      /\ PageOffset(parsed, st.svc)
           = OrElse(parsed.offset, (OrElse(parsed.page, 1) - 1) * PageLimit(parsed, st.svc))
  BY DEF PageLimit, PageOffset
<1>9. Start(style, ask, st, t) = IF style = "offset" THEN t * ask.size ELSE 0
  BY <1>4 DEF Start
<1>. HIDE DEF a, b, c, d, n, r, l, style
<1>10. (ask.size # Null => l = n) /\ (ask.size = Null => l = Null)
  BY <1>2, <1>5, <1>6
<1>11. (ask.size # Null => parsed.limit = n) /\ (ask.size = Null => parsed.limit = c)
  BY <1>1, <1>2, <1>3, <1>7, <1>10
<1>12. OrElse(parsed.limit, d) = parsed.limit
  BY <1>1, <1>2, <1>3, <1>11 DEF OrElse
<1>13. PageLimit(parsed, st.svc) = r
  BY <1>2, <1>8, <1>11, <1>12
<1>14. parsed.offset = Start(style, ask, st, t) /\ parsed.offset \in Nat
  BY <1>2, <1>3, <1>4, <1>5, <1>7, <1>9
<1>15. PageOffset(parsed, st.svc) = Start(style, ask, st, t)
  <2>1. CASE parsed.offset # 0
    BY <1>3, <1>8, <1>14, <2>1 DEF OrElse
  <2>2. CASE parsed.offset = 0
    <3>1. parsed.page = 1
      <4>1. CASE style = "none"
        BY <1>5, <1>7, <4>1
      <4>2. CASE style = "offset"
        <5>1. l = n /\ n \in Nat \ {0} /\ q.offset = 0
          BY <1>2, <1>3, <1>4, <1>5, <1>10, <1>7, <2>2, <4>2
        <5>2. \A x \in Nat \ {0} : 0 \div x = 0
          OBVIOUS
        <5>3. q.offset \div l = 0
          BY <5>1, <5>2
        <5>. QED  BY <1>7, <5>3
      <4>. QED  BY <1>4, <4>1, <4>2
    <3>2. OrElse(parsed.page, 1) = 1 /\ (1 - 1) * r = 0
      BY <1>2, <1>3, <3>1 DEF OrElse
    <3>. QED  BY <1>8, <1>13, <1>14, <2>2, <3>2 DEF OrElse
  <2>. QED  BY <2>1, <2>2
<1>. QED  BY <1>13, <1>15 DEF r, style

-----------------------------------------------------------------------------
(* Sorts.                                                                  *)

\* The order= tokens of a sort asked for.
Ordered(q, ask) ==
    q.order = [i \in DOMAIN ask.sort |->
                 [field |-> ask.sort[i].field,
                  modifiers |-> IF ask.sort[i].order = "DESC" THEN <<"desc">> ELSE <<"asc">>]]

LEMMA SortsRead ==
    ASSUME NEW ask, OneSort(ask)
    PROVE  /\ ParseSort(ask.sort) = SortAsked(ask)
           /\ \A q : Ordered(q, ask) => ParseOrder(q.order) = SortAsked(ask)
           /\ {s.field : s \in ToSet(SortAsked(ask))} = {ask.sort[i].field : i \in DOMAIN ask.sort}
           /\ \A i \in DOMAIN ask.sort : /\ i = 1
                                         /\ ask.sort[i].order \in {"ASC", "DESC"}
                                         /\ ask.sort[i].field[1] = <<>>
<1>1. \A i \in DOMAIN ask.sort : /\ i = 1 /\ ask.sort[i].order \in {"ASC", "DESC"}
                                 /\ ask.sort[i].field = <<<<>>, ask.sort[1].field[2]>>
  <2>1. CASE ask.sort = <<>>
    <3>1. DOMAIN ask.sort = {}
      BY <2>1
    <3>. QED  BY <3>1
  <2>2. CASE ask.sort # <<>>
    <3>. DEFINE e == [field |-> <<<<>>, ask.sort[1].field[2]>>, order |-> ask.sort[1].order]
    <3>1. ask.sort = <<e>> /\ ask.sort[1].order \in {"ASC", "DESC"}
      BY <2>2 DEF OneSort
    <3>2. e.field = <<<<>>, ask.sort[1].field[2]>>
      OBVIOUS
    <3>. HIDE DEF e
    <3>3. DOMAIN ask.sort = {1} /\ ask.sort[1] = e
      <4>1. DOMAIN <<e>> = {1} /\ <<e>>[1] = e
        OBVIOUS
      <4>. QED  BY <3>1, <4>1
    <3>. QED  BY <3>1, <3>2, <3>3
  <2>. QED  BY <2>1, <2>2
<1>2. ParseSort(ask.sort) = SortAsked(ask)
  BY DEF ParseSort, SortAsked
<1>3. ASSUME NEW q, Ordered(q, ask) PROVE ParseOrder(q.order) = SortAsked(ask)
  <2>. DEFINE tokens == q.order
              parse(i) ==
                [field |-> tokens[i].field,
                 order |-> IF Counts(tokens[i].modifiers, "desc", "asc") THEN "DESC" ELSE "ASC",
                 nulls |-> IF Counts(tokens[i].modifiers, "nullsfirst", "nullslast") THEN "FIRST"
                           ELSE IF Counts(tokens[i].modifiers, "nullslast", "nullsfirst") THEN "LAST"
                           ELSE ""]
  <2>1. /\ DOMAIN tokens = DOMAIN ask.sort
        /\ \A i \in DOMAIN ask.sort :
              /\ tokens[i].field = ask.sort[i].field
              /\ tokens[i].modifiers = IF ask.sort[i].order = "DESC" THEN <<"desc">> ELSE <<"asc">>
    BY <1>3 DEF Ordered
  <2>2. ParseOrder(tokens) = [i \in DOMAIN tokens |-> parse(i)]
    BY Zenon DEF ParseOrder
  <2>3. /\ Counts(<<"desc">>, "desc", "asc") /\ ~Counts(<<"asc">>, "desc", "asc")
        /\ \A m, n : ~Counts(<<"asc">>, "nullsfirst", n) /\ ~Counts(<<"desc">>, "nullsfirst", n)
        /\ \A m, n : ~Counts(<<"asc">>, "nullslast", n) /\ ~Counts(<<"desc">>, "nullslast", n)
    <3>1. \A x : DOMAIN <<x>> = {1} /\ <<x>>[1] = x
      OBVIOUS
    <3>. QED  BY <3>1 DEF Counts
  <2>4. ASSUME NEW i \in DOMAIN ask.sort
        PROVE  parse(i) = [field |-> ask.sort[i].field, order |-> ask.sort[i].order, nulls |-> ""]
    <3>1. tokens[i].modifiers \in {<<"desc">>, <<"asc">>}
          /\ (tokens[i].modifiers = <<"desc">> <=> ask.sort[i].order = "DESC")
      BY <2>1
    <3>2. ask.sort[i].order \in {"ASC", "DESC"}
      BY <1>1
    <3>3. (IF Counts(tokens[i].modifiers, "desc", "asc") THEN "DESC" ELSE "ASC") = ask.sort[i].order
      BY <2>3, <3>1, <3>2
    <3>4. (IF Counts(tokens[i].modifiers, "nullsfirst", "nullslast") THEN "FIRST"
           ELSE IF Counts(tokens[i].modifiers, "nullslast", "nullsfirst") THEN "LAST" ELSE "") = ""
      BY <2>3, <3>1
    <3>. QED  BY <2>1, <3>3, <3>4
  <2>. HIDE DEF tokens, parse
  <2>5. ParseOrder(tokens) = SortAsked(ask)
    BY <2>1, <2>2, <2>4 DEF SortAsked
  <2>. QED  BY <2>5 DEF tokens
<1>4. {s.field : s \in ToSet(SortAsked(ask))} = {ask.sort[i].field : i \in DOMAIN ask.sort}
  <2>. DEFINE sort == SortAsked(ask)
  <2>1. DOMAIN sort = DOMAIN ask.sort /\ \A i \in DOMAIN ask.sort : sort[i].field = ask.sort[i].field
    BY DEF SortAsked
  <2>. HIDE DEF sort
  <2>2. {s.field : s \in ToSet(sort)} = {ask.sort[i].field : i \in DOMAIN ask.sort}
    BY <2>1 DEF ToSet
  <2>. QED  BY <2>2 DEF sort
<1>5. \A i \in DOMAIN ask.sort : ask.sort[i].field[1] = <<>>
  BY <1>1
<1>. QED  BY <1>1, <1>2, <1>3, <1>4, <1>5

\* A sort that is not refused is one by a column there is.
LEMMA SortIsKnown ==
    ASSUME NEW ask, OneSort(ask), NEW parsed, parsed.sort = SortAsked(ask),
           NEW joined, <<>> \notin joined, UnknownFields(parsed, joined) = {}
    PROVE  SortKnown(ask)
<1>. SUFFICES ASSUME ask.sort # <<>> PROVE ask.sort[1].field[2] \in RootColumn
  BY DEF SortKnown
<1>. DEFINE e == [field |-> <<<<>>, ask.sort[1].field[2]>>, order |-> ask.sort[1].order]
<1>1. ask.sort = <<e>> /\ e.field[1] = <<>>
  BY DEF OneSort
<1>. HIDE DEF e
<1>2. 1 \in DOMAIN ask.sort /\ ask.sort[1] = e
  <2>1. DOMAIN <<e>> = {1} /\ <<e>>[1] = e
    OBVIOUS
  <2>. QED  BY <1>1, <2>1
<1>3. ask.sort[1].field \in {s.field : s \in ToSet(parsed.sort)}
  <2>1. {s.field : s \in ToSet(SortAsked(ask))} = {ask.sort[i].field : i \in DOMAIN ask.sort}
    BY SortsRead
  <2>. QED  BY <1>2, <2>1
<1>4. {s.field : s \in ToSet(parsed.sort)} \subseteq KnownFields(joined)
  BY DEF UnknownFields
<1>. QED  BY <1>1, <1>2, <1>3, <1>4, FieldIsKnown

-----------------------------------------------------------------------------
(* Answers.                                                                *)

LEMMA RoomIs ==
    ASSUME NEW ask, NEW st
    PROVE  Room("nestjsx", ask, st) =
             IF ~ask.one /\ ask.size = Null /\ ~st.opts.alwaysPaginate /\ OrElse(st.svc.limit, 0) = 0
             THEN Cardinality(DOMAIN Rows) ELSE Room("postgrest", ask, st)
BY DEF Room

\* a is page t of what is meant.
Told(lane, style, ask, st, t, a) ==
    /\ SortKnown(ask)
    /\ Shows(a, ask, st)
    /\ \E s \in Orderings(Meant(lane, ask, st), SortAsked(ask)) :
        /\ a.rows = Window(s, Start(style, ask, st, t), Room(lane, ask, st))
        /\ style = "page" /\ ~ask.one =>
            /\ a.envelope /\ a.page = t + 1 /\ a.total = Len(s)
            /\ a.pageCount = PageCount(Len(s), PageSize(ask, st))

Succeeds(a) == a.status = 200

LEMMA NotRefused ==
    ASSUME NEW parsed, NEW opts, NEW svc, NEW joined,
           NEW a \in GetManyAnswers(parsed, opts, svc, joined), Succeeds(a)
    PROVE  /\ UnknownFields(parsed, joined) = {}
           /\ \E s \in Orderings(KeptRows(parsed, opts, joined), parsed.sort) :
                 a = AnswerWith(s, parsed, opts, svc, joined)
<1>. DEFINE failure == QueryFailure(parsed, joined, TRUE, svc)
            all == {AnswerWith(s, parsed, opts, svc, joined) :
                      s \in Orderings(KeptRows(parsed, opts, joined), parsed.sort)}
<1>1. a \in IF failure # 200 THEN {Failure(failure)} ELSE all
  BY Zenon DEF GetManyAnswers
<1>2. failure = 200
  <2>. HIDE DEF failure, all
  <2>1. Failure(failure).status = failure
    BY DEF Failure
  <2>. QED  BY <1>1, <2>1 DEF Succeeds
<1>3. \E s \in Orderings(KeptRows(parsed, opts, joined), parsed.sort) :
         a = AnswerWith(s, parsed, opts, svc, joined)
  BY <1>1, <1>2
<1>4. UnknownFields(parsed, joined) = {}
  <2>. DEFINE unbuildable == \E c \in WhereConditions(parsed) \cup OnConditions(parsed, joined) :
                                 ~Buildable(c)
              unknown == UnknownFields(parsed, joined) # {}
              known == /\ parsed.dialect = "postgrest"
                       /\ \A f \in UnknownFields(parsed, joined) : f[1] \in joined \cup {<<>>}
              negative == PageLimit(parsed, svc) < 0 \/ PageOffset(parsed, svc) < 0
  <2>1. failure = IF unbuildable THEN 400
                  ELSE IF unknown THEN IF known THEN 400 ELSE 500
                  ELSE IF negative THEN 500 ELSE 200
    BY DEF QueryFailure
  <2>2. ~unknown
    <3>. HIDE DEF unbuildable, unknown, known, negative, failure
    <3>. QED  BY <1>2, <2>1
  <2>. QED  BY <2>2
<1>. QED  BY <1>3, <1>4

\* b with or without an envelope.
Carries(a, b) == a = b \/ \E total, page, count : a = Enveloped(b, total, page, count)

\* The envelope of a page.
Counted(a, b, total, style, ask, st, t) ==
    style = "page" /\ ~ask.one =>
        a = Enveloped(b, total, t + 1, PageCount(total, PageSize(ask, st)))

\* What AnswerWith says of a request in the nestjsx dialect.
LEMMA NestjsxAnswer ==
    ASSUME PlainSettings, NEW st \in Setting, NEW ask, NEW t, Sized(ask, t),
           NEW style, style \in {ask.paging, Style("postgrest", ask)},
           NEW parsed, parsed.dialect = "nestjsx",
           NumbersRead(parsed, style, ask, st, t),
           NEW joined, NEW S, NEW s \in Seq(S), Len(s) <= Cardinality(DOMAIN Rows),
           NEW a, a = AnswerWith(s, parsed, st.opts, st.svc, joined),
           NEW rows, rows = Window(s, Start(style, ask, st, t), Room("nestjsx", ask, st))
    PROVE  /\ Carries(a, Selected(rows, parsed, st.opts, joined))
           /\ Counted(a, Selected(rows, parsed, st.opts, joined), Len(s), style, ask, st, t)
<1>. DEFINE window == Window(s, PageOffset(parsed, st.svc), PageLimit(parsed, st.svc))
            bare == BareRows(s, parsed, st.svc)
            limit == OrElse(parsed.limit, OrElse(st.svc.limit, DefaultPageSize))
            page == IF parsed.asked.page THEN OrElse(parsed.page, 1)
                    ELSE OrElse(parsed.offset, 0) \div limit + 1
            room == Room("nestjsx", ask, st)
            from == Start(style, ask, st, t)
            small == Room("postgrest", ask, st)
<1>1. a = IF parsed.dialect = "postgrest" THEN Selected(window, parsed, st.opts, joined)
          ELSE IF ~Paginated(parsed, st.opts) THEN Selected(bare, parsed, st.opts, joined)
          ELSE Enveloped(Selected(window, parsed, st.opts, joined), Len(s), page, PageCount(Len(s), limit))
  BY Zenon DEF AnswerWith
<1>0. /\ PageLimit(parsed, st.svc) = small /\ PageOffset(parsed, st.svc) = from
      /\ parsed.asked.limit <=> ask.one \/ ask.size # Null
      /\ parsed.asked.page <=> style = "page"
      /\ parsed.asked.offset <=> style # "none"
      /\ parsed.page = IF style = "page" THEN t + 1 ELSE 1
      /\ ~ask.one /\ ask.size # Null => parsed.limit = PageSize(ask, st)
  BY DEF NumbersRead
<1>2. window = Window(s, from, small)
  BY <1>0
<1>3. room = IF ~ask.one /\ ask.size = Null /\ ~st.opts.alwaysPaginate /\ OrElse(st.svc.limit, 0) = 0
             THEN Cardinality(DOMAIN Rows) ELSE small
  BY RoomIs
<1>4. style \in {"none", "page", "offset"} /\ (style # "none" <=> ask.paging # "none")
      /\ (ask.paging # "none" => ask.size # Null)
  BY DEF Sized, Style
<1>5. style = "page" /\ ~ask.one => limit = PageSize(ask, st) /\ page = t + 1
  <2>1. ask.size # Null => PageSize(ask, st) \in Nat \ {0}
    BY PageNumberFacts
  <2>2. Null \notin Int /\ t \in Nat
    BY QueryPipelineAssumption DEF Sized
  <2>3. \A x \in Nat \ {0} : \A y : OrElse(x, y) = x
    BY <2>2 DEF OrElse
  <2>4. OrElse(t + 1, 1) = t + 1
    BY <2>2, <2>3
  <2>. QED  BY <1>0, <1>4, <2>1, <2>3, <2>4
<1>6. Paginated(parsed, st.opts) <=> st.opts.alwaysPaginate \/ style # "none"
  BY <1>0, <1>4 DEF Paginated
<1>7. ~Paginated(parsed, st.opts) => bare = Window(s, from, room)
  <2>1. style = "none" => from = 0
    BY DEF Start
  <2>2. Window(s, 0, Cardinality(DOMAIN Rows)) = s
    <3>1. Cardinality(DOMAIN Rows) \in Nat
      BY CrudServiceAssumption, FS_CardinalityType
    <3>. QED  BY <3>1, WholeWindow
  <2>3. bare = IF parsed.asked.limit \/ OrElse(st.svc.limit, 0) # 0 THEN Window(s, 0, small) ELSE s
    BY <1>0 DEF BareRows
  <2>. HIDE DEF bare, from, small, room
  <2>. QED  BY <1>0, <1>3, <1>4, <1>6, <2>1, <2>2, <2>3
<1>8. Paginated(parsed, st.opts) => window = Window(s, from, room)
  <2>. HIDE DEF window, from, small, room
  <2>. QED  BY <1>2, <1>3, <1>4, <1>6
<1>. HIDE DEF window, bare, limit, page, room, from, small
<1>9. CASE Paginated(parsed, st.opts)
  <2>1. a = Enveloped(Selected(window, parsed, st.opts, joined), Len(s), page, PageCount(Len(s), limit))
    BY <1>1, <1>9
  <2>2. window = rows
    BY <1>8, <1>9 DEF from, room
  <2>. QED  BY <1>5, <2>1, <2>2 DEF Carries, Counted
<1>10. CASE ~Paginated(parsed, st.opts)
  <2>1. a = Selected(bare, parsed, st.opts, joined) /\ style # "page"
    BY <1>1, <1>6, <1>10
  <2>2. bare = rows
    BY <1>7, <1>10 DEF from, room
  <2>. QED  BY <2>1, <2>2 DEF Carries, Counted
<1>. QED  BY <1>9, <1>10

LEMMA EnvelopedFields ==
    ASSUME NEW rows, NEW parsed, NEW opts, NEW joined, NEW b, b = Selected(rows, parsed, opts, joined),
           NEW total, NEW page, NEW count, NEW a, a = Enveloped(b, total, page, count)
    PROVE  /\ a.status = b.status /\ a.rows = b.rows /\ a.columns = b.columns /\ a.joins = b.joins
           /\ a.related = b.related
           /\ a.envelope /\ a.total = total /\ a.page = page /\ a.pageCount = count
<1>1. /\ {"status", "rows", "columns", "joins", "related", "envelope", "total", "page", "pageCount"}
            \subseteq DOMAIN b
  BY DEF Selected, Failure
<1>. QED  BY <1>1 DEF Enveloped

LEMMA ShownAlike ==
    ASSUME NEW ask, NEW st, NEW b, Shows(b, ask, st), NEW a, a.rows = b.rows,
           a.columns = b.columns, a.joins = b.joins, a.related = b.related
    PROVE  Shows(a, ask, st)
BY DEF Shows

\* An answer in the nestjsx dialect to what the EntityClient sends.
LEMMA NestjsxTold ==
    ASSUME PlainSettings, NEW st \in Setting, NEW ask, Programmed(ask), OneSort(ask),
           NEW t, Sized(ask, t), NEW p, Paramed(p, ask), p.sort = ask.sort,
           NEW style, style \in {ask.paging, Style("postgrest", ask)}, Numbered(p, style, ask, t),
           NEW parsed, parsed = ParseNestjsx(BuildQueryParams(p), <<>>, AuthContext(st.auth), st.opts),
           NEW joined, joined = JoinedPaths(parsed, st.opts),
           NEW a \in GetManyAnswers(parsed, st.opts, st.svc, joined), Succeeds(a)
    PROVE  Told("nestjsx", style, ask, st, t, a)
<1>. DEFINE q == BuildQueryParams(p)
            kept == KeptRows(parsed, st.opts, joined)
            sort == SortAsked(ask)
<1>1. joined = Joined(ask, st) /\ <<>> \notin joined
  <2>1. JoinsFor(parsed, ask, {})
    BY NestjsxJoins
  <2>2. JoinsAre(parsed.join, ask, {})
    BY <2>1 DEF JoinsFor
  <2>3. joined = Joined(ask, st)
    BY <2>2, JoinedIs
  <2>. QED  BY <2>3, JoinedFacts
<1>2. parsed.sort = sort /\ parsed.dialect = "nestjsx"
  <2>1. parsed.sort = ParseSort(q.sort) /\ parsed.dialect = "nestjsx"
    BY DEF ParseNestjsx
  <2>2. q.sort = ask.sort
    BY BuiltQuery
  <2>. QED  BY <2>1, <2>2, SortsRead
<1>3. /\ UnknownFields(parsed, joined) = {}
      /\ \E s \in Orderings(kept, parsed.sort) : a = AnswerWith(s, parsed, st.opts, st.svc, joined)
  BY NotRefused
<1>4. Known(joined, Standing(ask.conds) \cup ToSet(ask.any))
  <2>1. ToSet(p.filter) \cup ToSet(p.or) \subseteq WhereConditions(parsed)
    BY NestjsxConditions DEF Paramed, Programmed
  <2>2. \A c \in WhereConditions(parsed) : c.field \in KnownFields(joined)
    BY <1>3 DEF UnknownFields
  <2>3. \A c \in ToSet(p.filter) \cup ToSet(p.or) : c.field[1] \in {<<>>, AskedPath}
    BY WrittenMembers DEF Paramed, Programmed
  <2>. QED  BY <2>1, <2>2, <2>3 DEF Known, Paramed
<1>5. kept = Meant("nestjsx", ask, st)
  BY <1>1, <1>4, NestjsxKept
<1>6. SortKnown(ask)
  BY <1>1, <1>2, <1>3, SortIsKnown
<1>7. PICK s \in Orderings(kept, sort) : a = AnswerWith(s, parsed, st.opts, st.svc, joined)
  BY <1>2, <1>3
<1>8. kept \in SUBSET DOMAIN Rows
  BY DEF KeptRows
<1>. HIDE DEF kept, sort
<1>9. s \in Seq(kept) /\ Len(s) = Cardinality(kept) /\ Len(s) \in Nat
  BY <1>6, <1>7, <1>8, OrderingIs DEF sort
<1>10. Len(s) <= Cardinality(DOMAIN Rows)
  <2>1. IsFiniteSet(DOMAIN Rows)
    BY CrudServiceAssumption
  <2>2. Cardinality(kept) <= Cardinality(DOMAIN Rows)
    BY <1>8, <2>1, FS_Subset
  <2>. QED  BY <1>9, <2>2
<1>11. NumbersRead(parsed, style, ask, st, t)
  <2>1. Numbered(q, style, ask, t)
    <3>1. q.limit = p.limit /\ q.offset = p.offset /\ q.page = p.page
      BY BuiltQuery
    <3>. HIDE DEF q
    <3>. QED  BY <3>1 DEF Numbered
  <2>. QED  BY <2>1, NestjsxNumbers
<1>. DEFINE rows == Window(s, Start(style, ask, st, t), Room("nestjsx", ask, st))
<1>20. rows = Window(s, Start(style, ask, st, t), Room("nestjsx", ask, st))
  OBVIOUS
<1>. HIDE DEF rows
<1>12. /\ Carries(a, Selected(rows, parsed, st.opts, joined))
       /\ Counted(a, Selected(rows, parsed, st.opts, joined), Len(s), style, ask, st, t)
  BY <1>2, <1>7, <1>9, <1>10, <1>11, <1>20, NestjsxAnswer
<1>13. ToSet(rows) \subseteq kept
  <2>1. Start(style, ask, st, t) \in Nat /\ Room("nestjsx", ask, st) \in Nat
    <3>1. Room("postgrest", ask, st) \in Nat /\ Cardinality(DOMAIN Rows) \in Nat
      BY PageNumberFacts, CrudServiceAssumption, FS_CardinalityType
    <3>2. style \in {"none", "page", "offset"} /\ (style # "none" => ask.paging # "none")
      BY DEF Sized, Style
    <3>3. Start(style, ask, st, t) \in Nat
      BY <3>2, PageNumberFacts DEF Start
    <3>. QED  BY <3>1, <3>3, RoomIs
  <2>2. rows \in Seq(kept)
    BY <1>9, <1>20, <2>1, WindowIs
  <2>. QED  BY <2>2 DEF ToSet
<1>. DEFINE b == Selected(rows, parsed, st.opts, joined)
<1>14. b.rows = rows /\ Shows(b, ask, st)
  BY <1>1, <1>4, <1>13, NestjsxShows, SelectedFields DEF kept
<1>15. b = Selected(rows, parsed, st.opts, joined)
  OBVIOUS
<1>. HIDE DEF b
<1>16. a.rows = rows /\ Shows(a, ask, st)
  <2>1. CASE a = b
    BY <1>14, <2>1
  <2>2. ASSUME NEW total, NEW page, NEW count, a = Enveloped(b, total, page, count)
        PROVE  a.rows = rows /\ Shows(a, ask, st)
    <3>1. a.rows = b.rows /\ a.columns = b.columns /\ a.joins = b.joins /\ a.related = b.related
      BY <1>15, <2>2, EnvelopedFields
    <3>. QED  BY <1>14, <3>1, ShownAlike
  <2>. QED  BY <1>12, <1>15, <2>1, <2>2 DEF Carries
<1>17. style = "page" /\ ~ask.one => /\ a.envelope /\ a.page = t + 1 /\ a.total = Len(s)
                                     /\ a.pageCount = PageCount(Len(s), PageSize(ask, st))
  BY <1>12, <1>15, EnvelopedFields DEF Counted
<1>. QED  BY <1>5, <1>6, <1>7, <1>16, <1>17, <1>20 DEF Told, sort

\* An answer in the PostgREST dialect to what its builder sends.
LEMMA PostgrestTold ==
    ASSUME PlainSettings, NEW st \in Setting, NEW ask, Programmed(ask), OneSort(ask), Many(ask),
           NEW t, Sized(ask, t), NEW q, Searched(q, ask), Ordered(q, ask),
           Numbered(q, Style("postgrest", ask), ask, t),
           NEW parsed, parsed = ParsePostgrest(q, <<>>, AuthContext(st.auth), st.opts),
           NEW joined, joined = JoinedPaths(parsed, st.opts),
           NEW a \in GetManyAnswers(parsed, st.opts, st.svc, joined), Succeeds(a)
    PROVE  Told("postgrest", Style("postgrest", ask), ask, st, t, a)
<1>. DEFINE kept == KeptRows(parsed, st.opts, joined)
            sort == SortAsked(ask)
            style == Style("postgrest", ask)
<1>1. joined = Joined(ask, st) /\ <<>> \notin joined
  <2>1. JoinsFor(parsed, ask, Shaping(ask))
    BY PostgrestJoins
  <2>2. JoinsAre(parsed.join, ask, Shaping(ask))
    BY <2>1 DEF JoinsFor
  <2>3. joined = Joined(ask, st)
    BY <2>2, JoinedIs
  <2>. QED  BY <2>3, JoinedFacts
<1>2. parsed.sort = sort /\ parsed.dialect = "postgrest"
  <2>1. parsed.sort = ParseOrder(q.order) /\ parsed.dialect = "postgrest"
    BY DEF ParsePostgrest
  <2>. QED  BY <2>1, SortsRead
<1>3. /\ UnknownFields(parsed, joined) = {}
      /\ \E s \in Orderings(kept, parsed.sort) : a = AnswerWith(s, parsed, st.opts, st.svc, joined)
  BY NotRefused
<1>4. Known(joined, (ToSet(ask.conds) \ Shaping(ask)) \cup ToSet(ask.any))
  <2>. SUFFICES ASSUME NEW c \in (ToSet(ask.conds) \ Shaping(ask)) \cup ToSet(ask.any)
                PROVE  c.field \in KnownFields(joined) /\ c.field[1] \in {<<>>, AskedPath}
    BY DEF Known
  <2>1. Writable(c) /\ c.field[1] \in {<<>>, AskedPath}
    BY WrittenMembers DEF Programmed
  <2>2. Reread(c) \in WhereConditions(parsed)
    BY PostgrestConditions
  <2>4. Reread(c).field = c.field
    BY <2>1, RereadSame
  <2>3. \A d \in WhereConditions(parsed) : d.field \in KnownFields(joined)
    BY <1>3 DEF UnknownFields
  <2>. QED  BY <2>1, <2>2, <2>3, <2>4
<1>5. kept = Meant("postgrest", ask, st)
  BY <1>1, <1>4, PostgrestKept
<1>6. SortKnown(ask)
  BY <1>1, <1>2, <1>3, SortIsKnown
<1>7. PICK s \in Orderings(kept, sort) : a = AnswerWith(s, parsed, st.opts, st.svc, joined)
  BY <1>2, <1>3
<1>8. kept \in SUBSET DOMAIN Rows
  BY DEF KeptRows
<1>9. PageLimit(parsed, st.svc) = Room("postgrest", ask, st)
      /\ PageOffset(parsed, st.svc) = Start(style, ask, st, t)
  BY PostgrestNumbers
<1>. DEFINE rows == Window(s, Start(style, ask, st, t), Room("postgrest", ask, st))
<1>10. a = Selected(rows, parsed, st.opts, joined)
  <2>. DEFINE window == Window(s, PageOffset(parsed, st.svc), PageLimit(parsed, st.svc))
              other == IF ~Paginated(parsed, st.opts)
                       THEN Selected(BareRows(s, parsed, st.svc), parsed, st.opts, joined)
                       ELSE Enveloped(Selected(window, parsed, st.opts, joined), Len(s),
                              IF parsed.asked.page THEN OrElse(parsed.page, 1)
                              ELSE OrElse(parsed.offset, 0)
                                      \div OrElse(parsed.limit, OrElse(st.svc.limit, DefaultPageSize)) + 1,
                              PageCount(Len(s), OrElse(parsed.limit, OrElse(st.svc.limit, DefaultPageSize))))
  <2>1. AnswerWith(s, parsed, st.opts, st.svc, joined)
          = IF parsed.dialect = "postgrest" THEN Selected(window, parsed, st.opts, joined) ELSE other
    BY Zenon DEF AnswerWith
  <2>2. window = rows
    BY <1>9
  <2>. HIDE DEF other, window, rows
  <2>. QED  BY <1>2, <1>7, <2>1, <2>2
<1>11. ToSet(rows) \subseteq kept
  <2>. HIDE DEF kept, sort
  <2>1. Start(style, ask, st, t) \in Nat /\ Room("postgrest", ask, st) \in Nat
    <3>1. style \in {"none", "page", "offset"} /\ (style # "none" => ask.paging # "none")
      BY DEF Sized, Style
    <3>. QED  BY <3>1, PageNumberFacts DEF Start
  <2>2. s \in Seq(kept)
    BY <1>6, <1>7, <1>8, OrderingIs DEF sort
  <2>3. rows \in Seq(kept)
    BY <2>1, <2>2, WindowIs
  <2>. HIDE DEF rows
  <2>. QED  BY <2>3 DEF ToSet
<1>12. rows = Window(s, Start(style, ask, st, t), Room("postgrest", ask, st))
  OBVIOUS
<1>. HIDE DEF rows
<1>13. a.rows = rows /\ Shows(a, ask, st)
  BY <1>1, <1>4, <1>10, <1>11, PostgrestShows, SelectedFields DEF kept
<1>14. style # "page"
  BY DEF Style, Sized
<1>. HIDE DEF kept, sort, style
<1>15. Told("postgrest", style, ask, st, t, a)
  BY <1>5, <1>6, <1>7, <1>12, <1>13, <1>14 DEF Told, sort
<1>. QED  BY <1>15 DEF style

-----------------------------------------------------------------------------
(* What an answer told this way shows.                                     *)

LEMMA Monotone ==
    ASSUME NEW a \in Int, NEW b \in Int, a <= b, NEW n \in Nat
    PROVE  a * n <= b * n
<1>1. (b - a) * n \in Nat
  <2>1. b - a \in Nat
    OBVIOUS
  <2>. QED  BY <2>1
<1>2. (b - a) * n = b * n - a * n
  OBVIOUS
<1>. QED  BY <1>1, <1>2

LEMMA Quotient ==
    ASSUME NEW m \in Nat, NEW n \in Nat \ {0}
    PROVE  /\ m \div n \in Int
           /\ (m \div n) * n <= m
           /\ m < (m \div n) * n + n
<1>1. m \div n \in Int /\ m = n * (m \div n) + (m % n) /\ 0 <= m % n /\ m % n < n /\ m % n \in Int
  OBVIOUS
<1>. QED  BY <1>1

\* The page count is exact: k pages hold every row when k is not below it.
LEMMA PageCountBound ==
    ASSUME NEW total \in Nat, NEW n \in Nat \ {0}, NEW k \in Nat
    PROVE  k >= PageCount(total, n) <=> k * n >= total
<1>. DEFINE c == (total + n - 1) \div n
<1>1. c \in Int /\ c * n <= total + n - 1 /\ total + n - 1 < c * n + n
  <2>1. total + n - 1 \in Nat
    OBVIOUS
  <2>. QED  BY <2>1, Quotient
<1>2. PageCount(total, n) = c
  BY DEF PageCount
<1>. HIDE DEF c
<1>3. c * n \in Int /\ k * n \in Int
  BY <1>1
<1>4. ASSUME k >= c PROVE k * n >= total
  <2>1. c * n <= k * n
    BY <1>1, <1>4, Monotone
  <2>. QED  BY <1>1, <1>3, <2>1
<1>5. ASSUME k < c PROVE k * n < total
  <2>1. (k + 1) * n <= c * n
    BY <1>1, <1>5, Monotone
  <2>2. (k + 1) * n = k * n + n
    OBVIOUS
  <2>. QED  BY <1>1, <1>3, <2>1, <2>2
<1>. QED  BY <1>1, <1>2, <1>3, <1>4, <1>5

LEMMA MeantRows ==
    ASSUME NEW lane, NEW ask, NEW st
    PROVE  /\ Meant(lane, ask, st) \in SUBSET DOMAIN Rows
           /\ Cardinality(Meant(lane, ask, st)) \in Nat
           /\ Cardinality(Meant(lane, ask, st)) <= Cardinality(DOMAIN Rows)
           /\ Cardinality(DOMAIN Rows) \in Nat
<1>1. Meant(lane, ask, st) \in SUBSET DOMAIN Rows
  BY DEF Meant
<1>2. IsFiniteSet(DOMAIN Rows)
  BY CrudServiceAssumption
<1>. QED  BY <1>1, <1>2, FS_Subset, FS_CardinalityType

\* The rows are what AnswersWhatWasAsked says of a first page.
FirstPage(rows, lane, ask, st) ==
    /\ ToSet(rows) \subseteq Meant(lane, ask, st)
    /\ Len(rows) = Least(Cardinality(Meant(lane, ask, st)), Room(lane, ask, st))
    /\ \A i, j \in DOMAIN rows : i < j =>
          rows[i] # rows[j] /\ ~Precedes(rows[j], rows[i], SortAsked(ask))
    /\ \A id \in Meant(lane, ask, st) \ ToSet(rows) : \A i \in DOMAIN rows :
          ~Precedes(id, rows[i], SortAsked(ask))

LEMMA ToldFirstPage ==
    ASSUME PlainSettings, NEW st \in Setting, NEW ask, OneSort(ask), Sized(ask, 0),
           NEW lane \in {"nestjsx", "postgrest"}, NEW style \in {"none", "page", "offset"},
           style # "none" => ask.paging # "none",
           NEW a, Told(lane, style, ask, st, 0, a)
    PROVE  FirstPage(a.rows, lane, ask, st)
<1>. DEFINE ids == Meant(lane, ask, st)
            n == Room(lane, ask, st)
            rows == a.rows
<1>1. Start(style, ask, st, 0) = 0
  <2>1. ask.paging # "none" => ask.size \in Nat /\ PageSize(ask, st) \in Nat
    BY PageNumberFacts DEF Sized
  <2>. QED  BY <2>1 DEF Start
<1>2. PICK s \in Orderings(ids, SortAsked(ask)) : rows = Window(s, 0, n)
  BY <1>1 DEF Told
<1>3. n \in Nat
  <2>1. Room("postgrest", ask, st) \in Nat /\ Cardinality(DOMAIN Rows) \in Nat
    BY PageNumberFacts, MeantRows
  <2>. QED  BY <2>1, RoomIs
<1>4. SortKnown(ask) /\ ids \in SUBSET DOMAIN Rows
  BY MeantRows DEF Told
<1>. HIDE DEF ids, n, rows
<1>5. /\ ToSet(rows) \subseteq ids
      /\ Len(rows) = Least(Cardinality(ids), n)
      /\ \A i, j \in DOMAIN rows : i < j =>
            rows[i] # rows[j] /\ ~Precedes(rows[j], rows[i], SortAsked(ask))
      /\ \A id \in ids \ ToSet(rows) : \A i \in DOMAIN rows : ~Precedes(id, rows[i], SortAsked(ask))
  BY <1>2, <1>3, <1>4, WindowRows
<1>. QED  BY <1>5 DEF FirstPage, ids, n, rows

-----------------------------------------------------------------------------
(* Pages.                                                                  *)

\* Turnable, and every page the server cuts is a page as the client counts.
Turns(style, ask, st) ==
    /\ ask.paging # "none" /\ Many(ask) /\ SortsByKey(ask)
    /\ PageSize(ask, st) <= OrElse(st.svc.maxLimit, DefaultMaxLimit)
    /\ style = "page" \/ (style = "offset" /\ PageSize(ask, st) = ask.size)

\* rows are the first k pages, in every order the database may choose.
Pages(rows, lane, ask, st, k) ==
    \A s \in Orderings(Meant(lane, ask, st), SortAsked(ask)) :
        rows = Window(s, 0, k * PageSize(ask, st))

LEMMA NoPages ==
    ASSUME NEW lane, NEW ask, NEW st, PageSize(ask, st) \in Nat
    PROVE  Pages(<<>>, lane, ask, st, 0)
<1>. SUFFICES ASSUME NEW s \in Orderings(Meant(lane, ask, st), SortAsked(ask))
              PROVE  <<>> = Window(s, 0, 0 * PageSize(ask, st))
  BY DEF Pages
<1>1. s \in Seq(DOMAIN Rows)
  <2>. DEFINE ids == Meant(lane, ask, st)
              sort == SortAsked(ask)
  <2>1. ids \in SUBSET DOMAIN Rows /\ s \in Orderings(ids, sort)
    BY MeantRows
  <2>. HIDE DEF ids, sort
  <2>2. s \in Seq(ids)
    BY <2>1, OrderingType
  <2>. QED  BY <2>1, <2>2
<1>2. 0 * PageSize(ask, st) = 0
  OBVIOUS
<1>. DEFINE w == Window(s, 0, 0)
<1>3. w \in Seq(DOMAIN Rows) /\ Len(w) = IF 0 >= Len(s) THEN 0 ELSE Least(0, Len(s) - 0)
  BY <1>1, WindowIs
<1>. HIDE DEF w
<1>4. Len(w) = 0
  BY <1>1, <1>3 DEF Least
<1>5. w = <<>>
  BY <1>3, <1>4
<1>. QED  BY <1>2, <1>5 DEF w

\* One page more.
LEMMA NextPage ==
    ASSUME PlainSettings, NEW st \in Setting, NEW ask, OneSort(ask), NEW t, Sized(ask, t),
           NEW lane \in {"nestjsx", "postgrest"}, NEW style, Turns(style, ask, st),
           NEW a, Told(lane, style, ask, st, t, a), NEW rows, Pages(rows, lane, ask, st, t)
    PROVE  Pages(rows \o a.rows, lane, ask, st, t + 1)
<1>. DEFINE ids == Meant(lane, ask, st)
            sort == SortAsked(ask)
            n == PageSize(ask, st)
<1>1. /\ n \in Nat \ {0} /\ t \in Nat /\ t * n \in Nat
      /\ ask.size \in Nat /\ ask.paging # "none" /\ ~ask.one
  BY PageNumberFacts DEF Turns, Sized, Many
<1>2. Start(style, ask, st, t) = t * n
  BY DEF Start, Turns
<1>3. Room(lane, ask, st) = n
  <2>1. Room("postgrest", ask, st) = Least(n, OrElse(st.svc.maxLimit, DefaultMaxLimit))
    BY <1>1, PageNumberFacts DEF Sized
  <2>2. n <= OrElse(st.svc.maxLimit, DefaultMaxLimit) /\ OrElse(st.svc.maxLimit, DefaultMaxLimit) \in Nat
    BY SettingNumbers DEF Turns, Caps
  <2>3. Room("postgrest", ask, st) = n
    <3>. HIDE DEF n
    <3>. QED  BY <1>1, <2>1, <2>2 DEF Least
  <2>4. ask.size # Null
    BY DEF Sized, Turns
  <2>. QED  BY <2>3, <2>4, RoomIs
<1>4. PICK w \in Orderings(ids, sort) : a.rows = Window(w, t * n, n)
  BY <1>2, <1>3 DEF Told
<1>5. SortKnown(ask) /\ SortsByKey(ask) /\ ids \in SUBSET DOMAIN Rows
  BY MeantRows DEF Told, Turns
<1>6. rows = Window(w, 0, t * n)
  BY <1>4 DEF Pages
<1>7. w \in Seq(ids)
  BY <1>4, <1>5, OrderingIs
<1>. HIDE DEF ids, n
<1>8. rows \o a.rows = Window(w, 0, t * n + n)
  <2>. DEFINE m == t * n
  <2>1. m \in Nat /\ n \in Nat
    BY <1>1
  <2>. HIDE DEF m
  <2>2. Window(w, 0, m) \o Window(w, m, n) = Window(w, 0, m + n)
    BY <1>7, <2>1, WindowsJoin
  <2>. QED  BY <1>4, <1>6, <2>2 DEF m
<1>9. t * n + n = (t + 1) * n
  BY <1>1
<1>10. \A s \in Orderings(ids, sort) : s = w
  BY <1>4, <1>5, OneOrdering
<1>. HIDE DEF sort
<1>11. \A s \in Orderings(ids, sort) : rows \o a.rows = Window(s, 0, (t + 1) * n)
  BY <1>8, <1>9, <1>10
<1>. QED  BY <1>11 DEF Pages, ids, n, sort

\* What PagesPartition says of the first k pages.
LEMMA PagesArePartition ==
    ASSUME PlainSettings, NEW st \in Setting, NEW ask, OneSort(ask), NEW k \in Nat,
           NEW lane, NEW style, NEW t, Sized(ask, t), Turns(style, ask, st),
           NEW a, Told(lane, style, ask, st, t, a), NEW rows, Pages(rows, lane, ask, st, k)
    PROVE  /\ Len(rows) = Least(k * PageSize(ask, st), Cardinality(Meant(lane, ask, st)))
           /\ ToSet(rows) \subseteq Meant(lane, ask, st)
           /\ \A i, j \in DOMAIN rows : i < j => Precedes(rows[i], rows[j], SortAsked(ask))
<1>. DEFINE ids == Meant(lane, ask, st)
            n == PageSize(ask, st)
<1>1. n \in Nat \ {0}
  BY PageNumberFacts DEF Turns, Sized
<1>2. SortKnown(ask) /\ SortsByKey(ask) /\ ids \in SUBSET DOMAIN Rows /\ Cardinality(ids) \in Nat
  BY MeantRows DEF Told, Turns
<1>3. PICK s : s \in Orderings(ids, SortAsked(ask))
  BY DEF Told
<1>4. rows = Window(s, 0, k * n)
  BY <1>3 DEF Pages
<1>. HIDE DEF ids, n
<1>5. k * n \in Nat
  BY <1>1
<1>6. /\ ToSet(rows) \subseteq ids
      /\ Len(rows) = Least(Cardinality(ids), k * n)
      /\ \A i, j \in DOMAIN rows : i < j => Precedes(rows[i], rows[j], SortAsked(ask))
  BY <1>2, <1>3, <1>4, <1>5, WindowRows
<1>7. Least(Cardinality(ids), k * n) = Least(k * n, Cardinality(ids))
  BY <1>2, <1>5 DEF Least
<1>. QED  BY <1>6, <1>7 DEF ids, n

-----------------------------------------------------------------------------
(* The two dialects.                                                       *)

\* Comparable, without the rows that are cut.
Alike(ask, st) ==
    /\ ask.conds = <<>> \/ ask.any = <<>>
    /\ \A i, j \in DOMAIN ask.conds :
          /\ ask.conds[i].field = ask.conds[j].field => i = j
          /\ OnRoot(ask.conds[i])
    /\ st.opts.filter = <<>>

LEMMA SameMeaning ==
    ASSUME NEW ask, NEW st, Programmed(ask), Alike(ask, st)
    PROVE  Meant("nestjsx", ask, st) = Meant("postgrest", ask, st) /\ AllOnRoot(ask)
<1>. DEFINE C == ToSet(ask.conds)
            O == ToSet(ask.any)
<1>1. DOMAIN ask.conds = 1..Len(ask.conds) /\ Len(ask.conds) \in Nat
  BY SeqDomain DEF Programmed, Written
<1>2. Standing(ask.conds) = C
  <2>1. {i \in DOMAIN ask.conds : \A j \in DOMAIN ask.conds :
            ask.conds[j].field = ask.conds[i].field => j <= i} = DOMAIN ask.conds
    BY <1>1 DEF Alike
  <2>2. Standing(ask.conds) = {ask.conds[i] : i \in DOMAIN ask.conds}
    BY <2>1 DEF Standing
  <2>. QED  BY <2>2 DEF ToSet
<1>3. (\A c \in C : OnRoot(c)) /\ (\A c \in O : OnRoot(c))
  BY DEF Alike, Programmed, ToSet
<1>4. Shaping(ask) = {} /\ AllOnRoot(ask)
  BY <1>3 DEF Shaping, AllOnRoot
<1>5. C = {} \/ O = {}
  BY DEF Alike, ToSet
<1>6. ASSUME NEW id, NEW k
      PROVE  NestjsxKeeps(ask, st, id, k) <=> PostgrestKeeps(ask, st, id, k)
  <2>1. ControllerHolds(st, id, k)
    <3>1. ToSet(st.opts.filter) = {}
      BY DEF Alike, ToSet
    <3>. QED  BY <3>1 DEF ControllerHolds
  <2>2. NestjsxKeeps(ask, st, id, k) <=>
          \/ AuthWidens(st, id, k)
          \/ /\ AuthAllows(st, id, k)
             /\ st.auth.or # <<>> => C \cup O # {} \/ st.opts.filter # <<>>
             /\ ControllerHolds(st, id, k)
             /\ \/ C # {} /\ All(id, k, C)
                \/ O # {} /\ (IF C = {} THEN Some(id, k, O) ELSE All(id, k, O))
                \/ C \cup O = {}
    BY <1>2, Zenon DEF NestjsxKeeps
  <2>3. PostgrestKeeps(ask, st, id, k) <=>
          \/ AuthWidens(st, id, k)
          \/ /\ AuthAllows(st, id, k)
             /\ st.auth.or # <<>> => (C \ Shaping(ask)) \cup O # {}
             /\ All(id, k, C \ Shaping(ask))
             /\ O # {} => Some(id, k, O)
    BY Zenon DEF PostgrestKeeps
  <2>4. C \ Shaping(ask) = C
    BY <1>4
  <2>5. C = {} => All(id, k, C)
    BY DEF All
  <2>6. st.opts.filter = <<>>
    BY DEF Alike
  <2>. HIDE DEF C, O
  <2>. QED  BY <1>5, <2>1, <2>2, <2>3, <2>4, <2>5, <2>6
<1>7. Meant("nestjsx", ask, st) = {id \in DOMAIN Rows : \E k \in Keys(id) :
          NestjsxKeeps(ask, st, id, k) /\ HasRequired(ask, st, id, {})}
  BY DEF Meant
<1>8. Meant("postgrest", ask, st) = {id \in DOMAIN Rows : \E k \in Keys(id) :
          PostgrestKeeps(ask, st, id, k) /\ HasRequired(ask, st, id, Shaping(ask))}
  BY DEF Meant
<1>. QED  BY <1>4, <1>6, <1>7, <1>8

LEMMA DialectsTold ==
    ASSUME PlainSettings, NEW st \in Setting, NEW ask, Programmed(ask), OneSort(ask), Many(ask),
           Alike(ask, st), NEW t, Sized(ask, t),
           NEW n, Told("nestjsx", ask.paging, ask, st, t, n),
           NEW p, Told("postgrest", Style("postgrest", ask), ask, st, t, p),
           \/ t = 0 /\ Cardinality(Meant("nestjsx", ask, st)) <= Room("postgrest", ask, st)
           \/ /\ ask.size # Null
              /\ SortsByKey(ask)
              /\ ask.size <= OrElse(st.opts.maxLimit, DefaultMaxLimit)
    PROVE  /\ ToSet(n.rows) = ToSet(p.rows)
           /\ n.columns = p.columns /\ n.joins = p.joins /\ n.related = p.related
<1>. DEFINE ids == Meant("nestjsx", ask, st)
            sort == SortAsked(ask)
            sn == Start(ask.paging, ask, st, t)
            sp == Start(Style("postgrest", ask), ask, st, t)
            rn == Room("nestjsx", ask, st)
            rp == Room("postgrest", ask, st)
<1>1. Meant("postgrest", ask, st) = ids /\ AllOnRoot(ask)
  BY SameMeaning
<1>2. PICK u \in Orderings(ids, sort) : n.rows = Window(u, sn, rn)
  BY DEF Told
<1>3. PICK v \in Orderings(ids, sort) : p.rows = Window(v, sp, rp)
  BY <1>1 DEF Told
<1>4. SortKnown(ask) /\ Shows(n, ask, st) /\ Shows(p, ask, st) /\ ids \in SUBSET DOMAIN Rows
      /\ Cardinality(ids) \in Nat /\ Cardinality(ids) <= Cardinality(DOMAIN Rows)
      /\ Cardinality(DOMAIN Rows) \in Nat
  BY MeantRows DEF Told
<1>5. rp \in Nat
  BY PageNumberFacts
<1>6. rn = rp \/ (ask.size = Null /\ rn = Cardinality(DOMAIN Rows))
  BY RoomIs
<1>7. ToSet(n.rows) = ToSet(p.rows)
  <2>1. CASE t = 0 /\ Cardinality(ids) <= rp
    <3>1. sn = 0 /\ sp = 0
      <4>1. ask.paging # "none" => ask.size \in Nat /\ PageSize(ask, st) \in Nat
        BY PageNumberFacts DEF Sized
      <4>2. t = 0
        BY <2>1
      <4>. QED  BY <4>1, <4>2 DEF Start, Style, Sized
    <3>. HIDE DEF ids, sort, sn, sp, rn, rp
    <3>2. /\ u \in Seq(ids) /\ Len(u) = Cardinality(ids) /\ ToSet(u) = ids
          /\ v \in Seq(ids) /\ Len(v) = Cardinality(ids) /\ ToSet(v) = ids
      BY <1>2, <1>3, <1>4, OrderingIs DEF sort
    <3>3. rn \in Nat /\ Cardinality(ids) <= rn
      BY <1>4, <1>5, <1>6, <2>1
    <3>4. n.rows = u
      BY <1>2, <3>1, <3>2, <3>3, WholeWindow
    <3>5. p.rows = v
      BY <1>3, <1>5, <2>1, <3>1, <3>2, WholeWindow
    <3>. QED  BY <3>2, <3>4, <3>5
  <2>2. CASE /\ ask.size # Null
             /\ SortsByKey(ask)
             /\ ask.size <= OrElse(st.opts.maxLimit, DefaultMaxLimit)
    <3>1. PageSize(ask, st) = ask.size
      <4>1. OrElse(st.opts.maxLimit, DefaultMaxLimit) \in Nat /\ ask.size \in Nat
        BY <2>2, SettingNumbers DEF Caps, Sized
      <4>. QED  BY <2>2, <4>1 DEF PageSize, Least
    <3>2. sn = sp
      BY <3>1 DEF Start, Style, Sized
    <3>3. rn = rp
      BY <1>6, <2>2
    <3>4. u = v
      <4>. HIDE DEF ids
      <4>. QED  BY <1>2, <1>3, <1>4, <2>2, OneOrdering
    <3>. HIDE DEF sn, sp, rn, rp
    <3>. QED  BY <1>2, <1>3, <3>2, <3>3, <3>4
  <2>. QED  BY <2>1, <2>2
<1>. QED  BY <1>1, <1>4, <1>7 DEF Shows

-----------------------------------------------------------------------------
(* From the query to the answer.                                           *)

\* Served without a route id.
LEMMA ServedMany ==
    ASSUME NEW q, NEW dialect, NEW a \in Served(q, dialect, Null),
           NEW parsed, parsed = Intercepted(q, dialect, <<>>, setting.auth, setting.opts)
    PROVE  IF BadRequest(q, dialect) THEN a = Failure(400)
           ELSE a \in GetManyAnswers(parsed, setting.opts, setting.svc,
                                     JoinedPaths(parsed, setting.opts))
<1>1. CASE BadRequest(q, dialect)
  BY <1>1 DEF Served
<1>2. CASE ~BadRequest(q, dialect)
  <2>1. a \in ServedParsed(FALSE, parsed)
    BY <1>2 DEF Served
  <2>. QED  BY <1>2, <2>1 DEF ServedParsed, ServedJoined
<1>. QED  BY <1>1, <1>2

\* What a query asks cannot be put into SQL: a list operator without a list, a
\* column nobody knows.
Unanswerable(parsed, joined) ==
    \/ \E c \in WhereConditions(parsed) \cup OnConditions(parsed, joined) : ~Buildable(c)
    \/ UnknownFields(parsed, joined) # {}

Refused(q, dialect, st) ==
    LET parsed == Intercepted(q, dialect, <<>>, st.auth, st.opts)
    IN BadRequest(q, dialect) \/ Unanswerable(parsed, JoinedPaths(parsed, st.opts))

\* An answer has the fields of an answer.
IsFull(a) ==
    {"status", "rows", "related", "columns", "joins", "envelope", "total", "page", "pageCount"}
        \subseteq DOMAIN a

LEMMA FailureFields ==
    \A status : /\ Failure(status).status = status /\ Failure(status).rows = <<>>
                /\ IsFull(Failure(status))
BY DEF Failure, IsFull

LEMMA SelectedIsFull ==
    ASSUME NEW rows, NEW parsed, NEW opts, NEW joined
    PROVE  /\ IsFull(Selected(rows, parsed, opts, joined))
           /\ \A n, p, k : IsFull(Enveloped(Selected(rows, parsed, opts, joined), n, p, k))
           /\ Succeeds(Selected(rows, parsed, opts, joined))
           /\ \A n, p, k : Succeeds(Enveloped(Selected(rows, parsed, opts, joined), n, p, k))
<1>. DEFINE related == [id \in ToSet(rows) |->
                LET envs == KeptEnvironments(id, parsed, opts, joined)
                IN [p \in joined |-> {env[p] : env \in envs} \ {Null}]]
            columns == RootSelect(parsed)
            joins == [p \in joined |-> JoinColumns(JoinOf(parsed, p), JoinOptions(opts, p))]
            b == Selected(rows, parsed, opts, joined)
<1>1. b = [Failure(200) EXCEPT !.rows = rows, !.related = related, !.columns = columns,
                               !.joins = joins]
  BY Zenon DEF Selected
<1>. HIDE DEF related, columns, joins
<1>2. DOMAIN b = DOMAIN Failure(200) /\ b.status = 200
  BY <1>1 DEF Failure
<1>. HIDE DEF b
<1>3. IsFull(b) /\ Succeeds(b)
  BY <1>2, FailureFields DEF IsFull, Succeeds
<1>4. ASSUME NEW n, NEW p, NEW k
      PROVE  IsFull(Enveloped(b, n, p, k)) /\ Succeeds(Enveloped(b, n, p, k))
  <2>1. DOMAIN Enveloped(b, n, p, k) = DOMAIN b /\ Enveloped(b, n, p, k).status = 200
    BY <1>2, <1>3 DEF Enveloped, IsFull
  <2>. QED  BY <1>3, <2>1 DEF IsFull, Succeeds
<1>. QED  BY <1>3, <1>4 DEF b

LEMMA AnswerShape ==
    ASSUME NEW s, NEW parsed, NEW opts, NEW svc, NEW joined,
           NEW a, a = AnswerWith(s, parsed, opts, svc, joined)
    PROVE  IsFull(a) /\ Succeeds(a)
<1>1. \E rows : \/ a = Selected(rows, parsed, opts, joined)
                \/ \E n, p, k : a = Enveloped(Selected(rows, parsed, opts, joined), n, p, k)
  BY Zenon DEF AnswerWith
<1>. QED  BY <1>1, SelectedIsFull

\* A query is refused for what it asks, never for its page.
LEMMA StatusIs ==
    ASSUME NEW parsed, NEW opts, NEW svc, NEW joined,
           ~(PageLimit(parsed, svc) < 0) /\ ~(PageOffset(parsed, svc) < 0),
           NEW a \in GetManyAnswers(parsed, opts, svc, joined)
    PROVE  IsFull(a) /\ (Succeeds(a) <=> ~Unanswerable(parsed, joined))
<1>. DEFINE failure == QueryFailure(parsed, joined, TRUE, svc)
<1>1. failure = 200 <=> ~Unanswerable(parsed, joined)
  BY DEF QueryFailure, Unanswerable
<1>2. CASE failure # 200
  <2>1. a = Failure(failure)
    BY <1>2 DEF GetManyAnswers
  <2>. HIDE DEF failure
  <2>. QED  BY <1>1, <1>2, <2>1, FailureFields DEF Succeeds
<1>3. CASE failure = 200
  <2>1. \E s \in Orderings(KeptRows(parsed, opts, joined), parsed.sort) :
            a = AnswerWith(s, parsed, opts, svc, joined)
    BY <1>3 DEF GetManyAnswers
  <2>. HIDE DEF failure
  <2>. QED  BY <1>1, <1>3, <2>1, AnswerShape
<1>. QED  BY <1>2, <1>3

LEMMA BadRequestFails ==
    ASSUME NEW a, a = Failure(400)
    PROVE  IsFull(a) /\ ~Succeeds(a)
BY FailureFields DEF Succeeds

LEMMA BuiltDialect ==
    ASSUME NEW p
    PROVE  DetectDialect(BuildQueryParams(p), "") = "nestjsx"
<1>. DEFINE q == BuildQueryParams(p)
<1>1. q.select = <<>> /\ q.order = <<>> /\ q.cols = <<>>
  BY BuiltQuery
<1>. HIDE DEF q
<1>2. <<>> \o <<>> = <<>>
  OBVIOUS
<1>3. ~PostgrestSignal(q)
  BY <1>1, <1>2 DEF PostgrestSignal
<1>4. DetectDialect(q, "") = "nestjsx"
  BY <1>3 DEF DetectDialect
<1>. QED  BY <1>4 DEF q

\* Numbers that no database refuses.
LEMMA StartIsNatural ==
    ASSUME PlainSettings, NEW st \in Setting, NEW ask, NEW t, Sized(ask, t),
           NEW style, style \in {ask.paging, Style("postgrest", ask)}
    PROVE  /\ Start(style, ask, st, t) \in Nat
           /\ Room("postgrest", ask, st) \in Nat
           /\ ~(Start(style, ask, st, t) < 0) /\ ~(Room("postgrest", ask, st) < 0)
<1>1. style \in {"page", "offset"} => ask.paging # "none"
  BY DEF Style
<1>2. Start(style, ask, st, t) \in Nat /\ Room("postgrest", ask, st) \in Nat
  BY <1>1, PageNumberFacts DEF Start
<1>. QED  BY <1>2

\* What findMany and findOne are told, if they are not refused.
LEMMA NestjsxServed ==
    ASSUME PlainSettings, setting \in Setting, NEW ask, Programmed(ask), OneSort(ask),
           NEW t, Sized(ask, t), NEW p, Paramed(p, ask), p.sort = ask.sort,
           Numbered(p, ask.paging, ask, t),
           NEW a \in Served(BuildQueryParams(p), DetectDialect(BuildQueryParams(p), ""), Null)
    PROVE  /\ IsFull(a)
           /\ Succeeds(a) <=> ~Refused(BuildQueryParams(p), "nestjsx", setting)
           /\ Succeeds(a) => Told("nestjsx", ask.paging, ask, setting, t, a)
<1>. DEFINE q == BuildQueryParams(p)
            parsed == Intercepted(q, "nestjsx", <<>>, setting.auth, setting.opts)
            joined == JoinedPaths(parsed, setting.opts)
<1>1. IF BadRequest(q, "nestjsx") THEN a = Failure(400)
      ELSE a \in GetManyAnswers(parsed, setting.opts, setting.svc, joined)
  BY ServedMany, BuiltDialect
<1>2. parsed = ParseNestjsx(q, <<>>, AuthContext(setting.auth), setting.opts)
  BY DEF Intercepted
<1>3. Refused(q, "nestjsx", setting) <=> BadRequest(q, "nestjsx") \/ Unanswerable(parsed, joined)
  BY DEF Refused
<1>4. CASE BadRequest(q, "nestjsx")
  <2>. HIDE DEF q, parsed, joined
  <2>1. a = Failure(400)
    BY <1>1, <1>4
  <2>2. IsFull(a) /\ ~Succeeds(a)
    BY <2>1, BadRequestFails
  <2>. QED  BY <1>3, <1>4, <2>2 DEF q
<1>5. CASE ~BadRequest(q, "nestjsx")
  <2>1. a \in GetManyAnswers(parsed, setting.opts, setting.svc, joined)
    BY <1>1, <1>5
  <2>2. Numbered(q, ask.paging, ask, t)
    BY BuiltQuery DEF Numbered
  <2>. HIDE DEF q
  <2>3. NumbersRead(parsed, ask.paging, ask, setting, t)
    BY <1>2, <2>2, NestjsxNumbers
  <2>. HIDE DEF parsed
  <2>4. ~(PageLimit(parsed, setting.svc) < 0) /\ ~(PageOffset(parsed, setting.svc) < 0)
    BY <2>3, StartIsNatural DEF NumbersRead
  <2>. HIDE DEF joined
  <2>5. IsFull(a) /\ (Succeeds(a) <=> ~Unanswerable(parsed, joined))
    BY <2>1, <2>4, StatusIs
  <2>6. Succeeds(a) => Told("nestjsx", ask.paging, ask, setting, t, a)
    <3>1. joined = JoinedPaths(parsed, setting.opts)
      BY DEF joined
    <3>2. parsed = ParseNestjsx(BuildQueryParams(p), <<>>, AuthContext(setting.auth), setting.opts)
      BY <1>2 DEF q
    <3>. QED  BY <2>1, <3>1, <3>2, NestjsxTold
  <2>. QED  BY <1>3, <1>5, <2>5, <2>6 DEF q
<1>. QED  BY <1>4, <1>5

\* The query of the PostgREST builder has none of the keys of the other dialect.
Built(q) ==
    /\ q.fields = <<>> /\ q.filter = <<>> /\ q.or = <<>> /\ q.s = <<>>
    /\ q.sort = <<>> /\ q.join = <<>> /\ q.andGroup = <<>> /\ q.page = Null

\* A query that asks for no row in particular.
AsksNothing(ask) ==
    /\ ask.conds = <<>> /\ ask.any = <<>> /\ ask.columns = <<>> /\ ask.relations = <<>>
    /\ ask.sort = <<>>

LEMMA EmptyConcat ==
    ASSUME NEW a, NEW b, NEW c, IsSeq(a), IsSeq(b), IsSeq(c), a \o b \o c = <<>>
    PROVE  a = <<>> /\ b = <<>> /\ c = <<>>
<1>1. IsSeq(a \o b) /\ a \o b = <<>>
  <2>1. IsSeq(a \o b)
    BY ConcatIsSeq
  <2>2. ToSet(a \o b \o c) = ToSet(a \o b) \cup ToSet(c)
    BY <2>1, ConcatRange
  <2>3. ToSet(a \o b \o c) = {}
    BY DEF ToSet
  <2>. QED  BY <2>1, <2>2, <2>3, EmptyRange
<1>2. c = <<>>
  <2>1. ToSet(a \o b \o c) = ToSet(a \o b) \cup ToSet(c)
    BY <1>1, ConcatRange
  <2>2. ToSet(a \o b \o c) = {}
    BY DEF ToSet
  <2>. QED  BY <2>1, <2>2, EmptyRange
<1>3. ToSet(a \o b) = ToSet(a) \cup ToSet(b)
  BY ConcatRange
<1>4. ToSet(a \o b) = {}
  BY <1>1 DEF ToSet
<1>. QED  BY <1>2, <1>3, <1>4, EmptyRange

LEMMA NoSignal ==
    ASSUME NEW ask, Programmed(ask), OneSort(ask), NEW q, Built(q), Searched(q, ask),
           Ordered(q, ask), ~PostgrestSignal(q), ~NestjsxRejects(q)
    PROVE  AsksNothing(ask)
<1>1. /\ IsSeq(ask.conds) /\ DOMAIN ask.conds = 1..Len(ask.conds) /\ Len(ask.conds) \in Nat
      /\ IsSeq(ask.any) /\ DOMAIN ask.any = 1..Len(ask.any) /\ Len(ask.any) \in Nat
      /\ IsSeq(ask.columns) /\ IsSeq(ask.relations)
  BY SeqDomain DEF Programmed, Written
<1>2. IsSeq(ask.sort) /\ DOMAIN ask.sort = 1..Len(ask.sort) /\ Len(ask.sort) \in Nat
  <2>1. IsSeq(ask.sort)
    BY EmptyIsSeq, SingleIsSeq DEF OneSort
  <2>. QED  BY <2>1, SeqDomain
<1>3. IsSeq(q.select)
  BY <1>1, EmptyIsSeq, SelectList DEF Searched, SelectOf
<1>4. DOMAIN q.order = DOMAIN ask.sort /\ IsSeq(q.order)
  <2>1. q.order \in [1..Len(ask.sort) -> {q.order[i] : i \in 1..Len(ask.sort)}]
    BY <1>2 DEF Ordered
  <2>. QED  BY <1>2, <2>1, SeqOfDomain
<1>5. DOMAIN q.cols = DOMAIN ask.conds /\ IsSeq(q.cols)
  <2>1. q.cols \in [1..Len(ask.conds) -> {q.cols[i] : i \in 1..Len(ask.conds)}]
    BY <1>1 DEF Searched
  <2>. QED  BY <1>1, <2>1, SeqOfDomain
<1>6. q.select = <<>> /\ q.order = <<>> /\ q.cols = <<>>
  BY <1>3, <1>4, <1>5, EmptyConcat DEF PostgrestSignal
<1>7. ask.conds = <<>> /\ ask.sort = <<>>
  BY <1>1, <1>2, <1>4, <1>5, <1>6, EmptyDomain
<1>8. ask.columns = <<>> /\ ask.relations = <<>>
  BY <1>6 DEF Searched, SelectOf
<1>9. q.orGroup = <<>>
  BY DEF NestjsxRejects
<1>10. DOMAIN q.orGroup = DOMAIN ask.any
  BY DEF Searched
<1>11. ask.any = <<>>
  <2>1. DOMAIN ask.any = {}
    BY <1>9, <1>10
  <2>. QED  BY <1>1, <2>1, EmptyDomain
<1>. QED  BY <1>7, <1>8, <1>11 DEF AsksNothing

\* A query that asks for nothing is read alike in both dialects.
LEMMA ToldAlike ==
    ASSUME NEW st, NEW ask, Programmed(ask), AsksNothing(ask),
           st.opts.filter = <<>>, st.opts.alwaysPaginate \/ OrElse(st.svc.limit, 0) # 0,
           NEW style, style # "page", NEW t, NEW a, Told("nestjsx", style, ask, st, t, a)
    PROVE  Told("postgrest", style, ask, st, t, a)
<1>1. Alike(ask, st)
  BY DEF Alike, AsksNothing
<1>2. Meant("nestjsx", ask, st) = Meant("postgrest", ask, st)
  BY <1>1, SameMeaning
<1>3. Room("nestjsx", ask, st) = Room("postgrest", ask, st)
  BY RoomIs
<1>. QED  BY <1>2, <1>3 DEF Told

SameQuery(q, r) ==
    /\ q.fields = r.fields /\ q.filter = r.filter /\ q.or = r.or /\ q.s = r.s
    /\ q.join = r.join /\ q.sort = r.sort

LEMMA ParsedAlike ==
    ASSUME NEW q, NEW r, SameQuery(q, r), NEW route, NEW auth, NEW opts
    PROVE  /\ ParseNestjsx(q, route, auth, opts).search = ParseNestjsx(r, route, auth, opts).search
           /\ ParseNestjsx(q, route, auth, opts).paramsFilter
                = ParseNestjsx(r, route, auth, opts).paramsFilter
           /\ ParseNestjsx(q, route, auth, opts).join = ParseNestjsx(r, route, auth, opts).join
           /\ ParseNestjsx(q, route, auth, opts).sort = ParseNestjsx(r, route, auth, opts).sort
           /\ q.limit = r.limit /\ q.offset = r.offset /\ q.page = r.page =>
                ParseNestjsx(q, route, auth, opts) = ParseNestjsx(r, route, auth, opts)
<1>1. QuerySearch(q) = QuerySearch(r)
  BY Zenon DEF QuerySearch, SameQuery
<1>2. BuildSearchTree(q, ParseParams(route), auth, opts)
        = BuildSearchTree(r, ParseParams(route), auth, opts)
  BY <1>1, Zenon DEF BuildSearchTree
<1>3. q.join = r.join /\ q.sort = r.sort /\ q.fields = r.fields
  BY DEF SameQuery
<1>4. ASSUME q.limit = r.limit, q.offset = r.offset, q.page = r.page
      PROVE  ParseNestjsx(q, route, auth, opts) = ParseNestjsx(r, route, auth, opts)
  <2>1. ParseLimit(q, opts) = ParseLimit(r, opts)
    BY <1>4, Zenon DEF ParseLimit
  <2>2. ParseOffset(q, opts) = ParseOffset(r, opts)
    BY <1>4, <2>1, Zenon DEF ParseOffset
  <2>. QED  BY <1>2, <1>3, <1>4, <2>1, <2>2, Zenon DEF ParseNestjsx
<1>5. /\ ParseNestjsx(q, route, auth, opts).search = BuildSearchTree(q, ParseParams(route), auth, opts)
      /\ ParseNestjsx(r, route, auth, opts).search = BuildSearchTree(r, ParseParams(route), auth, opts)
      /\ ParseNestjsx(q, route, auth, opts).paramsFilter = ParseParams(route)
      /\ ParseNestjsx(r, route, auth, opts).paramsFilter = ParseParams(route)
      /\ ParseNestjsx(q, route, auth, opts).join = ParseJoins(q.join)
      /\ ParseNestjsx(r, route, auth, opts).join = ParseJoins(r.join)
      /\ ParseNestjsx(q, route, auth, opts).sort = ParseSort(q.sort)
      /\ ParseNestjsx(r, route, auth, opts).sort = ParseSort(r.sort)
  BY DEF ParseNestjsx
<1>. QED  BY <1>2, <1>3, <1>4, <1>5

\* The params object of a query that asks for nothing.
LEMMA NothingParamed ==
    ASSUME NEW ask, Programmed(ask), AsksNothing(ask), NEW q, Built(q),
           NEW p, p = [NoParams EXCEPT !.limit = q.limit, !.offset = q.offset]
    PROVE  /\ Paramed(p, ask) /\ p.sort = ask.sort
           /\ p.limit = q.limit /\ p.offset = q.offset /\ p.page = q.page
           /\ SameQuery(q, BuildQueryParams(p))
<1>1. /\ p.fields = <<>> /\ p.filter = <<>> /\ p.or = <<>> /\ p.join = <<>> /\ p.sort = <<>>
      /\ p.limit = q.limit /\ p.offset = q.offset /\ p.page = Null
  BY DEF NoParams
<1>2. Standing(<<>>) = {} /\ ToSet(<<>>) = {}
  BY DEF Standing, ToSet
<1>3. Written(<<>>)
  BY DEF Programmed, AsksNothing
<1>4. FilterTokens(<<>>) = <<>> /\ JoinTokens(<<>>) = <<>>
  BY DEF FilterTokens, JoinTokens
<1>5. SameQuery(q, BuildQueryParams(p))
  <2>. DEFINE r == BuildQueryParams(p)
  <2>1. FilterTokens(p.filter) = <<>> /\ FilterTokens(p.or) = <<>> /\ JoinTokens(p.join) = <<>>
    BY <1>1, <1>4
  <2>2. /\ r.fields = p.fields /\ r.filter = FilterTokens(p.filter) /\ r.or = FilterTokens(p.or)
        /\ r.join = JoinTokens(p.join) /\ r.sort = p.sort /\ r.s = <<>>
    BY BuiltQuery
  <2>. HIDE DEF r
  <2>. QED  BY <1>1, <2>1, <2>2 DEF SameQuery, Built, r
<1>. QED  BY <1>1, <1>2, <1>3, <1>5 DEF Paramed, AsksNothing, Built

LEMMA GuessedTold ==
    ASSUME PlainSettings, NEW st \in Setting, ~st.pinned, NEW ask, Programmed(ask), OneSort(ask),
           AsksNothing(ask), NEW t, Sized(ask, t), NEW q, Built(q),
           Numbered(q, Style("postgrest", ask), ask, t),
           NEW parsed, parsed = ParseNestjsx(q, <<>>, AuthContext(st.auth), st.opts),
           NEW joined, joined = JoinedPaths(parsed, st.opts),
           NEW a \in GetManyAnswers(parsed, st.opts, st.svc, joined), Succeeds(a)
    PROVE  Told("postgrest", Style("postgrest", ask), ask, st, t, a)
<1>1. PICK p : p = [NoParams EXCEPT !.limit = q.limit, !.offset = q.offset]
  OBVIOUS
<1>2. /\ Paramed(p, ask) /\ p.sort = ask.sort
      /\ p.limit = q.limit /\ p.offset = q.offset /\ p.page = q.page
      /\ SameQuery(q, BuildQueryParams(p))
  BY <1>1, NothingParamed
<1>3. Numbered(p, Style("postgrest", ask), ask, t)
  BY <1>2 DEF Numbered
<1>4. parsed = ParseNestjsx(BuildQueryParams(p), <<>>, AuthContext(st.auth), st.opts)
  <2>1. /\ q.limit = BuildQueryParams(p).limit /\ q.offset = BuildQueryParams(p).offset
        /\ q.page = BuildQueryParams(p).page
    BY <1>2, BuiltQuery
  <2>. QED  BY <1>2, <2>1, ParsedAlike
<1>5. Told("nestjsx", Style("postgrest", ask), ask, st, t, a)
  BY <1>2, <1>3, <1>4, NestjsxTold
<1>6. Style("postgrest", ask) # "page"
  BY DEF Style
<1>7. st.opts.filter = <<>> /\ (st.opts.alwaysPaginate \/ OrElse(st.svc.limit, 0) # 0)
  BY DEF PlainSettings
<1>. QED  BY <1>5, <1>6, <1>7, ToldAlike

\* The dialect the server reads a PostgREST query in.
Guessed(q, pinned) == DetectDialect(q, IF pinned THEN "postgrest" ELSE "")

LEMMA GuessedIs ==
    ASSUME NEW q, NEW pinned
    PROVE  /\ Guessed(q, pinned) \in {"postgrest", "nestjsx", "ambiguous"}
           /\ Guessed(q, pinned) = "nestjsx" => ~pinned /\ ~PostgrestSignal(q)
           /\ \A r : r.select = q.select /\ r.order = q.order /\ r.cols = q.cols
                     /\ r.orGroup = q.orGroup /\ SameQuery(r, q)
                        => Guessed(r, pinned) = Guessed(q, pinned)
<1>1. CASE pinned
  <2>1. \A r : Guessed(r, pinned) = "postgrest"
    BY <1>1 DEF Guessed, DetectDialect
  <2>. QED  BY <2>1
<1>2. CASE ~pinned
  <2>1. \A r : Guessed(r, pinned) = IF NestjsxSignal(r) /\ PostgrestSignal(r) THEN "ambiguous"
                                    ELSE IF PostgrestSignal(r) THEN "postgrest" ELSE "nestjsx"
    BY <1>2 DEF Guessed, DetectDialect
  <2>2. ASSUME NEW r, r.select = q.select, r.order = q.order, r.cols = q.cols,
               r.orGroup = q.orGroup, SameQuery(r, q)
        PROVE  (NestjsxSignal(r) <=> NestjsxSignal(q)) /\ (PostgrestSignal(r) <=> PostgrestSignal(q))
    BY <2>2 DEF NestjsxSignal, PostgrestSignal, SameQuery
  <2>. QED  BY <1>2, <2>1, <2>2
<1>. QED  BY <1>1, <1>2

\* What awaiting the PostgREST builder is told, if it is not refused.
LEMMA PostgrestServed ==
    ASSUME PlainSettings, setting \in Setting, NEW ask, Programmed(ask), OneSort(ask), Many(ask),
           NEW t, Sized(ask, t), NEW q, Built(q), Searched(q, ask), Ordered(q, ask),
           Numbered(q, Style("postgrest", ask), ask, t),
           NEW dialect, dialect = Guessed(q, setting.pinned),
           NEW a \in Served(q, dialect, Null)
    PROVE  /\ IsFull(a)
           /\ Succeeds(a) <=> ~Refused(q, dialect, setting)
           /\ Succeeds(a) => Told("postgrest", Style("postgrest", ask), ask, setting, t, a)
<1>. DEFINE parsed == Intercepted(q, dialect, <<>>, setting.auth, setting.opts)
            joined == JoinedPaths(parsed, setting.opts)
<1>1. IF BadRequest(q, dialect) THEN a = Failure(400)
      ELSE a \in GetManyAnswers(parsed, setting.opts, setting.svc, joined)
  BY ServedMany
<1>2. Refused(q, dialect, setting) <=> BadRequest(q, dialect) \/ Unanswerable(parsed, joined)
  BY DEF Refused
<1>3. CASE BadRequest(q, dialect)
  <2>. HIDE DEF parsed, joined
  <2>1. a = Failure(400)
    BY <1>1, <1>3
  <2>2. IsFull(a) /\ ~Succeeds(a)
    BY <2>1, BadRequestFails
  <2>. QED  BY <1>2, <1>3, <2>2
<1>4. CASE ~BadRequest(q, dialect)
  <2>1. dialect # "ambiguous"
    BY <1>4 DEF BadRequest
  <2>2. a \in GetManyAnswers(parsed, setting.opts, setting.svc, joined)
    BY <1>1, <1>4
  <2>3. CASE dialect = "postgrest"
    <3>1. parsed = ParsePostgrest(q, <<>>, AuthContext(setting.auth), setting.opts)
      BY <2>3 DEF Intercepted
    <3>2. joined = JoinedPaths(parsed, setting.opts)
      OBVIOUS
    <3>. HIDE DEF parsed, joined
    <3>3. /\ PageLimit(parsed, setting.svc) = Room("postgrest", ask, setting)
          /\ PageOffset(parsed, setting.svc) = Start(Style("postgrest", ask), ask, setting, t)
      BY <3>1, PostgrestNumbers
    <3>4. ~(PageLimit(parsed, setting.svc) < 0) /\ ~(PageOffset(parsed, setting.svc) < 0)
      BY <3>3, StartIsNatural
    <3>5. IsFull(a) /\ (Succeeds(a) <=> ~Unanswerable(parsed, joined))
      BY <2>2, <3>4, StatusIs
    <3>6. Succeeds(a) => Told("postgrest", Style("postgrest", ask), ask, setting, t, a)
      BY <2>2, <3>1, <3>2, PostgrestTold
    <3>. QED  BY <1>2, <1>4, <3>5, <3>6
  <2>4. CASE dialect = "nestjsx"
    <3>1. parsed = ParseNestjsx(q, <<>>, AuthContext(setting.auth), setting.opts)
      BY <2>4 DEF Intercepted
    <3>2. joined = JoinedPaths(parsed, setting.opts)
      OBVIOUS
    <3>. HIDE DEF parsed, joined
    <3>3. ~setting.pinned /\ ~PostgrestSignal(q) /\ ~NestjsxRejects(q)
      BY <1>4, <2>4, GuessedIs DEF BadRequest
    <3>4. AsksNothing(ask)
      BY <3>3, NoSignal
    <3>5. NumbersRead(parsed, Style("postgrest", ask), ask, setting, t)
      BY <3>1, NestjsxNumbers
    <3>6. ~(PageLimit(parsed, setting.svc) < 0) /\ ~(PageOffset(parsed, setting.svc) < 0)
      BY <3>5, StartIsNatural DEF NumbersRead
    <3>7. IsFull(a) /\ (Succeeds(a) <=> ~Unanswerable(parsed, joined))
      BY <2>2, <3>6, StatusIs
    <3>8. Succeeds(a) => Told("postgrest", Style("postgrest", ask), ask, setting, t, a)
      BY <2>2, <3>1, <3>2, <3>3, <3>4, GuessedTold
    <3>. QED  BY <1>2, <1>4, <3>7, <3>8
  <2>. QED  BY <2>1, <2>3, <2>4, GuessedIs
<1>. QED  BY <1>3, <1>4

\* single() and maybeSingle() hand on an answer or refuse it.
LEMMA SingleIs ==
    ASSUME NEW mode, NEW a, IsFull(a), NEW b, b = SingleResult(mode, a), Succeeds(b)
    PROVE  b = a
<1>1. b = a \/ b = [a EXCEPT !.status = 406, !.rows = <<>>]
  BY DEF SingleResult
<1>2. ASSUME b = [a EXCEPT !.status = 406, !.rows = <<>>] PROVE FALSE
  <2>1. b.status = 406
    BY <1>2 DEF IsFull
  <2>. QED  BY <2>1 DEF Succeeds
<1>. QED  BY <1>1, <1>2

\* findOne takes the first row of at most one.
LEMMA FirstTold ==
    ASSUME PlainSettings, NEW st \in Setting, NEW ask, OneSort(ask), ask.one, Sized(ask, 0),
           NEW style \in {"none", "page", "offset"}, style # "none" => ask.paging # "none",
           NEW a, IsFull(a), Told("nestjsx", style, ask, st, 0, a),
           NEW b, b = [a EXCEPT !.rows = SubSeq(@, 1, Least(1, Len(@)))]
    PROVE  Told("nestjsx", style, ask, st, 0, b)
<1>. DEFINE ids == Meant("nestjsx", ask, st)
            sort == SortAsked(ask)
            room == Room("nestjsx", ask, st)
<1>1. PICK s \in Orderings(ids, sort) : a.rows = Window(s, Start(style, ask, st, 0), room)
  BY DEF Told
<1>2. room = 1
  BY RoomIs, PageNumberFacts
<1>3. Start(style, ask, st, 0) = 0
  <2>1. style # "none" => ask.size \in Nat /\ PageSize(ask, st) \in Nat
    BY PageNumberFacts DEF Sized
  <2>. QED  BY <2>1 DEF Start
<1>4. a.rows = Window(s, 0, 1)
  BY <1>1, <1>2, <1>3
<1>5. s \in Seq(ids)
  <2>1. SortKnown(ask) /\ ids \in SUBSET DOMAIN Rows
    BY MeantRows DEF Told
  <2>. HIDE DEF ids
  <2>. QED  BY <1>1, <2>1, OrderingIs
<1>. HIDE DEF ids, sort, room
<1>6. a.rows \in Seq(ids) /\ Len(a.rows) <= 1 /\ Len(a.rows) \in Nat
  <2>. DEFINE w == Window(s, 0, 1)
  <2>1. w \in Seq(ids) /\ Len(w) = IF 0 >= Len(s) THEN 0 ELSE Least(1, Len(s) - 0)
    BY <1>5, WindowIs
  <2>. HIDE DEF w
  <2>2. Len(w) <= 1 /\ Len(w) \in Nat
    BY <1>5, <2>1 DEF Least
  <2>. QED  BY <1>4, <2>1, <2>2 DEF w
<1>7. SubSeq(a.rows, 1, Least(1, Len(a.rows))) = a.rows
  <2>1. Least(1, Len(a.rows)) = Len(a.rows)
    BY <1>6 DEF Least
  <2>. QED  BY <1>6, <2>1
<1>8. /\ b.rows = a.rows /\ b.columns = a.columns /\ b.joins = a.joins /\ b.related = a.related
  BY <1>7 DEF IsFull
<1>9. Shows(b, ask, st)
  BY <1>8, ShownAlike DEF Told
<1>. QED  BY <1>8, <1>9 DEF Told

\* A query for another page is refused for the same reasons.
LEMMA UnanswerableAlike ==
    ASSUME NEW a, NEW b, a.search = b.search, a.paramsFilter = b.paramsFilter,
           a.join = b.join, a.sort = b.sort
    PROVE  /\ \A opts : JoinedPaths(a, opts) = JoinedPaths(b, opts)
           /\ \A joined : Unanswerable(a, joined) <=> Unanswerable(b, joined)
<1>1. \A p : JoinOf(a, p) = JoinOf(b, p)
  BY Zenon DEF JoinOf
<1>2. \A joined : OnConditions(a, joined) = OnConditions(b, joined)
  BY <1>1 DEF OnConditions
<1>3. WhereConditions(a) = WhereConditions(b)
  BY DEF WhereConditions
<1>4. \A joined : UnknownFields(a, joined) = UnknownFields(b, joined)
  BY <1>2, <1>3 DEF UnknownFields
<1>5. \A opts : WantedJoins(a, opts) = WantedJoins(b, opts)
  BY DEF WantedJoins
<1>6. \A opts : JoinedPaths(a, opts) = JoinedPaths(b, opts)
  BY <1>5 DEF JoinedPaths
<1>. QED  BY <1>2, <1>3, <1>4, <1>6 DEF Unanswerable

LEMMA RefusedAlike ==
    ASSUME NEW q, NEW r, SameQuery(q, r), q.select = r.select, q.order = r.order,
           q.cols = r.cols, q.orGroup = r.orGroup, q.andGroup = r.andGroup,
           NEW dialect \in {"nestjsx", "postgrest", "ambiguous"},
           dialect = "nestjsx" \/ q.page = r.page, NEW st
    PROVE  Refused(q, dialect, st) <=> Refused(r, dialect, st)
<1>. DEFINE a == Intercepted(q, dialect, <<>>, st.auth, st.opts)
            b == Intercepted(r, dialect, <<>>, st.auth, st.opts)
<1>1. BadRequest(q, dialect) <=> BadRequest(r, dialect)
  <2>1. NestjsxRejects(q) <=> NestjsxRejects(r)
    BY DEF NestjsxRejects, SameQuery
  <2>2. dialect # "nestjsx" => (PostgrestRejects(q) <=> PostgrestRejects(r))
    BY DEF PostgrestRejects, SameQuery
  <2>. QED  BY <2>1, <2>2 DEF BadRequest
<1>2. a.search = b.search /\ a.paramsFilter = b.paramsFilter /\ a.join = b.join /\ a.sort = b.sort
  <2>1. CASE dialect = "postgrest"
    <3>1. a = ParsePostgrest(q, <<>>, AuthContext(st.auth), st.opts)
          /\ b = ParsePostgrest(r, <<>>, AuthContext(st.auth), st.opts)
      BY <2>1 DEF Intercepted
    <3>2. \A x : x = ParsePostgrest(q, <<>>, AuthContext(st.auth), st.opts) =>
            /\ x.search = WithAuth(FieldNodes(RootFilters(ParseColumnFilters(q.cols), ParseEmbeds(q.select)))
                   \o ParseLogical(q.orGroup, "$or") \o ParseLogical(q.andGroup, "$and"),
                   AuthContext(st.auth))
            /\ x.paramsFilter = ParseParams(<<>>)
            /\ x.join = JoinsWithOn(ParseColumnFilters(q.cols), ParseEmbeds(q.select))
            /\ x.sort = ParseOrder(q.order)
      BY DEF ParsePostgrest
    <3>3. \A x : x = ParsePostgrest(r, <<>>, AuthContext(st.auth), st.opts) =>
            /\ x.search = WithAuth(FieldNodes(RootFilters(ParseColumnFilters(r.cols), ParseEmbeds(r.select)))
                   \o ParseLogical(r.orGroup, "$or") \o ParseLogical(r.andGroup, "$and"),
                   AuthContext(st.auth))
            /\ x.paramsFilter = ParseParams(<<>>)
            /\ x.join = JoinsWithOn(ParseColumnFilters(r.cols), ParseEmbeds(r.select))
            /\ x.sort = ParseOrder(r.order)
      BY DEF ParsePostgrest
    <3>. HIDE DEF a, b
    <3>. QED  BY <3>1, <3>2, <3>3
  <2>2. CASE dialect # "postgrest"
    <3>1. a = ParseNestjsx(q, <<>>, AuthContext(st.auth), st.opts)
          /\ b = ParseNestjsx(r, <<>>, AuthContext(st.auth), st.opts)
      BY <2>2 DEF Intercepted
    <3>. HIDE DEF a, b
    <3>. QED  BY <3>1, ParsedAlike
  <2>. QED  BY <2>1, <2>2
<1>3. /\ Refused(q, dialect, st) <=>
            BadRequest(q, dialect) \/ Unanswerable(a, JoinedPaths(a, st.opts))
      /\ Refused(r, dialect, st) <=>
            BadRequest(r, dialect) \/ Unanswerable(b, JoinedPaths(b, st.opts))
  BY DEF Refused
<1>. HIDE DEF a, b
<1>. QED  BY <1>1, <1>2, <1>3, UnanswerableAlike

-----------------------------------------------------------------------------
(* The program's calls.                                                    *)

LEMMA AppendFacts ==
    ASSUME NEW s, IsSeq(s), NEW x, NEW u, u = Append(s, x)
    PROVE  /\ IsSeq(u) /\ DOMAIN u = 1..(Len(s) + 1) /\ Len(s) \in Nat /\ DOMAIN s = 1..Len(s)
           /\ \A i \in 1..Len(s) : u[i] = s[i]
           /\ u[Len(s) + 1] = x
           /\ ToSet(u) = ToSet(s) \cup {x}
<1>1. s \in Seq(ToSet(s)) /\ Len(s) \in Nat /\ DOMAIN s = 1..Len(s)
  BY SeqDomain
<1>. DEFINE S == ToSet(s) \cup {x}
<1>2. s \in Seq(S) /\ x \in S
  BY <1>1
<1>. HIDE DEF S
<1>3. /\ u \in Seq(S) /\ Len(u) = Len(s) + 1 /\ DOMAIN u = 1..(Len(s) + 1)
      /\ \A i \in 1..Len(s) : u[i] = s[i]
      /\ u[Len(s) + 1] = x
  BY <1>1, <1>2
<1>4. IsSeq(u)
  BY <1>3 DEF IsSeq
<1>5. \A i \in 1..(Len(s) + 1) : i \in 1..Len(s) \/ i = Len(s) + 1
  BY <1>1
<1>6. \A i \in 1..Len(s) : i \in 1..(Len(s) + 1)
  BY <1>1
<1>7. Len(s) + 1 \in 1..(Len(s) + 1)
  BY <1>1
<1>8. \A y : y \in ToSet(u) <=> y \in ToSet(s) \cup {x}
  BY <1>1, <1>3, <1>5, <1>6, <1>7 DEF ToSet
<1>. QED  BY <1>1, <1>3, <1>4, <1>8

LEMMA WrittenAppend ==
    ASSUME NEW conds, Written(conds), NEW c, Writable(c)
    PROVE  Written(Append(conds, c))
<1>. DEFINE u == Append(conds, c)
<1>0. IsSeq(conds) /\ \A i \in DOMAIN conds : Writable(conds[i])
  BY DEF Written
<1>1. /\ DOMAIN u = 1..(Len(conds) + 1) /\ Len(conds) \in Nat
      /\ DOMAIN conds = 1..Len(conds)
      /\ \A i \in 1..Len(conds) : u[i] = conds[i]
      /\ u[Len(conds) + 1] = c
  BY <1>0, AppendFacts
<1>3. IsSeq(u)
  BY <1>0, AppendFacts
<1>2. \A i \in 1..(Len(conds) + 1) : i \in 1..Len(conds) \/ i = Len(conds) + 1
  BY <1>1
<1>. HIDE DEF u
<1>4. Written(u)
  BY <1>0, <1>1, <1>2, <1>3 DEF Written
<1>. QED  BY <1>4 DEF u

\* A params object holds the last condition of every field.
LEMMA Merged ==
    ASSUME NEW s, IsSeq(s), NEW c, NEW u, u = MergeField(s, c)
    PROVE  /\ IsSeq(u)
           /\ ToSet(u) = {d \in ToSet(s) : d.field # c.field} \cup {c}
           /\ Written(s) /\ Writable(c) => Written(u)
<1>. DEFINE same == {i \in DOMAIN s : s[i].field = c.field}
<1>1. Len(s) \in Nat /\ DOMAIN s = 1..Len(s)
  BY SeqDomain
<1>2. CASE same = {}
  <2>1. u = Append(s, c)
    BY <1>2 DEF MergeField
  <2>2. IsSeq(u) /\ ToSet(u) = ToSet(s) \cup {c}
    BY <2>1, AppendFacts
  <2>3. \A d \in ToSet(s) : d.field # c.field
    BY <1>2 DEF ToSet
  <2>. QED  BY <2>1, <2>2, <2>3, WrittenAppend
<1>3. CASE same # {}
  <2>1. u = [i \in DOMAIN s |-> IF i \in same THEN c ELSE s[i]]
    BY <1>3 DEF MergeField
  <2>2. PICK k \in DOMAIN s : s[k].field = c.field
    BY <1>3
  <2>3. \A i \in DOMAIN s : u[i] = IF s[i].field = c.field THEN c ELSE s[i]
    BY <2>1
  <2>4. DOMAIN u = DOMAIN s
    BY <2>1
  <2>. HIDE DEF same
  <2>5. IsSeq(u)
    <3>1. u \in [1..Len(s) -> ToSet(u)]
      BY <1>1, <2>1, <2>4 DEF ToSet
    <3>. QED  BY <1>1, <3>1, SeqOfDomain
  <2>6. \A y : y \in ToSet(u) <=> y \in {d \in ToSet(s) : d.field # c.field} \cup {c}
    BY <2>2, <2>3, <2>4 DEF ToSet
  <2>7. Written(s) /\ Writable(c) => Written(u)
    BY <2>3, <2>4, <2>5 DEF Written
  <2>. QED  BY <2>5, <2>6, <2>7
<1>. QED  BY <1>2, <1>3

LEMMA StandingAppend ==
    ASSUME NEW conds, IsSeq(conds), NEW c
    PROVE  Standing(Append(conds, c)) = {d \in Standing(conds) : d.field # c.field} \cup {c}
<1>. DEFINE u == Append(conds, c)
            n == Len(conds)
<1>1. /\ DOMAIN u = 1..(n + 1) /\ n \in Nat /\ DOMAIN conds = 1..n
      /\ \A i \in 1..n : u[i] = conds[i]
      /\ u[n + 1] = c
  BY AppendFacts
<1>. HIDE DEF u, n
<1>2. \A d : d \in Standing(u) <=> \E i \in 1..(n + 1) :
          d = u[i] /\ \A j \in 1..(n + 1) : u[j].field = u[i].field => j <= i
  BY <1>1 DEF Standing
<1>3. \A d : d \in Standing(conds) <=> \E i \in 1..n :
          d = conds[i] /\ \A j \in 1..n : conds[j].field = conds[i].field => j <= i
  BY <1>1 DEF Standing
<1>4. ASSUME NEW d \in Standing(u)
      PROVE  d \in {x \in Standing(conds) : x.field # c.field} \cup {c}
  <2>1. PICK i \in 1..(n + 1) : d = u[i] /\ \A j \in 1..(n + 1) : u[j].field = u[i].field => j <= i
    BY <1>2, <1>4
  <2>2. CASE i = n + 1
    BY <1>1, <2>1, <2>2
  <2>3. CASE i \in 1..n
    <3>1. d.field # c.field
      BY <1>1, <2>1, <2>3
    <3>2. \A j \in 1..n : conds[j].field = conds[i].field => j <= i
      BY <1>1, <2>1, <2>3
    <3>3. d = conds[i]
      BY <1>1, <2>1, <2>3
    <3>. QED  BY <1>3, <2>3, <3>1, <3>2, <3>3
  <2>4. i = n + 1 \/ i \in 1..n
    BY <1>1
  <2>. QED  BY <2>2, <2>3, <2>4
<1>5. c \in Standing(u)
  <2>1. n + 1 \in 1..(n + 1) /\ \A j \in 1..(n + 1) : j <= n + 1
    BY <1>1
  <2>. QED  BY <1>1, <1>2, <2>1
<1>6. ASSUME NEW d \in Standing(conds), d.field # c.field
      PROVE  d \in Standing(u)
  <2>1. PICK i \in 1..n : d = conds[i] /\ \A j \in 1..n : conds[j].field = conds[i].field => j <= i
    BY <1>3, <1>6
  <2>2. i \in 1..(n + 1) /\ d = u[i]
    BY <1>1, <2>1
  <2>3. ASSUME NEW j \in 1..(n + 1), u[j].field = u[i].field
        PROVE  j <= i
    <3>1. j # n + 1
      BY <1>1, <1>6, <2>2, <2>3
    <3>2. j \in 1..n
      BY <1>1, <3>1
    <3>. QED  BY <1>1, <2>1, <2>2, <2>3, <3>2
  <2>. QED  BY <1>2, <2>2, <2>3
<1>. QED  BY <1>4, <1>5, <1>6 DEF u

LEMMA FilterAppended ==
    ASSUME NEW conds, IsSeq(conds), NEW c, NEW cols,
           cols = [i \in DOMAIN conds |-> ClientFilter(conds[i])]
    PROVE  Append(cols, ClientFilter(c))
             = [i \in DOMAIN Append(conds, c) |-> ClientFilter(Append(conds, c)[i])]
<1>. DEFINE u == Append(conds, c)
            n == Len(conds)
            f == ClientFilter(c)
            w == Append(cols, f)
<1>1. /\ DOMAIN u = 1..(n + 1) /\ n \in Nat /\ DOMAIN conds = 1..n
      /\ \A i \in 1..n : u[i] = conds[i]
      /\ u[n + 1] = c
  BY AppendFacts
<1>2. IsSeq(cols) /\ Len(cols) = n
  <2>1. DOMAIN cols = 1..n
    BY <1>1
  <2>. HIDE DEF n
  <2>2. cols \in [1..n -> ToSet(cols)]
    BY <1>1, <2>1 DEF ToSet
  <2>3. IsSeq(cols)
    BY <1>1, <2>2, SeqOfDomain
  <2>4. cols \in Seq(ToSet(cols))
    BY <2>3, SeqDomain
  <2>. QED  BY <1>1, <2>1, <2>3, <2>4
<1>. HIDE DEF f
<1>3. /\ IsSeq(w) /\ DOMAIN w = 1..(n + 1) /\ \A i \in 1..n : w[i] = cols[i]
      /\ w[n + 1] = f
  <2>1. IsSeq(w)
    BY <1>2, AppendFacts
  <2>2. /\ DOMAIN w = 1..(Len(cols) + 1) /\ \A i \in 1..Len(cols) : w[i] = cols[i]
        /\ w[Len(cols) + 1] = f
    BY <1>2, AppendFacts
  <2>. HIDE DEF w, n
  <2>. QED  BY <1>2, <2>1, <2>2
<1>. HIDE DEF u, n, w
<1>4. \A i \in 1..(n + 1) : i \in 1..n \/ i = n + 1
  BY <1>1
<1>5. \A i \in 1..(n + 1) : w[i] = ClientFilter(u[i])
  BY <1>1, <1>3, <1>4 DEF f
<1>6. w = [i \in 1..(n + 1) |-> w[i]]
  <2>1. w \in Seq(ToSet(w))
    BY <1>3, SeqDomain
  <2>. QED  BY <1>3, <2>1
<1>7. w = [i \in DOMAIN u |-> ClientFilter(u[i])]
  BY <1>1, <1>5, <1>6
<1>. QED  BY <1>7 DEF w, u, f

LEMMA SelectItemsAlike ==
    ASSUME NEW a, NEW b, a.columns = b.columns, a.relations = b.relations
    PROVE  SelectItems(a) = SelectItems(b)
BY Zenon DEF SelectItems

LEMMA SomethingSelected ==
    ASSUME NEW ask, IsSeq(ask.columns), IsSeq(ask.relations)
    PROVE  SelectItems(ask) # <<>>
<1>1. ToSet(SelectItems(ask)) # {}
  <2>1. ask.columns # <<>> => ToSet(ask.columns) # {}
    BY EmptyRange
  <2>2. ToSet(SelectItems(ask)) =
           (IF ask.columns = <<>> THEN {Column("*")} ELSE {Column(c) : c \in ToSet(ask.columns)})
           \cup {Embed(p, FALSE, <<>>) : p \in ToSet(ask.relations)}
    BY SelectList
  <2>. QED  BY <2>1, <2>2
<1>. QED  BY <1>1 DEF ToSet

-----------------------------------------------------------------------------
(* What a program has asked for is what its builders hold.                 *)

AskKeys == {"conds", "any", "columns", "relations", "sort", "size", "paging", "one"}

ParamKeys == {"fields", "filter", "or", "join", "sort", "limit", "offset", "page"}

SearchKeys ==
    {"fields", "filter", "or", "s", "sort", "join", "select", "order", "cols", "orGroup",
     "andGroup", "limit", "offset", "page"}

KeysInv ==
    AskKeys \subseteq DOMAIN asked /\ ParamKeys \subseteq DOMAIN params
        /\ SearchKeys \subseteq DOMAIN search

AskingInv == Programmed(asked) /\ OneSort(asked) /\ Sized(asked, turns) /\ asked.one \in BOOLEAN

ParamedInv == Paramed(params, asked) /\ params.sort = asked.sort

SearchedInv == Built(search) /\ Searched(search, asked) /\ Ordered(search, asked)

\* The numbers of the page that is next, or was last.
NumberInv ==
    /\ ~ById => Numbered(params, asked.paging, asked, turns)
    /\ Many(asked) => Numbered(search, Style("postgrest", asked), asked, turns)

ProgramInv == KeysInv /\ AskingInv /\ ParamedInv /\ SearchedInv /\ NumberInv

\* Before findOne and between two pages.
CallsBuilder == ProgramInv /\ Calling /\ asked.one = FALSE

LEMMA NumbersStay ==
    ASSUME CallsBuilder, asked'.size = asked.size, asked'.paging = asked.paging, asked'.one = asked.one,
           params'.limit = params.limit, params'.offset = params.offset,
           params'.page = params.page, search'.limit = search.limit,
           search'.offset = search.offset, search'.page = search.page
    PROVE  NumberInv' /\ (Sized(asked, turns) => Sized(asked, turns)')
<1>1. turns' = turns /\ asked'.one = FALSE /\ ~asked.one
  BY DEF CallsBuilder, Calling
<1>2. Numbered(params, asked.paging, asked, turns)
      /\ Numbered(search, Style("postgrest", asked), asked, turns)
  BY <1>1 DEF CallsBuilder, ProgramInv, NumberInv, ById, Many
<1>3. Numbered(params', asked'.paging, asked', turns')
  BY <1>1, <1>2 DEF Numbered
<1>4. Numbered(search', Style("postgrest", asked'), asked', turns')
  BY <1>1, <1>2 DEF Numbered, Style
<1>5. Sized(asked, turns) => Sized(asked', turns')
  BY <1>1 DEF Sized
<1>. QED  BY <1>3, <1>4, <1>5 DEF NumberInv

LEMMA AskedWhere ==
    ASSUME PlainPrograms, CallsBuilder, NEW c \in AskCondition, AskWhere(c)
    PROVE  ProgramInv'
<1>1. /\ asked' = [asked EXCEPT !.conds = Append(@, c)]
      /\ params' = [params EXCEPT !.filter = MergeField(@, c)]
      /\ search' = [search EXCEPT !.cols = Append(@, ClientFilter(c))]
      /\ Writable(c)
  BY DEF AskWhere, Where, AddFilter, PlainPrograms
<1>2. KeysInv /\ AskingInv /\ ParamedInv /\ SearchedInv
  BY DEF CallsBuilder, ProgramInv
<1>3. /\ asked'.conds = Append(asked.conds, c) /\ asked'.any = asked.any
      /\ asked'.columns = asked.columns /\ asked'.relations = asked.relations
      /\ asked'.sort = asked.sort /\ asked'.size = asked.size
      /\ asked'.paging = asked.paging /\ asked'.one = asked.one
      /\ AskKeys \subseteq DOMAIN asked'
  BY <1>1, <1>2 DEF KeysInv, AskKeys
<1>4. /\ params'.filter = MergeField(params.filter, c) /\ params'.or = params.or
      /\ params'.join = params.join /\ params'.fields = params.fields
      /\ params'.sort = params.sort /\ params'.limit = params.limit
      /\ params'.offset = params.offset /\ params'.page = params.page
      /\ ParamKeys \subseteq DOMAIN params'
  BY <1>1, <1>2 DEF KeysInv, ParamKeys
<1>5. /\ search'.cols = Append(search.cols, ClientFilter(c))
      /\ search'.orGroup = search.orGroup /\ search'.andGroup = search.andGroup
      /\ search'.select = search.select /\ search'.order = search.order
      /\ search'.limit = search.limit /\ search'.offset = search.offset
      /\ SearchKeys \subseteq DOMAIN search'
      /\ Built(search')
  BY <1>1, <1>2 DEF KeysInv, SearchKeys, SearchedInv, Built
<1>6. search'.page = search.page
  BY <1>2, <1>5 DEF Built, SearchedInv
<1>7. NumberInv' /\ Sized(asked', turns')
  BY <1>2, <1>3, <1>4, <1>5, <1>6, NumbersStay DEF AskingInv
<1>8. AskingInv'
  <2>1. Written(asked'.conds)
    BY <1>1, <1>2, <1>3, WrittenAppend DEF AskingInv, Programmed
  <2>2. Programmed(asked')
    BY <1>2, <1>3, <2>1 DEF AskingInv, Programmed
  <2>3. OneSort(asked')
    BY <1>2, <1>3 DEF AskingInv, OneSort
  <2>. QED  BY <1>2, <1>3, <1>7, <2>2, <2>3 DEF AskingInv
<1>9. ParamedInv'
  <2>1. IsSeq(asked.conds) /\ Written(params.filter) /\ IsSeq(params.filter)
        /\ ToSet(params.filter) = Standing(asked.conds)
    BY <1>2 DEF AskingInv, Programmed, ParamedInv, Paramed, Written
  <2>2. Written(params'.filter)
        /\ ToSet(params'.filter) = {d \in ToSet(params.filter) : d.field # c.field} \cup {c}
    BY <1>1, <1>4, <2>1, Merged
  <2>3. Standing(asked'.conds) = {d \in Standing(asked.conds) : d.field # c.field} \cup {c}
    BY <1>3, <2>1, StandingAppend
  <2>4. ToSet(params'.filter) = Standing(asked'.conds)
    BY <2>1, <2>2, <2>3
  <2>5. Paramed(params', asked')
    BY <1>2, <1>3, <1>4, <2>2, <2>4 DEF ParamedInv, Paramed
  <2>. QED  BY <1>2, <1>3, <1>4, <2>5 DEF ParamedInv
<1>10. SearchedInv'
  <2>1. search.cols = [i \in DOMAIN asked.conds |-> ClientFilter(asked.conds[i])]
        /\ IsSeq(asked.conds)
    BY <1>2 DEF SearchedInv, Searched, AskingInv, Programmed, Written
  <2>2. search'.cols = [i \in DOMAIN asked'.conds |-> ClientFilter(asked'.conds[i])]
    BY <1>3, <1>5, <2>1, FilterAppended
  <2>3. SelectOf(search', asked')
    BY <1>2, <1>3, <1>5, SelectItemsAlike DEF SearchedInv, Searched, SelectOf
  <2>4. Searched(search', asked')
    BY <1>2, <1>3, <1>5, <2>2, <2>3 DEF SearchedInv, Searched
  <2>5. Ordered(search', asked')
    BY <1>2, <1>3, <1>5 DEF SearchedInv, Ordered
  <2>. QED  BY <1>5, <2>4, <2>5 DEF SearchedInv
<1>. QED  BY <1>3, <1>4, <1>5, <1>7, <1>8, <1>9, <1>10 DEF ProgramInv, KeysInv

LEMMA AskedOr ==
    ASSUME PlainPrograms, CallsBuilder, NEW cs \in AskAny, AskOr(cs)
    PROVE  ProgramInv'
<1>1. /\ asked' = [asked EXCEPT !.any = cs]
      /\ params' = [params EXCEPT !.or = cs]
      /\ search' = [search EXCEPT !.orGroup =
                      [i \in DOMAIN cs |-> Branch("field", <<ClientFilter(cs[i])>>)]]
  BY DEF AskOr, OrWhere, SetOrGroup
<1>2. KeysInv /\ AskingInv /\ ParamedInv /\ SearchedInv
  BY DEF CallsBuilder, ProgramInv
<1>3. /\ asked'.conds = asked.conds /\ asked'.any = cs /\ asked'.columns = asked.columns
      /\ asked'.relations = asked.relations /\ asked'.sort = asked.sort
      /\ asked'.size = asked.size /\ asked'.paging = asked.paging /\ asked'.one = asked.one
      /\ AskKeys \subseteq DOMAIN asked'
  BY <1>1, <1>2 DEF KeysInv, AskKeys
<1>4. /\ params'.filter = params.filter /\ params'.or = cs /\ params'.join = params.join
      /\ params'.fields = params.fields /\ params'.sort = params.sort
      /\ params'.limit = params.limit /\ params'.offset = params.offset
      /\ params'.page = params.page
      /\ ParamKeys \subseteq DOMAIN params'
  BY <1>1, <1>2 DEF KeysInv, ParamKeys
<1>5. /\ search'.cols = search.cols
      /\ search'.orGroup = [i \in DOMAIN cs |-> Branch("field", <<ClientFilter(cs[i])>>)]
      /\ search'.andGroup = search.andGroup /\ search'.select = search.select
      /\ search'.order = search.order /\ search'.limit = search.limit
      /\ search'.offset = search.offset
      /\ SearchKeys \subseteq DOMAIN search'
      /\ Built(search')
  BY <1>1, <1>2 DEF KeysInv, SearchKeys, SearchedInv, Built
<1>6. search'.page = search.page
  BY <1>2, <1>5 DEF Built, SearchedInv
<1>7. NumberInv' /\ Sized(asked', turns')
  BY <1>2, <1>3, <1>4, <1>5, <1>6, NumbersStay DEF AskingInv
<1>8. AskingInv'
  <2>1. Programmed(asked')
    <3>1. Written(cs) /\ \A i \in DOMAIN cs : OnRoot(cs[i])
      BY DEF PlainPrograms, Written, IsSeq
    <3>. QED  BY <1>2, <1>3, <3>1 DEF AskingInv, Programmed
  <2>2. OneSort(asked')
    BY <1>2, <1>3 DEF AskingInv, OneSort
  <2>. QED  BY <1>2, <1>3, <1>7, <2>1, <2>2 DEF AskingInv
<1>9. ParamedInv'
  BY <1>2, <1>3, <1>4 DEF ParamedInv, Paramed
<1>10. SearchedInv'
  <2>1. SelectOf(search', asked')
    BY <1>2, <1>3, <1>5, SelectItemsAlike DEF SearchedInv, Searched, SelectOf
  <2>2. Searched(search', asked')
    BY <1>2, <1>3, <1>5, <2>1 DEF SearchedInv, Searched
  <2>3. Ordered(search', asked')
    BY <1>2, <1>3, <1>5 DEF SearchedInv, Ordered
  <2>. QED  BY <1>5, <2>2, <2>3 DEF SearchedInv
<1>. QED  BY <1>3, <1>4, <1>5, <1>7, <1>8, <1>9, <1>10 DEF ProgramInv, KeysInv

LEMMA AskedSelect ==
    ASSUME PlainPrograms, CallsBuilder, NEW cs \in AskColumns, AskSelect(cs)
    PROVE  ProgramInv'
<1>1. /\ asked' = [asked EXCEPT !.columns = cs]
      /\ params' = [params EXCEPT !.fields = cs]
      /\ search' = [search EXCEPT !.select = SelectItems(asked')]
  BY DEF AskSelect, SetSelect
<1>2. KeysInv /\ AskingInv /\ ParamedInv /\ SearchedInv
  BY DEF CallsBuilder, ProgramInv
<1>3. /\ asked'.conds = asked.conds /\ asked'.any = asked.any /\ asked'.columns = cs
      /\ asked'.relations = asked.relations /\ asked'.sort = asked.sort
      /\ asked'.size = asked.size /\ asked'.paging = asked.paging /\ asked'.one = asked.one
      /\ AskKeys \subseteq DOMAIN asked'
  BY <1>1, <1>2 DEF KeysInv, AskKeys
<1>4. /\ params'.filter = params.filter /\ params'.or = params.or
      /\ params'.join = params.join /\ params'.fields = cs /\ params'.sort = params.sort
      /\ params'.limit = params.limit /\ params'.offset = params.offset
      /\ params'.page = params.page
      /\ ParamKeys \subseteq DOMAIN params'
  BY <1>1, <1>2 DEF KeysInv, ParamKeys
<1>5. /\ search'.cols = search.cols /\ search'.orGroup = search.orGroup
      /\ search'.andGroup = search.andGroup /\ search'.select = SelectItems(asked')
      /\ search'.order = search.order /\ search'.limit = search.limit
      /\ search'.offset = search.offset
      /\ SearchKeys \subseteq DOMAIN search'
      /\ Built(search')
  BY <1>1, <1>2 DEF KeysInv, SearchKeys, SearchedInv, Built
<1>6. search'.page = search.page
  BY <1>2, <1>5 DEF Built, SearchedInv
<1>7. NumberInv' /\ Sized(asked', turns')
  BY <1>2, <1>3, <1>4, <1>5, <1>6, NumbersStay DEF AskingInv
<1>8. AskingInv'
  <2>1. Programmed(asked')
    <3>1. IsSeq(cs) /\ "*" \notin ToSet(cs)
      BY DEF PlainPrograms, IsSeq
    <3>. QED  BY <1>2, <1>3, <3>1 DEF AskingInv, Programmed
  <2>2. OneSort(asked')
    BY <1>2, <1>3 DEF AskingInv, OneSort
  <2>. QED  BY <1>2, <1>3, <1>7, <2>1, <2>2 DEF AskingInv
<1>9. ParamedInv'
  BY <1>2, <1>3, <1>4 DEF ParamedInv, Paramed
<1>10. SearchedInv'
  <2>1. SelectOf(search', asked')
    BY <1>3, <1>5, <1>8, SomethingSelected DEF SelectOf, AskingInv, Programmed
  <2>2. Searched(search', asked')
    BY <1>2, <1>3, <1>5, <2>1 DEF SearchedInv, Searched
  <2>3. Ordered(search', asked')
    BY <1>2, <1>3, <1>5 DEF SearchedInv, Ordered
  <2>. QED  BY <1>5, <2>2, <2>3 DEF SearchedInv
<1>. QED  BY <1>3, <1>4, <1>5, <1>7, <1>8, <1>9, <1>10 DEF ProgramInv, KeysInv

LEMMA AskedJoin ==
    ASSUME PlainPrograms, CallsBuilder, NEW ps \in AskRelation, AskJoin(ps)
    PROVE  ProgramInv'
<1>1. /\ asked' = [asked EXCEPT !.relations = ps]
      /\ params' = [params EXCEPT !.join = ps]
      /\ search' = [search EXCEPT !.select = SelectItems(asked')]
  BY DEF AskJoin, SetSelect
<1>2. KeysInv /\ AskingInv /\ ParamedInv /\ SearchedInv
  BY DEF CallsBuilder, ProgramInv
<1>3. /\ asked'.conds = asked.conds /\ asked'.any = asked.any
      /\ asked'.columns = asked.columns /\ asked'.relations = ps
      /\ asked'.sort = asked.sort /\ asked'.size = asked.size
      /\ asked'.paging = asked.paging /\ asked'.one = asked.one
      /\ AskKeys \subseteq DOMAIN asked'
  BY <1>1, <1>2 DEF KeysInv, AskKeys
<1>4. /\ params'.filter = params.filter /\ params'.or = params.or /\ params'.join = ps
      /\ params'.fields = params.fields /\ params'.sort = params.sort
      /\ params'.limit = params.limit /\ params'.offset = params.offset
      /\ params'.page = params.page
      /\ ParamKeys \subseteq DOMAIN params'
  BY <1>1, <1>2 DEF KeysInv, ParamKeys
<1>5. /\ search'.cols = search.cols /\ search'.orGroup = search.orGroup
      /\ search'.andGroup = search.andGroup /\ search'.select = SelectItems(asked')
      /\ search'.order = search.order /\ search'.limit = search.limit
      /\ search'.offset = search.offset
      /\ SearchKeys \subseteq DOMAIN search'
      /\ Built(search')
  BY <1>1, <1>2 DEF KeysInv, SearchKeys, SearchedInv, Built
<1>6. search'.page = search.page
  BY <1>2, <1>5 DEF Built, SearchedInv
<1>7. NumberInv' /\ Sized(asked', turns')
  BY <1>2, <1>3, <1>4, <1>5, <1>6, NumbersStay DEF AskingInv
<1>8. AskingInv'
  <2>1. Programmed(asked')
    <3>1. IsSeq(ps)
      BY DEF PlainPrograms, IsSeq
    <3>. QED  BY <1>2, <1>3, <3>1 DEF AskingInv, Programmed
  <2>2. OneSort(asked')
    BY <1>2, <1>3 DEF AskingInv, OneSort
  <2>. QED  BY <1>2, <1>3, <1>7, <2>1, <2>2 DEF AskingInv
<1>9. ParamedInv'
  BY <1>2, <1>3, <1>4 DEF ParamedInv, Paramed
<1>10. SearchedInv'
  <2>1. SelectOf(search', asked')
    BY <1>3, <1>5, <1>8, SomethingSelected DEF SelectOf, AskingInv, Programmed
  <2>2. Searched(search', asked')
    BY <1>2, <1>3, <1>5, <2>1 DEF SearchedInv, Searched
  <2>3. Ordered(search', asked')
    BY <1>2, <1>3, <1>5 DEF SearchedInv, Ordered
  <2>. QED  BY <1>5, <2>2, <2>3 DEF SearchedInv
<1>. QED  BY <1>3, <1>4, <1>5, <1>7, <1>8, <1>9, <1>10 DEF ProgramInv, KeysInv

LEMMA AskedSort ==
    ASSUME PlainPrograms, CallsBuilder, NEW s \in AskOrder, AskSort(s)
    PROVE  ProgramInv'
<1>. DEFINE token == [field |-> s[1].field,
                      modifiers |-> IF s[1].order = "DESC" THEN <<"desc">> ELSE <<"asc">>]
<1>0. /\ asked.sort = <<>>
      /\ s = <<[field |-> <<<<>>, s[1].field[2]>>, order |-> s[1].order]>>
      /\ s[1].order \in {"ASC", "DESC"}
  BY DEF AskSort, PlainPrograms
<1>1. /\ asked' = [asked EXCEPT !.sort = s]
      /\ params' = [params EXCEPT !.sort = s]
      /\ search' = [search EXCEPT !.order = Append(@, token)]
  BY DEF AskSort, AddOrder
<1>2. KeysInv /\ AskingInv /\ ParamedInv /\ SearchedInv
  BY DEF CallsBuilder, ProgramInv
<1>3. /\ asked'.conds = asked.conds /\ asked'.any = asked.any
      /\ asked'.columns = asked.columns /\ asked'.relations = asked.relations
      /\ asked'.sort = s /\ asked'.size = asked.size /\ asked'.paging = asked.paging
      /\ asked'.one = asked.one
      /\ AskKeys \subseteq DOMAIN asked'
  BY <1>1, <1>2 DEF KeysInv, AskKeys
<1>4. /\ params'.filter = params.filter /\ params'.or = params.or
      /\ params'.join = params.join /\ params'.fields = params.fields /\ params'.sort = s
      /\ params'.limit = params.limit /\ params'.offset = params.offset
      /\ params'.page = params.page
      /\ ParamKeys \subseteq DOMAIN params'
  BY <1>1, <1>2 DEF KeysInv, ParamKeys
<1>5. /\ search'.cols = search.cols /\ search'.orGroup = search.orGroup
      /\ search'.andGroup = search.andGroup /\ search'.select = search.select
      /\ search'.order = Append(search.order, token) /\ search'.limit = search.limit
      /\ search'.offset = search.offset
      /\ SearchKeys \subseteq DOMAIN search'
      /\ Built(search')
  BY <1>1, <1>2 DEF KeysInv, SearchKeys, SearchedInv, Built
<1>6. search'.page = search.page
  BY <1>2, <1>5 DEF Built, SearchedInv
<1>7. NumberInv' /\ Sized(asked', turns')
  BY <1>2, <1>3, <1>4, <1>5, <1>6, NumbersStay DEF AskingInv
<1>8. AskingInv'
  <2>1. Programmed(asked')
    BY <1>2, <1>3 DEF AskingInv, Programmed
  <2>2. OneSort(asked')
    BY <1>0, <1>3 DEF OneSort
  <2>. QED  BY <1>2, <1>3, <1>7, <2>1, <2>2 DEF AskingInv
<1>9. ParamedInv'
  BY <1>2, <1>3, <1>4 DEF ParamedInv, Paramed
<1>10. SearchedInv'
  <2>1. SelectOf(search', asked')
    BY <1>2, <1>3, <1>5, SelectItemsAlike DEF SearchedInv, Searched, SelectOf
  <2>2. Searched(search', asked')
    BY <1>2, <1>3, <1>5, <2>1 DEF SearchedInv, Searched
  <2>3. Ordered(search', asked')
    <3>1. search.order = <<>>
      BY <1>0, <1>2 DEF SearchedInv, Ordered
    <3>2. search'.order = <<token>>
      BY <1>5, <3>1
    <3>3. DOMAIN asked'.sort = {1} /\ asked'.sort[1].field = s[1].field
          /\ asked'.sort[1].order = s[1].order
      BY <1>0, <1>3
    <3>. QED  BY <3>2, <3>3 DEF Ordered
  <2>. QED  BY <1>5, <2>2, <2>3 DEF SearchedInv
<1>. QED  BY <1>3, <1>4, <1>5, <1>7, <1>8, <1>9, <1>10 DEF ProgramInv, KeysInv

LEMMA AskedLimit ==
    ASSUME PlainPrograms, CallsBuilder, NEW n \in AskSize, AskLimit(n)
    PROVE  ProgramInv'
<1>1. /\ asked' = [asked EXCEPT !.size = n]
      /\ params' = [params EXCEPT !.limit = n]
      /\ search' = [search EXCEPT !.limit = n]
  BY DEF AskLimit
<1>2. KeysInv /\ AskingInv /\ ParamedInv /\ SearchedInv
  BY DEF CallsBuilder, ProgramInv
<1>3. /\ asked'.conds = asked.conds /\ asked'.any = asked.any
      /\ asked'.columns = asked.columns /\ asked'.relations = asked.relations
      /\ asked'.sort = asked.sort /\ asked'.size = n /\ asked'.paging = asked.paging
      /\ asked'.one = asked.one
      /\ AskKeys \subseteq DOMAIN asked'
  BY <1>1, <1>2 DEF KeysInv, AskKeys
<1>4. /\ params'.filter = params.filter /\ params'.or = params.or
      /\ params'.join = params.join /\ params'.fields = params.fields
      /\ params'.sort = params.sort /\ params'.limit = n /\ params'.offset = params.offset
      /\ params'.page = params.page
      /\ ParamKeys \subseteq DOMAIN params'
  BY <1>1, <1>2 DEF KeysInv, ParamKeys
<1>5. /\ search'.cols = search.cols /\ search'.orGroup = search.orGroup
      /\ search'.andGroup = search.andGroup /\ search'.select = search.select
      /\ search'.order = search.order /\ search'.limit = n
      /\ search'.offset = search.offset
      /\ SearchKeys \subseteq DOMAIN search'
      /\ Built(search')
  BY <1>1, <1>2 DEF KeysInv, SearchKeys, SearchedInv, Built
<1>6. search'.page = search.page
  BY <1>2, <1>5 DEF Built, SearchedInv
<1>0. turns = 0 /\ turns' = 0 /\ asked.one = FALSE /\ ~asked.one
  BY DEF CallsBuilder, Calling
<1>7. NumberInv' /\ Sized(asked', turns')
  <2>1. Numbered(params, asked.paging, asked, turns)
        /\ Numbered(search, Style("postgrest", asked), asked, turns)
    BY <1>0 DEF CallsBuilder, ProgramInv, NumberInv, ById, Many
  <2>2. asked.paging = "none" /\ n \in Nat \ {0}
    BY QueryPipelineAssumption DEF AskLimit, PlainPrograms
  <2>3. params.offset = Null /\ params.page = Null
    BY <2>1, <2>2 DEF Numbered
  <2>4. Numbered(params', asked'.paging, asked', turns')
    BY <1>0, <1>3, <1>4, <2>2, <2>3 DEF Numbered
  <2>5. Numbered(search', Style("postgrest", asked'), asked', turns')
    BY <1>0, <1>3, <1>5, <1>6, <2>1, <2>2 DEF Numbered, Style
  <2>6. Sized(asked', turns')
    BY <1>0, <1>2, <1>3, <2>2 DEF AskingInv, Sized
  <2>. QED  BY <2>4, <2>5, <2>6 DEF NumberInv
<1>8. AskingInv'
  <2>1. Programmed(asked')
    BY <1>2, <1>3 DEF AskingInv, Programmed
  <2>2. OneSort(asked')
    BY <1>2, <1>3 DEF AskingInv, OneSort
  <2>. QED  BY <1>2, <1>3, <1>7, <2>1, <2>2 DEF AskingInv
<1>9. ParamedInv'
  BY <1>2, <1>3, <1>4 DEF ParamedInv, Paramed
<1>10. SearchedInv'
  <2>1. SelectOf(search', asked')
    BY <1>2, <1>3, <1>5, SelectItemsAlike DEF SearchedInv, Searched, SelectOf
  <2>2. Searched(search', asked')
    BY <1>2, <1>3, <1>5, <2>1 DEF SearchedInv, Searched
  <2>3. Ordered(search', asked')
    BY <1>2, <1>3, <1>5 DEF SearchedInv, Ordered
  <2>. QED  BY <1>5, <2>2, <2>3 DEF SearchedInv
<1>. QED  BY <1>3, <1>4, <1>5, <1>7, <1>8, <1>9, <1>10 DEF ProgramInv, KeysInv

LEMMA AskedPages ==
    ASSUME PlainPrograms, CallsBuilder, NEW n \in AskSize, NEW style \in {"page", "offset"}, AskPages(n, style)
    PROVE  ProgramInv'
<1>1. /\ asked' = [asked EXCEPT !.size = n, !.paging = style]
      /\ params' = IF style = "page" THEN [params EXCEPT !.limit = n, !.page = 1]
                  ELSE [params EXCEPT !.limit = n, !.offset = 0]
      /\ search' = [search EXCEPT !.offset = 0, !.limit = (n - 1) - 0 + 1]
  BY DEF AskPages, SetRange
<1>2. KeysInv /\ AskingInv /\ ParamedInv /\ SearchedInv
  BY DEF CallsBuilder, ProgramInv
<1>3. /\ asked'.conds = asked.conds /\ asked'.any = asked.any
      /\ asked'.columns = asked.columns /\ asked'.relations = asked.relations
      /\ asked'.sort = asked.sort /\ asked'.size = n /\ asked'.paging = style
      /\ asked'.one = asked.one
      /\ AskKeys \subseteq DOMAIN asked'
  BY <1>1, <1>2 DEF KeysInv, AskKeys
<1>4. /\ params'.filter = params.filter /\ params'.or = params.or
      /\ params'.join = params.join /\ params'.fields = params.fields
      /\ params'.sort = params.sort /\ params'.limit = n
      /\ params'.offset = IF style = "page" THEN params.offset ELSE 0
      /\ params'.page = IF style = "page" THEN 1 ELSE params.page
      /\ ParamKeys \subseteq DOMAIN params'
  BY <1>1, <1>2 DEF KeysInv, ParamKeys
<1>5. /\ search'.cols = search.cols /\ search'.orGroup = search.orGroup
      /\ search'.andGroup = search.andGroup /\ search'.select = search.select
      /\ search'.order = search.order /\ search'.limit = n /\ search'.offset = 0
      /\ SearchKeys \subseteq DOMAIN search'
      /\ Built(search')
  <2>1. n \in Int /\ (n - 1) - 0 + 1 = n
    BY QueryPipelineAssumption
  <2>. QED  BY <1>1, <1>2, <2>1 DEF KeysInv, SearchKeys, SearchedInv, Built
<1>6. search'.page = search.page
  BY <1>2, <1>5 DEF Built, SearchedInv
<1>0. turns = 0 /\ turns' = 0 /\ asked.one = FALSE /\ ~asked.one
  BY DEF CallsBuilder, Calling
<1>7. NumberInv' /\ Sized(asked', turns')
  <2>1. Numbered(params, asked.paging, asked, turns)
        /\ Numbered(search, Style("postgrest", asked), asked, turns)
    BY <1>0 DEF CallsBuilder, ProgramInv, NumberInv, ById, Many
  <2>2. asked.paging = "none" /\ n \in Nat \ {0}
    BY <1>2, QueryPipelineAssumption DEF AskPages, PlainPrograms, AskingInv, Sized
  <2>3. params.offset = Null /\ params.page = Null
    BY <2>1, <2>2 DEF Numbered
  <2>4. Numbered(params', asked'.paging, asked', turns')
    <3>1. n \in Int /\ 0 * n = 0
      BY <2>2
    <3>. QED  BY <1>0, <1>3, <1>4, <2>2, <2>3, <3>1 DEF Numbered
  <2>5. Numbered(search', Style("postgrest", asked'), asked', turns')
    <3>1. n \in Int /\ 0 * n = 0
      BY <2>2
    <3>2. search.page = Null
      BY <2>1, <2>2 DEF Numbered, Style
    <3>. QED  BY <1>0, <1>3, <1>5, <1>6, <2>2, <3>1, <3>2 DEF Numbered, Style
  <2>6. Sized(asked', turns')
    BY <1>0, <1>2, <1>3, <2>2, QueryPipelineAssumption DEF AskingInv, Sized
  <2>. QED  BY <2>4, <2>5, <2>6 DEF NumberInv
<1>8. AskingInv'
  <2>1. Programmed(asked')
    BY <1>2, <1>3 DEF AskingInv, Programmed
  <2>2. OneSort(asked')
    BY <1>2, <1>3 DEF AskingInv, OneSort
  <2>. QED  BY <1>2, <1>3, <1>7, <2>1, <2>2 DEF AskingInv
<1>9. ParamedInv'
  BY <1>2, <1>3, <1>4 DEF ParamedInv, Paramed
<1>10. SearchedInv'
  <2>1. SelectOf(search', asked')
    BY <1>2, <1>3, <1>5, SelectItemsAlike DEF SearchedInv, Searched, SelectOf
  <2>2. Searched(search', asked')
    BY <1>2, <1>3, <1>5, <2>1 DEF SearchedInv, Searched
  <2>3. Ordered(search', asked')
    BY <1>2, <1>3, <1>5 DEF SearchedInv, Ordered
  <2>. QED  BY <1>5, <2>2, <2>3 DEF SearchedInv
<1>. QED  BY <1>3, <1>4, <1>5, <1>7, <1>8, <1>9, <1>10 DEF ProgramInv, KeysInv

LEMMA FreshFacts ==
    /\ AskKeys \subseteq DOMAIN NothingAsked /\ ParamKeys \subseteq DOMAIN NoParams
    /\ SearchKeys \subseteq DOMAIN NoQuery
    /\ Programmed(NothingAsked) /\ OneSort(NothingAsked) /\ Sized(NothingAsked, 0)
    /\ NothingAsked.one = FALSE
    /\ Paramed(NoParams, NothingAsked) /\ NoParams.sort = NothingAsked.sort
    /\ Built(NoQuery) /\ Searched(NoQuery, NothingAsked) /\ Ordered(NoQuery, NothingAsked)
    /\ Numbered(NoParams, NothingAsked.paging, NothingAsked, 0)
    /\ Numbered(NoQuery, Style("postgrest", NothingAsked), NothingAsked, 0)
<1>1. /\ NothingAsked.conds = <<>> /\ NothingAsked.any = <<>> /\ NothingAsked.columns = <<>>
      /\ NothingAsked.relations = <<>> /\ NothingAsked.sort = <<>> /\ NothingAsked.size = Null
      /\ NothingAsked.paging = "none" /\ NothingAsked.one = FALSE
      /\ AskKeys \subseteq DOMAIN NothingAsked
  BY DEF NothingAsked, AskKeys
<1>2. /\ NoParams.fields = <<>> /\ NoParams.filter = <<>> /\ NoParams.or = <<>>
      /\ NoParams.join = <<>> /\ NoParams.sort = <<>> /\ NoParams.limit = Null
      /\ NoParams.offset = Null /\ NoParams.page = Null
      /\ ParamKeys \subseteq DOMAIN NoParams
  BY DEF NoParams, ParamKeys
<1>3. /\ NoQuery.fields = <<>> /\ NoQuery.filter = <<>> /\ NoQuery.or = <<>> /\ NoQuery.s = <<>>
      /\ NoQuery.sort = <<>> /\ NoQuery.join = <<>> /\ NoQuery.select = <<>>
      /\ NoQuery.order = <<>> /\ NoQuery.cols = <<>> /\ NoQuery.orGroup = <<>>
      /\ NoQuery.andGroup = <<>> /\ NoQuery.limit = Null /\ NoQuery.offset = Null
      /\ NoQuery.page = Null
      /\ SearchKeys \subseteq DOMAIN NoQuery
  BY DEF NoQuery, SearchKeys
<1>4. IsSeq(<<>>) /\ DOMAIN <<>> = {} /\ ToSet(<<>>) = {} /\ Standing(<<>>) = {} /\ Written(<<>>)
  BY EmptyIsSeq DEF ToSet, Standing, Written
<1>5. Programmed(NothingAsked)
  BY <1>1, <1>4 DEF Programmed
<1>6. OneSort(NothingAsked) /\ Sized(NothingAsked, 0)
  BY <1>1 DEF OneSort, Sized
<1>7. Paramed(NoParams, NothingAsked)
  BY <1>1, <1>2, <1>4 DEF Paramed
<1>8. Built(NoQuery)
  BY <1>3 DEF Built
<1>9. Searched(NoQuery, NothingAsked) /\ Ordered(NoQuery, NothingAsked)
  BY <1>1, <1>3, <1>4 DEF Searched, SelectOf, Ordered
<1>10. /\ Numbered(NoParams, NothingAsked.paging, NothingAsked, 0)
       /\ Numbered(NoQuery, Style("postgrest", NothingAsked), NothingAsked, 0)
  BY <1>1, <1>2, <1>3 DEF Numbered, Style
<1>. QED  BY <1>1, <1>2, <1>3, <1>5, <1>6, <1>7, <1>8, <1>9, <1>10

LEMMA FreshProgram ==
    /\ asked = NothingAsked /\ params = NoParams /\ search = NoQuery /\ turns = 0 => ProgramInv
    /\ asked' = NothingAsked /\ params' = NoParams /\ search' = NoQuery /\ turns' = 0 => ProgramInv'
BY FreshFacts DEF ProgramInv, KeysInv, AskingInv, ParamedInv, SearchedInv, NumberInv

\* findOne sets the limit of the shared params object.
LEMMA AskedOne ==
    ASSUME ProgramInv, turns = 0, asked.one = FALSE, turns' = turns, search' = search,
           asked' = [asked EXCEPT !.one = TRUE],
           \/ params' = params /\ ById'
           \/ params' = [params EXCEPT !.limit = 1]
    PROVE  ProgramInv'
<1>1. KeysInv /\ AskingInv /\ ParamedInv /\ SearchedInv /\ NumberInv
  BY DEF ProgramInv
<1>2. /\ asked'.conds = asked.conds /\ asked'.any = asked.any /\ asked'.columns = asked.columns
      /\ asked'.relations = asked.relations /\ asked'.sort = asked.sort
      /\ asked'.size = asked.size /\ asked'.paging = asked.paging /\ asked'.one = TRUE
      /\ AskKeys \subseteq DOMAIN asked'
  BY <1>1 DEF KeysInv, AskKeys
<1>3. /\ params'.filter = params.filter /\ params'.or = params.or /\ params'.join = params.join
      /\ params'.fields = params.fields /\ params'.sort = params.sort
      /\ params'.offset = params.offset /\ params'.page = params.page
      /\ ~ById' => params'.limit = 1
      /\ ParamKeys \subseteq DOMAIN params'
  BY <1>1 DEF KeysInv, ParamKeys
<1>4. AskingInv'
  <2>1. Programmed(asked')
    BY <1>1, <1>2 DEF AskingInv, Programmed
  <2>2. OneSort(asked')
    BY <1>1, <1>2 DEF AskingInv, OneSort
  <2>3. Sized(asked', turns')
    BY <1>1, <1>2 DEF AskingInv, Sized
  <2>. QED  BY <1>2, <2>1, <2>2, <2>3 DEF AskingInv
<1>5. ParamedInv'
  BY <1>1, <1>2, <1>3 DEF ParamedInv, Paramed
<1>6. SearchedInv'
  <2>1. SelectOf(search', asked')
    BY <1>1, <1>2, SelectItemsAlike DEF SearchedInv, Searched, SelectOf
  <2>2. Searched(search', asked')
    BY <1>1, <1>2, <2>1 DEF SearchedInv, Searched
  <2>3. Ordered(search', asked')
    BY <1>1, <1>2 DEF SearchedInv, Ordered
  <2>. QED  BY <1>1, <2>2, <2>3 DEF SearchedInv, Built
<1>7. NumberInv'
  <2>1. Numbered(params, asked.paging, asked, turns)
    BY <1>1 DEF NumberInv, ById
  <2>2. ~ById' => Numbered(params', asked'.paging, asked', turns')
    BY <1>2, <1>3, <2>1 DEF Numbered
  <2>3. ~Many(asked')
    BY <1>2 DEF Many
  <2>. QED  BY <2>2, <2>3 DEF NumberInv
<1>. QED  BY <1>1, <1>2, <1>3, <1>4, <1>5, <1>6, <1>7 DEF ProgramInv, KeysInv

LEMMA Multiples ==
    ASSUME NEW t \in Nat, NEW n \in Nat
    PROVE  /\ t * n + n = (t + 1) * n /\ (t + 1) * n \in Nat
           /\ ((t + 2) * n - 1) - (t + 1) * n + 1 = n
<1>1. t * n + n = (t + 1) * n
  OBVIOUS
<1>2. (t + 2) * n = (t + 1) * n + n
  OBVIOUS
<1>3. (t + 1) * n \in Nat
  OBVIOUS
<1>. DEFINE m == (t + 1) * n
<1>. HIDE DEF m
<1>4. m \in Nat /\ (t + 2) * n = m + n
  BY <1>2, <1>3 DEF m
<1>5. ((t + 2) * n - 1) - m + 1 = n
  BY <1>4
<1>. QED  BY <1>1, <1>3, <1>5 DEF m

LEMMA AskedNext ==
    ASSUME ProgramInv, TurnPage
    PROVE  ProgramInv'
<1>. DEFINE n == asked.size
<1>1. KeysInv /\ AskingInv /\ ParamedInv /\ SearchedInv /\ NumberInv
  BY DEF ProgramInv
<1>2. /\ turns' = turns + 1 /\ asked' = asked /\ ~asked.one /\ asked.paging # "none"
      /\ params' = IF asked.paging = "page" THEN [params EXCEPT !.page = @ + 1]
                   ELSE [params EXCEPT !.offset = @ + n]
      /\ search' = [search EXCEPT !.offset = (turns + 1) * n,
                                  !.limit = ((turns + 2) * n - 1) - (turns + 1) * n + 1]
  BY DEF TurnPage, SetRange
<1>3. turns \in Nat /\ n \in Nat /\ asked.paging \in {"page", "offset"}
  BY <1>1, <1>2 DEF AskingInv, Sized
<1>4. /\ turns * n + n = (turns + 1) * n /\ (turns + 1) * n \in Nat
      /\ ((turns + 2) * n - 1) - (turns + 1) * n + 1 = n
  BY <1>3, Multiples
<1>. HIDE DEF n
<1>5. /\ params'.filter = params.filter /\ params'.or = params.or /\ params'.join = params.join
      /\ params'.fields = params.fields /\ params'.sort = params.sort
      /\ params'.limit = params.limit
      /\ params'.page = (IF asked.paging = "page" THEN params.page + 1 ELSE params.page)
      /\ params'.offset = (IF asked.paging = "page" THEN params.offset ELSE params.offset + n)
      /\ ParamKeys \subseteq DOMAIN params'
  BY <1>1, <1>2 DEF KeysInv, ParamKeys
<1>6. /\ search'.cols = search.cols /\ search'.orGroup = search.orGroup
      /\ search'.andGroup = search.andGroup /\ search'.select = search.select
      /\ search'.order = search.order /\ search'.offset = (turns + 1) * n
      /\ search'.limit = n
      /\ SearchKeys \subseteq DOMAIN search'
      /\ Built(search')
  BY <1>1, <1>2, <1>4 DEF KeysInv, SearchKeys, SearchedInv, Built
<1>7. AskingInv'
  <2>1. Sized(asked, turns + 1)
    BY <1>1, <1>2, <1>3 DEF AskingInv, Sized
  <2>. QED  BY <1>1, <1>2, <2>1 DEF AskingInv
<1>8. ParamedInv'
  BY <1>1, <1>2, <1>5 DEF ParamedInv, Paramed
<1>9. SearchedInv'
  BY <1>1, <1>2, <1>6 DEF SearchedInv, Searched, SelectOf, Ordered
<1>10. NumberInv'
  <2>1. Numbered(params, asked.paging, asked, turns)
        /\ Numbered(search, Style("postgrest", asked), asked, turns)
    BY <1>1, <1>2 DEF NumberInv, ById, Many
  <2>2. Numbered(params', asked.paging, asked, turns + 1)
    BY <1>2, <1>3, <1>4, <1>5, <2>1 DEF Numbered, n
  <2>3. search'.page = Null
    BY <1>6 DEF Built
  <2>4. Numbered(search', Style("postgrest", asked), asked, turns + 1)
    BY <1>2, <1>3, <1>6, <2>3 DEF Numbered, Style, n
  <2>. QED  BY <1>2, <2>2, <2>4 DEF NumberInv
<1>. QED  BY <1>1, <1>2, <1>5, <1>6, <1>7, <1>8, <1>9, <1>10 DEF ProgramInv, KeysInv

-----------------------------------------------------------------------------
(* What the answers are and what has been seen.                            *)

ReadLane == {"nestjsx", "postgrest"}

\* The query of a lane asks for what the service cannot answer, on any page.
RefusedNow(lane) ==
    IF lane = "nestjsx" THEN Refused(BuildQueryParams(params), "nestjsx", setting)
    ELSE Refused(search, Guessed(search, setting.pinned), setting)

PagesSeen(lane) == IF answers[lane] = <<>> THEN turns ELSE turns + 1

LaneInv(lane) ==
    /\ Ok(lane) /\ ~ById => Told(lane, Style(lane, asked), asked, setting, turns, answers[lane][1])
    /\ Ok(lane) /\ Many(asked) => ~RefusedNow(lane)
    /\ turns = 0 /\ answers[lane] = <<>> => seen[lane] = <<>>
    /\ Turns(Style(lane, asked), asked, setting) /\ ~RefusedNow(lane) =>
          Pages(seen[lane], lane, asked, setting, PagesSeen(lane))

\* findOne is the last call on a builder.
OneInv == asked.one => answers # NoAnswers /\ answers["postgrest"] = <<>>

MeaningInv == ProgramInv /\ OneInv /\ \A lane \in ReadLane : LaneInv(lane)

LEMMA StyleIs ==
    ASSUME NEW ask
    PROVE  /\ Style("nestjsx", ask) = ask.paging
           /\ ask.paging \in {"none", "page", "offset"} =>
                Style("postgrest", ask) \in {"none", "offset"}
           /\ \A lane : (Style(lane, ask) = "none") <=> (ask.paging = "none")
BY DEF Style

LEMMA LaneCleared ==
    ASSUME PlainSettings, (setting \in Setting)', ProgramInv', turns' = 0, NEW lane,
           answers'[lane] = <<>>, seen'[lane] = <<>>
    PROVE  LaneInv(lane)'
<1>1. ~Ok(lane)'
  BY DEF Ok
<1>2. PagesSeen(lane)' = 0
  BY DEF PagesSeen
<1>3. ASSUME Turns(Style(lane, asked'), asked', setting')
      PROVE  Pages(seen'[lane], lane, asked', setting', 0)
  <2>1. PageSize(asked', setting') \in Nat
    <3>1. Sized(asked', turns') /\ asked'.paging # "none"
      BY <1>3 DEF ProgramInv, AskingInv, Turns
    <3>2. asked'.size # Null
      BY <3>1 DEF Sized
    <3>. QED  BY <3>1, <3>2, PageNumberFacts
  <2>. QED  BY <2>1, NoPages
<1>. QED  BY <1>1, <1>2, <1>3 DEF LaneInv

LEMMA LaneStays ==
    ASSUME asked' = asked, params' = params, search' = search, setting' = setting, turns' = turns,
           NEW lane, answers'[lane] = answers[lane], seen'[lane] = seen[lane], LaneInv(lane)
    PROVE  LaneInv(lane)'
<1>1. (Ok(lane)' <=> Ok(lane)) /\ (ById' <=> ById) /\ (RefusedNow(lane)' <=> RefusedNow(lane))
      /\ PagesSeen(lane)' = PagesSeen(lane)
  BY DEF Ok, ById, RefusedNow, PagesSeen
<1>. QED  BY <1>1 DEF LaneInv

LEMMA LaneAnswered ==
    ASSUME PlainSettings, setting \in Setting, ProgramInv,
           asked' = asked, params' = params, search' = search, setting' = setting, turns' = turns,
           asked.one = FALSE,
           NEW lane \in ReadLane, answers[lane] = <<>>, LaneInv(lane), NEW a,
           Succeeds(a) => Told(lane, Style(lane, asked), asked, setting, turns, a)
                          /\ ~RefusedNow(lane),
           asked.paging # "none" /\ ~RefusedNow(lane) => Succeeds(a),
           answers'[lane] = <<a>>, seen'[lane] = seen[lane] \o a.rows
    PROVE  LaneInv(lane)'
<1>1. /\ answers'[lane] # <<>> /\ answers'[lane][1] = a
      /\ Ok(lane)' <=> Succeeds(a)
  BY DEF Ok, Succeeds
<1>2. RefusedNow(lane)' <=> RefusedNow(lane)
  BY DEF RefusedNow
<1>3. PagesSeen(lane) = turns /\ PagesSeen(lane)' = turns + 1
  BY <1>1 DEF PagesSeen
<1>4. ASSUME Turns(Style(lane, asked), asked, setting), ~RefusedNow(lane)
      PROVE  Pages(seen'[lane], lane, asked, setting, turns + 1)
  <2>1. asked.paging # "none" /\ OneSort(asked) /\ Sized(asked, turns)
    BY <1>4 DEF Turns, ProgramInv, AskingInv
  <2>2. Told(lane, Style(lane, asked), asked, setting, turns, a)
    BY <1>4, <2>1
  <2>3. Pages(seen[lane], lane, asked, setting, turns)
    BY <1>3, <1>4 DEF LaneInv
  <2>4. Pages(seen[lane] \o a.rows, lane, asked, setting, turns + 1)
    BY <1>4, <2>1, <2>2, <2>3, NextPage DEF ReadLane
  <2>. QED  BY <2>4
<1>. QED  BY <1>1, <1>2, <1>3, <1>4 DEF LaneInv

LEMMA RefusedStays ==
    ASSUME setting' = setting, NEW lane \in ReadLane,
           SameQuery(BuildQueryParams(params), BuildQueryParams(params')),
           SameQuery(search, search'), search'.select = search.select,
           search'.order = search.order, search'.cols = search.cols,
           search'.orGroup = search.orGroup, search'.andGroup = search.andGroup,
           search'.page = search.page
    PROVE  RefusedNow(lane)' <=> RefusedNow(lane)
<1>. DEFINE q == BuildQueryParams(params)
            r == BuildQueryParams(params')
            d == Guessed(search, setting.pinned)
<1>1. CASE lane = "nestjsx"
  <2>1. /\ q.select = r.select /\ q.order = r.order /\ q.cols = r.cols
        /\ q.orGroup = r.orGroup /\ q.andGroup = r.andGroup
    BY BuiltQuery
  <2>. HIDE DEF q, r
  <2>2. Refused(q, "nestjsx", setting) <=> Refused(r, "nestjsx", setting)
    BY <2>1, RefusedAlike DEF q, r
  <2>. QED  BY <1>1, <2>2 DEF RefusedNow, q, r
<1>2. CASE lane = "postgrest"
  <2>1. Guessed(search', setting.pinned) = d /\ d \in {"nestjsx", "postgrest", "ambiguous"}
    BY GuessedIs DEF SameQuery
  <2>. HIDE DEF d
  <2>2. Refused(search, d, setting) <=> Refused(search', d, setting)
    BY <2>1, RefusedAlike
  <2>3. RefusedNow(lane) <=> Refused(search, d, setting)
    BY <1>2 DEF RefusedNow, d
  <2>4. RefusedNow(lane)' <=> Refused(search', d, setting)
    BY <1>2, <2>1 DEF RefusedNow
  <2>. QED  BY <2>2, <2>3, <2>4
<1>. QED  BY <1>1, <1>2 DEF ReadLane

LEMMA LaneTurned ==
    ASSUME ProgramInv, TurnPage, NEW lane \in ReadLane, LaneInv(lane)
    PROVE  LaneInv(lane)'
<1>1. /\ turns' = turns + 1 /\ turns \in Nat /\ asked' = asked /\ setting' = setting /\ seen' = seen
      /\ answers' = NoAnswers /\ answers[lane] # <<>>
      /\ params' = IF asked.paging = "page" THEN [params EXCEPT !.page = @ + 1]
                   ELSE [params EXCEPT !.offset = @ + asked.size]
      /\ search' = [search EXCEPT !.offset = (turns + 1) * asked.size,
                        !.limit = ((turns + 2) * asked.size - 1) - (turns + 1) * asked.size + 1]
  BY DEF TurnPage, SetRange, ReadLane, ProgramInv, AskingInv, Sized
<1>2. answers'[lane] = <<>>
  BY <1>1 DEF NoAnswers, Lane, ReadLane
<1>3. KeysInv
  BY DEF ProgramInv
<1>4. /\ params'.filter = params.filter /\ params'.or = params.or /\ params'.join = params.join
      /\ params'.fields = params.fields /\ params'.sort = params.sort
  BY <1>1, <1>3 DEF KeysInv, ParamKeys
<1>5. SameQuery(BuildQueryParams(params), BuildQueryParams(params'))
  <2>. DEFINE q == BuildQueryParams(params)
              r == BuildQueryParams(params')
  <2>1. /\ q.fields = params.fields /\ q.filter = FilterTokens(params.filter)
        /\ q.or = FilterTokens(params.or) /\ q.join = JoinTokens(params.join)
        /\ q.sort = params.sort /\ q.s = <<>>
    BY BuiltQuery
  <2>2. /\ r.fields = params'.fields /\ r.filter = FilterTokens(params'.filter)
        /\ r.or = FilterTokens(params'.or) /\ r.join = JoinTokens(params'.join)
        /\ r.sort = params'.sort /\ r.s = <<>>
    BY BuiltQuery
  <2>. HIDE DEF q, r
  <2>3. SameQuery(q, r)
    BY <1>4, <2>1, <2>2 DEF SameQuery
  <2>. QED  BY <2>3 DEF q, r
<1>6. /\ SameQuery(search, search') /\ search'.select = search.select
      /\ search'.order = search.order /\ search'.cols = search.cols
      /\ search'.orGroup = search.orGroup /\ search'.andGroup = search.andGroup
      /\ search'.page = search.page
  BY <1>1, <1>3 DEF KeysInv, SearchKeys, SameQuery
<1>7. RefusedNow(lane)' <=> RefusedNow(lane)
  BY <1>1, <1>5, <1>6, RefusedStays
<1>8. ~Ok(lane)' /\ turns' # 0 /\ PagesSeen(lane)' = turns + 1 /\ PagesSeen(lane) = turns + 1
  BY <1>1, <1>2 DEF Ok, PagesSeen
<1>. QED  BY <1>1, <1>7, <1>8 DEF LaneInv

LEMMA ProgramStays ==
    ASSUME ProgramInv, asked' = asked, params' = params, search' = search, turns' = turns
    PROVE  ProgramInv'
BY DEF ProgramInv, KeysInv, AskingInv, ParamedInv, SearchedInv, NumberInv, ById

\* The entries of answers and seen after a request of one lane.
LEMMA LaneEntries ==
    ASSUME Inv, TypeInv, NEW lane \in Lane, NEW a, NEW rows,
           answers' = [answers EXCEPT ![lane] = <<a>>], seen' = [seen EXCEPT ![lane] = rows]
    PROVE  /\ answers'[lane] = <<a>> /\ seen'[lane] = rows
           /\ \A l \in Lane : l # lane => answers'[l] = answers[l] /\ seen'[l] = seen[l]
BY DEF Inv, AnswersInv, TypeInv, SeenType

LEMMA CallMeaning ==
    ASSUME PlainSettings, MeaningInv, (setting \in Setting)', Calling, ProgramInv',
           asked'.one = asked.one
    PROVE  MeaningInv'
<1>1. /\ turns' = 0 /\ answers' = NoAnswers /\ seen' = seen /\ answers = NoAnswers /\ turns = 0
  BY DEF Calling
<1>2. \A lane \in ReadLane : NoAnswers[lane] = <<>>
  BY DEF NoAnswers, Lane, ReadLane
<1>3. \A lane \in ReadLane : seen[lane] = <<>>
  BY <1>1, <1>2 DEF MeaningInv, LaneInv
<1>4. \A lane \in ReadLane : LaneInv(lane)'
  BY <1>1, <1>2, <1>3, LaneCleared
<1>5. OneInv'
  BY <1>1 DEF MeaningInv, OneInv
<1>. QED  BY <1>4, <1>5 DEF MeaningInv

LEMMA FindManyMeaning ==
    ASSUME PlainSettings, Inv, TypeInv, MeaningInv, FindMany
    PROVE  MeaningInv'
<1>1. PICK a \in Served(BuildQueryParams(params), DetectDialect(BuildQueryParams(params), ""), Null) :
          Answered("nestjsx", a)
  BY DEF FindMany
<1>2. /\ asked' = asked /\ params' = params /\ search' = search /\ setting' = setting
      /\ turns' = turns /\ ~asked.one /\ asked.one \in BOOLEAN /\ answers["nestjsx"] = <<>>
      /\ answers' = [answers EXCEPT !["nestjsx"] = <<a>>]
      /\ seen' = [seen EXCEPT !["nestjsx"] = seen["nestjsx"] \o a.rows]
  BY <1>1 DEF FindMany, Answered, MeaningInv, ProgramInv, AskingInv
<1>3. /\ answers'["nestjsx"] = <<a>> /\ seen'["nestjsx"] = seen["nestjsx"] \o a.rows
      /\ answers'["postgrest"] = answers["postgrest"] /\ seen'["postgrest"] = seen["postgrest"]
  BY <1>2, LaneEntries DEF Lane
<1>4. ProgramInv /\ setting \in Setting /\ LaneInv("nestjsx") /\ LaneInv("postgrest")
  BY DEF MeaningInv, Inv, ReadLane
<1>5. /\ Programmed(asked) /\ OneSort(asked) /\ Sized(asked, turns)
      /\ Paramed(params, asked) /\ params.sort = asked.sort
      /\ Numbered(params, asked.paging, asked, turns)
  BY <1>2, <1>4 DEF ProgramInv, AskingInv, ParamedInv, NumberInv, ById
<1>6. /\ Succeeds(a) <=> ~Refused(BuildQueryParams(params), "nestjsx", setting)
      /\ Succeeds(a) => Told("nestjsx", asked.paging, asked, setting, turns, a)
  BY <1>4, <1>5, NestjsxServed
<1>7. LaneInv("nestjsx")'
  <2>1. Succeeds(a) => Told("nestjsx", Style("nestjsx", asked), asked, setting, turns, a)
                       /\ ~RefusedNow("nestjsx")
    BY <1>6, StyleIs DEF RefusedNow
  <2>2. ~RefusedNow("nestjsx") => Succeeds(a)
    BY <1>6 DEF RefusedNow
  <2>3. "nestjsx" \in ReadLane /\ asked.one = FALSE
    BY <1>2 DEF ReadLane
  <2>. QED  BY <1>2, <1>3, <1>4, <2>1, <2>2, <2>3, LaneAnswered
<1>8. LaneInv("postgrest")'
  BY <1>2, <1>3, <1>4, LaneStays
<1>9. ProgramInv'
  BY <1>2, <1>4, ProgramStays
<1>. QED  BY <1>2, <1>7, <1>8, <1>9 DEF MeaningInv, OneInv, ReadLane

LEMMA ExecuteMeaning ==
    ASSUME PlainSettings, Inv, TypeInv, MeaningInv, NEW mode, Execute(mode)
    PROVE  MeaningInv'
<1>. DEFINE d == Guessed(search, setting.pinned)
<1>1. PICK b \in Served(search, d, Null) : Answered("postgrest", SingleResult(mode, b))
  BY DEF Execute, Guessed
<1>. DEFINE a == SingleResult(mode, b)
<1>2. /\ asked' = asked /\ params' = params /\ search' = search /\ setting' = setting
      /\ turns' = turns /\ ~asked.one /\ asked.one \in BOOLEAN /\ answers["postgrest"] = <<>>
      /\ mode # "many" => asked.paging = "none"
      /\ answers' = [answers EXCEPT !["postgrest"] = <<a>>]
      /\ seen' = [seen EXCEPT !["postgrest"] = seen["postgrest"] \o a.rows]
  BY <1>1 DEF Execute, Answered, MeaningInv, ProgramInv, AskingInv
<1>3. /\ answers'["postgrest"] = <<a>> /\ seen'["postgrest"] = seen["postgrest"] \o a.rows
      /\ answers'["nestjsx"] = answers["nestjsx"] /\ seen'["nestjsx"] = seen["nestjsx"]
  <2>. HIDE DEF a
  <2>. QED  BY <1>2, LaneEntries DEF Lane
<1>4. ProgramInv /\ setting \in Setting /\ LaneInv("nestjsx") /\ LaneInv("postgrest")
  BY DEF MeaningInv, Inv, ReadLane
<1>5. /\ Programmed(asked) /\ OneSort(asked) /\ Sized(asked, turns) /\ Many(asked)
      /\ Built(search) /\ Searched(search, asked) /\ Ordered(search, asked)
      /\ Numbered(search, Style("postgrest", asked), asked, turns)
  BY <1>2, <1>4 DEF ProgramInv, AskingInv, SearchedInv, NumberInv, Many
<1>6. /\ IsFull(b)
      /\ Succeeds(b) <=> ~Refused(search, d, setting)
      /\ Succeeds(b) => Told("postgrest", Style("postgrest", asked), asked, setting, turns, b)
  BY <1>4, <1>5, PostgrestServed
<1>7. RefusedNow("postgrest") <=> Refused(search, d, setting)
  BY DEF RefusedNow
<1>8. (Succeeds(a) => a = b) /\ (mode = "many" => a = b)
  <2>1. mode = "many" => a = b
    BY DEF SingleResult
  <2>2. Succeeds(a) => a = b
    BY <1>6, SingleIs
  <2>. QED  BY <2>1, <2>2
<1>. HIDE DEF a, d
<1>9. LaneInv("postgrest")'
  <2>1. Succeeds(a) => Told("postgrest", Style("postgrest", asked), asked, setting, turns, a)
                       /\ ~RefusedNow("postgrest")
    BY <1>6, <1>7, <1>8
  <2>2. asked.paging # "none" /\ ~RefusedNow("postgrest") => Succeeds(a)
    BY <1>2, <1>6, <1>7, <1>8
  <2>3. "postgrest" \in ReadLane /\ asked.one = FALSE
    BY <1>2 DEF ReadLane
  <2>. QED  BY <1>2, <1>3, <1>4, <2>1, <2>2, <2>3, LaneAnswered
<1>10. LaneInv("nestjsx")'
  BY <1>2, <1>3, <1>4, LaneStays
<1>11. ProgramInv'
  BY <1>2, <1>4, ProgramStays
<1>. QED  BY <1>2, <1>9, <1>10, <1>11 DEF MeaningInv, OneInv, ReadLane

LEMMA FindOneMeaning ==
    ASSUME PlainSettings, Inv, TypeInv, MeaningInv, FindOne
    PROVE  MeaningInv'
<1>. DEFINE byId == /\ Len(params.filter) = 1
                    /\ params.filter[1].field = <<<<>>, PrimaryKey>>
                    /\ params.filter[1].op = "$eq"
<1>1. /\ answers = NoAnswers /\ turns = 0 /\ turns' = turns /\ search' = search
      /\ setting' = setting /\ asked' = [asked EXCEPT !.one = TRUE]
  BY DEF FindOne
<1>2. /\ ~byId => params' = [params EXCEPT !.limit = 1]
      /\ byId => params' = params
      /\ \E a : /\ answers' = [answers EXCEPT !["nestjsx"] = <<
                       [a EXCEPT !.rows = SubSeq(@, 1, Least(1, Len(@)))]>>]
                /\ seen' = [seen EXCEPT !["nestjsx"] = a.rows]
                /\ ~byId => a \in Served(BuildQueryParams(params'),
                                         DetectDialect(BuildQueryParams(params'), ""), Null)
  <2>1. CASE byId
    BY <2>1 DEF FindOne
  <2>2. CASE ~byId
    BY <2>2 DEF FindOne
  <2>. QED  BY <2>1, <2>2
<1>3. PICK a : /\ answers' = [answers EXCEPT !["nestjsx"] = <<
                       [a EXCEPT !.rows = SubSeq(@, 1, Least(1, Len(@)))]>>]
               /\ seen' = [seen EXCEPT !["nestjsx"] = a.rows]
               /\ ~byId => a \in Served(BuildQueryParams(params'),
                                        DetectDialect(BuildQueryParams(params'), ""), Null)
  BY <1>2
<1>. DEFINE b == [a EXCEPT !.rows = SubSeq(@, 1, Least(1, Len(@)))]
<1>4. /\ answers'["nestjsx"] = <<b>> /\ answers'["postgrest"] = <<>>
      /\ seen'["postgrest"] = seen["postgrest"]
  <2>1. answers["postgrest"] = <<>>
    BY <1>1 DEF NoAnswers, Lane
  <2>2. answers' = [answers EXCEPT !["nestjsx"] = <<b>>]
    BY <1>3
  <2>. HIDE DEF b
  <2>. QED  BY <1>3, <2>1, <2>2, LaneEntries DEF Lane
<1>5. ProgramInv /\ KeysInv /\ setting \in Setting /\ LaneInv("postgrest")
      /\ asked.one \in BOOLEAN /\ asked.one = FALSE
  BY <1>1 DEF MeaningInv, Inv, ReadLane, ProgramInv, AskingInv, OneInv
<1>6. asked'.one = TRUE /\ asked'.paging = asked.paging
  BY <1>1, <1>5 DEF KeysInv, AskKeys
<1>7. ById' <=> byId
  <2>1. params'.filter = params.filter
    BY <1>2, <1>5 DEF KeysInv, ParamKeys
  <2>. QED  BY <1>6, <2>1 DEF ById
<1>8. ProgramInv'
  BY <1>1, <1>2, <1>5, <1>7, AskedOne
<1>. HIDE DEF byId, b
<1>9. ~Many(asked') /\ ~Turns(Style("nestjsx", asked'), asked', setting')
      /\ ~Turns(Style("postgrest", asked'), asked', setting')
  BY <1>6 DEF Many, Turns
<1>10. ASSUME ~byId, Succeeds(b)
       PROVE  Told("nestjsx", asked'.paging, asked', setting, 0, b)
  <2>1. /\ Programmed(asked') /\ OneSort(asked') /\ Sized(asked', 0)
        /\ Paramed(params', asked') /\ params'.sort = asked'.sort
        /\ Numbered(params', asked'.paging, asked', 0)
    BY <1>1, <1>7, <1>8, <1>10 DEF ProgramInv, AskingInv, ParamedInv, NumberInv
  <2>2. a \in Served(BuildQueryParams(params'), DetectDialect(BuildQueryParams(params'), ""), Null)
    BY <1>3, <1>10
  <2>3. IsFull(a) /\ (Succeeds(a) => Told("nestjsx", asked'.paging, asked', setting, 0, a))
    BY <1>5, <2>1, <2>2, NestjsxServed
  <2>4. Succeeds(a)
    <3>1. b.status = a.status
      BY <2>3 DEF IsFull, b
    <3>. QED  BY <1>10, <3>1 DEF Succeeds
  <2>5. asked'.paging \in {"none", "page", "offset"}
    BY <2>1 DEF Sized
  <2>. QED  BY <1>5, <1>6, <2>1, <2>3, <2>4, <2>5, FirstTold DEF b
<1>11. LaneInv("nestjsx")'
  <2>1. answers'["nestjsx"] # <<>> /\ answers'["nestjsx"][1] = b /\ (Ok("nestjsx")' <=> Succeeds(b))
    BY <1>4 DEF Ok, Succeeds
  <2>2. Style("nestjsx", asked') = asked'.paging /\ turns' = 0
    BY <1>1, StyleIs
  <2>. QED  BY <1>1, <1>7, <1>9, <1>10, <2>1, <2>2 DEF LaneInv
<1>12. LaneInv("postgrest")'
  <2>1. ~Ok("postgrest")'
    BY <1>4 DEF Ok
  <2>2. seen["postgrest"] = <<>>
    BY <1>1, <1>5 DEF LaneInv, NoAnswers, Lane
  <2>. QED  BY <1>4, <1>9, <2>1, <2>2 DEF LaneInv
<1>13. OneInv'
  BY <1>4 DEF OneInv, NoAnswers, Lane
<1>. QED  BY <1>8, <1>11, <1>12, <1>13 DEF MeaningInv, ReadLane

LEMMA RawMeaning ==
    ASSUME Inv, TypeInv, MeaningInv, NEW raw \in RawRequest, SendRaw(raw)
    PROVE  MeaningInv'
<1>1. PICK a : /\ answers' = [answers EXCEPT !["raw"] = <<a>>]
               /\ seen' = [seen EXCEPT !["raw"] = a.rows]
  BY DEF SendRaw
<1>2. /\ asked' = asked /\ params' = params /\ search' = search /\ setting' = setting
      /\ turns' = turns /\ answers = NoAnswers
  BY DEF SendRaw
<1>3. \A lane \in ReadLane : answers'[lane] = answers[lane] /\ seen'[lane] = seen[lane]
  BY <1>1, LaneEntries DEF Lane, ReadLane
<1>4. \A lane \in ReadLane : LaneInv(lane)'
  BY <1>2, <1>3, LaneStays DEF MeaningInv
<1>5. ProgramInv'
  BY <1>2, ProgramStays DEF MeaningInv
<1>. QED  BY <1>2, <1>4, <1>5 DEF MeaningInv, OneInv

LEMMA MeaningInit == ASSUME PlainSettings PROVE Init => MeaningInv
<1>. SUFFICES ASSUME Init PROVE MeaningInv
  OBVIOUS
<1>1. ProgramInv
  BY FreshProgram DEF Init
<1>2. asked.one = FALSE
  BY FreshFacts DEF Init
<1>3. setting \in Setting /\ turns = 0 /\ \A lane \in ReadLane : answers[lane] = <<>> /\ seen[lane] = <<>>
  BY DEF Init, NoAnswers, Lane, ReadLane
<1>4. ASSUME NEW lane \in ReadLane PROVE LaneInv(lane)
  <2>1. ~Ok(lane) /\ PagesSeen(lane) = 0 /\ seen[lane] = <<>>
    BY <1>3 DEF Ok, PagesSeen
  <2>2. ~Turns(Style(lane, asked), asked, setting)
    <3>1. asked.paging = "none"
      BY DEF Init, NothingAsked
    <3>. QED  BY <3>1 DEF Turns
  <2>. QED  BY <2>1, <2>2 DEF LaneInv
<1>. QED  BY <1>1, <1>2, <1>4 DEF MeaningInv, OneInv

LEMMA MeaningStep ==
    ASSUME PlainPrograms, PlainSettings
    PROVE  Inv /\ TypeInv /\ MeaningInv /\ [Next]_vars => MeaningInv'
<1>. SUFFICES ASSUME Inv, TypeInv, MeaningInv, [Next]_vars PROVE MeaningInv'
  OBVIOUS
<1>0. (setting \in Setting)' /\ ProgramInv /\ KeysInv
  BY StepInv DEF Inv, MeaningInv, ProgramInv
<1>1. ASSUME Calling PROVE CallsBuilder
  BY <1>1 DEF Calling, CallsBuilder, MeaningInv, OneInv, ProgramInv, AskingInv
<1>2. ASSUME Calling, ProgramInv', asked'.one = asked.one PROVE MeaningInv'
  BY <1>0, <1>2, CallMeaning
<1>4. ASSUME NEW c \in AskCondition, AskWhere(c) PROVE MeaningInv'
  BY <1>0, <1>1, <1>2, <1>4, AskedWhere DEF AskWhere, KeysInv, AskKeys
<1>5. ASSUME NEW cs \in AskAny, AskOr(cs) PROVE MeaningInv'
  BY <1>0, <1>1, <1>2, <1>5, AskedOr DEF AskOr, KeysInv, AskKeys
<1>6. ASSUME NEW cs \in AskColumns, AskSelect(cs) PROVE MeaningInv'
  BY <1>0, <1>1, <1>2, <1>6, AskedSelect DEF AskSelect, KeysInv, AskKeys
<1>7. ASSUME NEW ps \in AskRelation, AskJoin(ps) PROVE MeaningInv'
  BY <1>0, <1>1, <1>2, <1>7, AskedJoin DEF AskJoin, KeysInv, AskKeys
<1>8. ASSUME NEW s \in AskOrder, AskSort(s) PROVE MeaningInv'
  BY <1>0, <1>1, <1>2, <1>8, AskedSort DEF AskSort, KeysInv, AskKeys
<1>9. ASSUME NEW n \in AskSize, AskLimit(n) PROVE MeaningInv'
  BY <1>0, <1>1, <1>2, <1>9, AskedLimit DEF AskLimit, KeysInv, AskKeys
<1>10. ASSUME NEW n \in AskSize, NEW style \in {"page", "offset"}, AskPages(n, style)
       PROVE  MeaningInv'
  BY <1>0, <1>1, <1>2, <1>10, AskedPages DEF AskPages, KeysInv, AskKeys
<1>11. ASSUME FindMany PROVE MeaningInv'
  BY <1>11, FindManyMeaning
<1>12. ASSUME NEW mode \in {"many", "single", "maybe"}, Execute(mode) PROVE MeaningInv'
  BY <1>12, ExecuteMeaning
<1>13. ASSUME FindOne PROVE MeaningInv'
  BY <1>13, FindOneMeaning
<1>14. ASSUME NEW raw \in RawRequest, SendRaw(raw) PROVE MeaningInv'
  BY <1>14, RawMeaning
<1>15. ASSUME TurnPage PROVE MeaningInv'
  <2>1. \A lane \in ReadLane : LaneInv(lane)'
    BY <1>0, <1>15, LaneTurned DEF MeaningInv
  <2>2. OneInv'
    BY <1>15 DEF TurnPage, OneInv
  <2>. QED  BY <1>0, <1>15, <2>1, <2>2, AskedNext DEF MeaningInv
<1>16. ASSUME NewQuery PROVE MeaningInv'
  <2>1. /\ asked' = NothingAsked /\ params' = NoParams /\ search' = NoQuery /\ turns' = 0
        /\ answers' = NoAnswers /\ seen' = [lane \in Lane |-> <<>>]
    BY <1>16 DEF NewQuery
  <2>2. ProgramInv'
    BY <2>1, FreshProgram
  <2>3. \A lane \in ReadLane : answers'[lane] = <<>> /\ seen'[lane] = <<>>
    BY <2>1 DEF NoAnswers, Lane, ReadLane
  <2>4. \A lane \in ReadLane : LaneInv(lane)'
    BY <1>0, <2>1, <2>2, <2>3, LaneCleared
  <2>5. OneInv'
    BY <2>1, FreshFacts DEF OneInv
  <2>. QED  BY <2>2, <2>4, <2>5 DEF MeaningInv
<1>17. ASSUME UNCHANGED vars PROVE MeaningInv'
  <2>1. \A lane \in ReadLane : LaneInv(lane)'
    BY <1>17, LaneStays DEF vars, MeaningInv
  <2>2. ProgramInv'
    BY <1>0, <1>17, ProgramStays DEF vars
  <2>. QED  BY <1>17, <2>1, <2>2 DEF vars, MeaningInv, OneInv
<1>. QED  BY <1>4, <1>5, <1>6, <1>7, <1>8, <1>9, <1>10, <1>11, <1>12, <1>13, <1>14,
             <1>15, <1>16, <1>17 DEF Next

-----------------------------------------------------------------------------
(* The theorems.  Their hypotheses are about the programs and the settings *)
(* alone; MCQueryPipeline assumes the same of the constants of the runs.   *)

\* The rows of a first page are those the calls on the builder mean, none
\* twice, as many as there is room for, in the order asked for, and no later
\* row instead of an earlier one (both parsers, buildSearch, applySort,
\* applyPagination).
THEOREM MeansWhatWasAsked ==
    ASSUME PlainPrograms, PlainSettings
    PROVE  Spec => []AnswersWhatWasAsked
<1>1. Inv /\ MeaningInv => AnswersWhatWasAsked
  <2>. SUFFICES ASSUME Inv, MeaningInv, NEW lane \in ReadLane, Ok(lane), turns = 0, ~ById
                PROVE  FirstPage(answers[lane][1].rows, lane, asked, setting)
    BY DEF AnswersWhatWasAsked, FirstPage, Before, ReadLane
  <2>1. setting \in Setting /\ OneSort(asked) /\ Sized(asked, 0)
    BY DEF Inv, MeaningInv, ProgramInv, AskingInv
  <2>2. Told(lane, Style(lane, asked), asked, setting, 0, answers[lane][1])
    BY DEF MeaningInv, LaneInv
  <2>3. /\ Style(lane, asked) \in {"none", "page", "offset"}
        /\ Style(lane, asked) # "none" => asked.paging # "none"
    BY <2>1, StyleIs DEF Sized, ReadLane
  <2>. QED  BY <2>1, <2>2, <2>3, ToldFirstPage DEF ReadLane
<1>. QED  BY InitInv, TypeInit, MeaningInit, StepInv, TypeStep, MeaningStep, <1>1, PTL DEF Spec

\* Both builders, asked for the same, bring the same rows with the same
\* columns and the same related rows: the two grammars feed one service.
THEOREM DialectsMeanTheSame ==
    ASSUME PlainPrograms, PlainSettings
    PROVE  Spec => []DialectsAgree
<1>1. Inv /\ MeaningInv => DialectsAgree
  <2>. DEFINE n == answers["nestjsx"][1]
              p == answers["postgrest"][1]
  <2>. SUFFICES ASSUME Inv, MeaningInv, Ok("nestjsx"), Ok("postgrest"), Comparable
                PROVE  /\ ToSet(n.rows) = ToSet(p.rows)
                       /\ n.columns = p.columns /\ n.joins = p.joins /\ n.related = p.related
    BY DEF DialectsAgree
  <2>1. /\ setting \in Setting /\ OneSort(asked) /\ Sized(asked, turns)
        /\ Programmed(asked) /\ asked.one \in BOOLEAN
    BY DEF Inv, MeaningInv, ProgramInv, AskingInv
  <2>2. Many(asked) /\ ~ById
    <3>1. ~asked.one
      BY DEF Ok, MeaningInv, OneInv
    <3>. QED  BY <3>1 DEF Many, ById
  <2>3. Alike(asked, setting)
    BY DEF Alike, Comparable
  <2>4. Told("nestjsx", asked.paging, asked, setting, turns, n)
    BY <2>2, StyleIs DEF MeaningInv, LaneInv, ReadLane
  <2>5. Told("postgrest", Style("postgrest", asked), asked, setting, turns, p)
    BY <2>2 DEF MeaningInv, LaneInv, ReadLane
  <2>6. \/ /\ turns = 0
           /\ Cardinality(Meant("nestjsx", asked, setting)) <= Room("postgrest", asked, setting)
        \/ /\ asked.size # Null
           /\ SortsByKey(asked)
           /\ asked.size <= OrElse(setting.opts.maxLimit, DefaultMaxLimit)
    BY DEF Comparable
  <2>. HIDE DEF n, p
  <2>. QED  BY <2>1, <2>2, <2>3, <2>4, <2>5, <2>6, DialectsTold
<1>. QED  BY InitInv, TypeInit, MeaningInit, StepInv, TypeStep, MeaningStep, <1>1, PTL DEF Spec

\* What has been seen when a page answers is the pages up to it.
LEMMA PagesSeenSoFar ==
    ASSUME PlainSettings, Inv, MeaningInv, NEW lane \in ReadLane, Turnable, Ok(lane),
           \/ PageSize(asked, setting) = asked.size
           \/ asked.paging = "page" /\ lane = "nestjsx"
    PROVE  /\ Len(seen[lane]) = Least((turns + 1) * PageSize(asked, setting),
                                      Cardinality(Meant(lane, asked, setting)))
           /\ ToSet(seen[lane]) \subseteq Meant(lane, asked, setting)
           /\ \A i, j \in DOMAIN seen[lane] : i < j =>
                 Before(seen[lane][i], seen[lane][j])
<1>1. setting \in Setting /\ OneSort(asked) /\ Sized(asked, turns) /\ turns + 1 \in Nat
  BY DEF Inv, MeaningInv, ProgramInv, AskingInv, Sized
<1>2. Many(asked) /\ ~ById
  BY DEF Turnable, Many, ById
<1>3. Told(lane, Style(lane, asked), asked, setting, turns, answers[lane][1])
  BY <1>2 DEF MeaningInv, LaneInv
<1>4. Turns(Style(lane, asked), asked, setting)
  <2>1. Style(lane, asked) = "page"
        \/ (Style(lane, asked) = "offset" /\ PageSize(asked, setting) = asked.size)
    BY <1>1 DEF Style, Sized, Turnable, ReadLane
  <2>. QED  BY <1>2, <2>1 DEF Turns, Turnable
<1>5. PagesSeen(lane) = turns + 1
  BY DEF PagesSeen, Ok
<1>6. Pages(seen[lane], lane, asked, setting, turns + 1)
  BY <1>2, <1>4, <1>5 DEF MeaningInv, LaneInv
<1>7. /\ Len(seen[lane]) = Least((turns + 1) * PageSize(asked, setting),
                                 Cardinality(Meant(lane, asked, setting)))
      /\ ToSet(seen[lane]) \subseteq Meant(lane, asked, setting)
      /\ \A i, j \in DOMAIN seen[lane] : i < j =>
            Precedes(seen[lane][i], seen[lane][j], SortAsked(asked))
  BY <1>1, <1>3, <1>4, <1>6, PagesArePartition
<1>. QED  BY <1>7 DEF Before

\* Turning pages in the order of the key brings every row once, in order and
\* without gaps, by page numbers or by offsets (parseOffset, applyPagination,
\* range).
THEOREM PagesMeanAll ==
    ASSUME PlainPrograms, PlainSettings
    PROVE  Spec => []PagesPartition
<1>1. Inv /\ MeaningInv => PagesPartition
  BY PagesSeenSoFar DEF PagesPartition, ReadLane
<1>. QED  BY InitInv, TypeInit, MeaningInit, StepInv, TypeStep, MeaningStep, <1>1, PTL DEF Spec

\* The envelope of a page counts the rows there are, and the last page it
\* names is the one after which every row has been seen (decidePagination,
\* getMany).
THEOREM PageCountMeansAll ==
    ASSUME PlainPrograms, PlainSettings
    PROVE  Spec => []PageCountIsExact
<1>1. Inv /\ MeaningInv => PageCountIsExact
  <2>. DEFINE n == answers["nestjsx"][1]
              ids == Meant("nestjsx", asked, setting)
              size == PageSize(asked, setting)
              k == turns + 1
              m == k * size
              length == Len(seen["nestjsx"])
  <2>. SUFFICES ASSUME Inv, MeaningInv, Turnable, asked.paging = "page", Ok("nestjsx")
                PROVE  /\ n.envelope /\ n.page = k /\ n.total = Cardinality(ids)
                       /\ (k >= n.pageCount) <=> (length = n.total)
    BY DEF PageCountIsExact
  <2>1. setting \in Setting /\ OneSort(asked) /\ Sized(asked, turns) /\ ~asked.one /\ ~ById
    BY DEF Inv, MeaningInv, ProgramInv, AskingInv, Turnable, ById
  <2>2. size \in Nat \ {0} /\ k \in Nat /\ m \in Nat
    <3>1. size \in Nat \ {0} /\ k \in Nat
      BY <2>1, PageNumberFacts DEF Sized
    <3>. HIDE DEF size, k
    <3>. QED  BY <3>1
  <2>3. ids \in SUBSET DOMAIN Rows /\ Cardinality(ids) \in Nat
    BY MeantRows
  <2>4. Told("nestjsx", "page", asked, setting, turns, n)
    BY <2>1, StyleIs DEF MeaningInv, LaneInv, ReadLane
  <2>5. PICK s \in Orderings(ids, SortAsked(asked)) :
             n.envelope /\ n.page = k /\ n.total = Len(s) /\ n.pageCount = PageCount(Len(s), size)
    BY <2>1, <2>4 DEF Told
  <2>10. SortKnown(asked)
    BY <2>4 DEF Told
  <2>6. length = Least(m, Cardinality(ids))
    BY PagesSeenSoFar DEF ReadLane
  <2>. HIDE DEF n, ids, size, k, length
  <2>7. Len(s) = Cardinality(ids)
    BY <2>1, <2>3, <2>5, <2>10, OrderingIs
  <2>8. k >= n.pageCount <=> m >= Cardinality(ids)
    BY <2>2, <2>3, <2>5, <2>7, PageCountBound
  <2>. HIDE DEF m
  <2>9. length = Cardinality(ids) <=> m >= Cardinality(ids)
    BY <2>2, <2>3, <2>6 DEF Least
  <2>. QED  BY <2>5, <2>7, <2>8, <2>9
<1>. QED  BY InitInv, TypeInit, MeaningInit, StepInv, TypeStep, MeaningStep, <1>1, PTL DEF Spec
=============================================================================
