-------------------------- MODULE MCQueryPipeline ---------------------------
(***************************************************************************)
(* Four rows with a relation `posts` and one below it, values that tie, a  *)
(* NULL, a text in capitals, the text "null" and a text with a comma; four *)
(* server configurations; and the calls and requests of programs.          *)
(***************************************************************************)
EXTENDS QueryPipeline

\* 5 is 4 in capitals, 8 the text "null", 9 a text that reads 1,2.
MCVal == {1, 2, 3, 4, 5, 8, 9}

MCLower == [v \in MCVal |-> IF v = 5 THEN 4 ELSE v]

\* 1 begins and 2 ends like 3; 4 and 5 hold each other's letters nowhere.
MCMatch ==
    [exact |-> [v \in MCVal |-> {v}],
     starts |-> [v \in MCVal |-> IF v = 1 THEN {1, 3, 9} ELSE {v}],
     ends |-> [v \in MCVal |-> IF v = 2 THEN {2, 3, 9} ELSE {v}],
     cont |-> [v \in MCVal |-> IF v \in {1, 2} THEN {v, 3, 9} ELSE {v}]]

MCPieces == [v \in MCVal |-> IF v = 9 THEN <<1, 2>> ELSE <<v>>]

MCRows ==
    <<[id |-> 1, kind |-> 3, owner |-> 1],
      [id |-> 2, kind |-> Null, owner |-> 1],
      [id |-> 3, kind |-> 1, owner |-> 2],
      [id |-> 4, kind |-> 5, owner |-> 1]>>

Posts == <<"posts">>
Authors == <<"posts", "author">>

Linked(owner, values) == [of |-> owner, row |-> values]

MCRelColumn == Posts :> {"id", "status"} @@ Authors :> {"id"}

MCRelated ==
    Posts :> <<Linked(1, [id |-> 1, status |-> 1]), Linked(1, [id |-> 2, status |-> 2]),
               Linked(3, [id |-> 3, status |-> 1])>>
    @@ Authors :> <<Linked(2, [id |-> 1])>>

MCScan == {<<1, 2, 3, 4>>, <<4, 2, 1, 3>>}

F(c) == <<<<>>, c>>
Cond(c, op, x) == Condition(F(c), op, <<x>>)
PostStatus(op, x) == Condition(<<Posts, "status">>, op, <<x>>)

-----------------------------------------------------------------------------
(* Server configurations.                                                  *)

JoinOption(eager, required, allow) ==
    [eager |-> eager, required |-> required, allow |-> allow]

NoAuth == [filter |-> <<>>, or |-> <<>>]

OwnRows == [NoAuth EXCEPT !.filter = FieldNode(Cond("owner", "$eq", 1))]

Plain ==
    [opts |-> [limit |-> Null, maxLimit |-> Null, alwaysPaginate |-> FALSE,
               filter |-> <<>>,
               join |-> Posts :> JoinOption(FALSE, FALSE, <<>>)
                        @@ Authors :> JoinOption(FALSE, FALSE, <<>>)],
     svc |-> [limit |-> Null, maxLimit |-> Null], auth |-> NoAuth, pinned |-> TRUE]

\* Small pages, eager posts, an auth filter, a proxy that drops the header.
Scoped ==
    [opts |-> [Plain.opts EXCEPT !.limit = 2, !.maxLimit = 2, !.alwaysPaginate = TRUE,
               !.join = Posts :> JoinOption(TRUE, FALSE, <<"status">>)],
     svc |-> [limit |-> 2, maxLimit |-> 3], auth |-> OwnRows, pinned |-> FALSE]

\* INNER JOIN, a controller filter, alternatives in auth.
Required ==
    [opts |-> [Plain.opts EXCEPT
               !.filter = <<FieldNode(Cond("kind", "$ne", 8))>>,
               !.join = Posts :> JoinOption(FALSE, TRUE, <<>>)],
     svc |-> [limit |-> 3, maxLimit |-> 1],
     auth |-> [OwnRows EXCEPT !.or = FieldNode(Cond("owner", "$eq", 2))],
     pinned |-> TRUE]

MCSetting == {Plain, Scoped, Required}

-----------------------------------------------------------------------------
(* Programs.                                                               *)

MCAskCondition ==
    {Cond("id", "$eq", 1), Cond("kind", "$gt", 1), Cond("kind", "$ne", 3),
     Condition(F("kind"), "$notin", <<3, 5>>), Cond("kind", "$isnull", Null),
     Cond("kind", "$starts", 1), Cond("owner", "$lte", 1),
     PostStatus("$eq", 2)}

MCAskAny ==
    {<<Cond("kind", "$notnull", Null), Cond("owner", "$eq", 2)>>,
     <<Condition(F("id"), "$in", <<2, 3>>)>>}

MCAskColumns == {<<"kind">>, <<"owner", "gone">>}

MCAskRelation == {<<Posts>>, <<Authors>>, <<Posts, Authors>>}

Sort(c, order) == <<[field |-> F(c), order |-> order]>>

MCAskOrder == {Sort("id", "ASC"), Sort("id", "DESC"), Sort("kind", "DESC")}

MCAskSize == {1, 2, 3}

-----------------------------------------------------------------------------
(* Requests no builder of the SDK writes.                                  *)

Raw(q) == [NoRequest EXCEPT !.q = q]

Pinned(q, dialect) == [Raw(q) EXCEPT !.header = dialect]

Eq(c, x) == Filter(F(c), FALSE, "eq", <<x>>)

SearchTree ==
    GroupNode("$or", <<GroupNode("$and", <<FieldNode(Cond("kind", "$contL", 1)),
                                          FieldNode(Cond("id", "$gte", 3))>>),
                       FieldNode(Cond("kind", "$eqL", 4))>>)

Token(c, op, parts, text) == [field |-> F(c), op |-> op, parts |-> parts, text |-> text]

MCRawRequest ==
    {Raw([NoQuery EXCEPT !.s = SearchTree]),
     Raw([NoQuery EXCEPT !.s = FieldNode(Condition(F("kind"), "$between", <<1, 3>>)),
                         !.filter = <<Token("id", "eq", 3, <<4>>)>>]),
     Raw([NoQuery EXCEPT !.filter = <<Token("kind", "in", 3, <<9, 5>>)>>]),
     Raw([NoQuery EXCEPT !.filter = <<Token("kind", "in", 3, <<8>>)>>]),
     Raw([NoQuery EXCEPT !.filter = <<Token("kind", "eqL", 3, <<4>>)>>]),
     Raw([NoQuery EXCEPT !.filter = <<Token("gone", "$eq", 3, <<1>>)>>]),
     Raw([NoQuery EXCEPT !.page = 0]),
     Raw([NoQuery EXCEPT !.page = 2, !.limit = 3]),
     Raw([NoQuery EXCEPT !.sort = <<[field |-> F("id"), order |-> "UP"]>>]),
     Raw([NoQuery EXCEPT !.join = <<[path |-> Authors, select |-> <<>>]>>,
                         !.cols = <<Eq("id", 1)>>]),
     Raw([NoQuery EXCEPT !.cols = <<Eq("gone", 1)>>]),
     Raw([NoQuery EXCEPT !.cols = <<Filter(F("id"), TRUE, "gt", <<1>>)>>]),
     Raw([NoQuery EXCEPT !.select = <<Embed(Posts, TRUE, <<"status">>)>>,
                         !.cols = <<Filter(<<Posts, "status">>, FALSE, "eq", <<1>>)>>]),
     Pinned([NoQuery EXCEPT !.andGroup = <<Branch("field", <<Eq("owner", 2)>>),
                 Branch("$or", <<Eq("id", 3), Eq("id", 1)>>)>>], "postgrest"),
     Pinned([NoQuery EXCEPT !.page = 1], "postgrest"),
     Pinned([NoQuery EXCEPT !.order = <<[field |-> F("kind"),
                 modifiers |-> <<"desc", "nullslast">>]>>, !.limit = 1], "postgrest"),
     [Raw([NoQuery EXCEPT !.fields = <<"kind">>]) EXCEPT !.id = 3],
     [Raw([NoQuery EXCEPT !.fields = <<"kind">>]) EXCEPT !.id = 9],
     [Pinned([NoQuery EXCEPT !.cols = <<Eq("owner", 1)>>], "postgrest") EXCEPT !.id = 3]}

-----------------------------------------------------------------------------

\* What the theorems about the meaning of queries suppose of programs and
\* settings is true of these.
ASSUME MCPlain == PlainPrograms /\ PlainSettings
=============================================================================
