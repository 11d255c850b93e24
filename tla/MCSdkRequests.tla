--------------------------- MODULE MCSdkRequests ----------------------------
(***************************************************************************)
(* Two calls on a table with two rows of the caller and one of somebody    *)
(* else: PUTs and PATCHes of different columns, bodies that claim a key or *)
(* an owner, creates, a bulk create, deletes and cached gets.              *)
(***************************************************************************)
EXTENDS SdkRequests

CONSTANTS c1, c2

MCColumn == {"id", "a", "b", "owner"}

Row(id, owner) == [id |-> id, a |-> 0, b |-> 0, owner |-> owner]

MCInitialRows == {Row(1, 1), Row(2, 1), Row(3, 2)}

MCOwner == [owner |-> 1]

Asks(op, id, bodies, via) ==
    [op |-> op, id |-> id, bodies |-> bodies, client |-> via, dialect |-> "nestjsx",
     useCache |-> FALSE, cacheDuration |-> 0]

Postgrest(asks) == [asks EXCEPT !.dialect = "postgrest"]

Get(id) == Asks("getOne", id, <<>>, "fetch")
CachedGet(duration) == [Get(1) EXCEPT !.useCache = TRUE, !.cacheDuration = duration]

GetForeign == Asks("getOne", 3, <<>>, "axios")
Create == Asks("createOne", Null, <<[a |-> 1, owner |-> 2]>>, "fetch")
CreateKeyed == Postgrest(Asks("createOne", Null, <<[id |-> 2, a |-> 2]>>, "postgrest"))
CreateMany2 == Asks("createMany", Null, <<[a |-> 1], [b |-> 1]>>, "axios")
CreateNone == Asks("createMany", Null, <<>>, "axios")
PutA == Asks("replaceOne", 1, <<[a |-> 1, id |-> 2]>>, "fetch")
PutB == Asks("replaceOne", 1, <<[b |-> 1]>>, "axios")
Patch == Asks("updateOne", 1, <<[a |-> 2, id |-> 3]>>, "other")
PatchForeign == Postgrest(Asks("updateOne", 3, <<[b |-> 2]>>, "other"))
Remove == Asks("deleteOne", 1, <<>>, "fetch")
RemoveForeign == Asks("deleteOne", 3, <<>>, "axios")
Recover == Asks("recoverOne", 1, <<>>, "fetch")
List == Asks("getMany", Null, <<>>, "other")

\* Pairs that meet on a row, in the cache or in the key sequence, and requests
\* that are turned away beside one that is not.
MCPlan ==
    {[c \in Call |-> IF c = c1 THEN pair[1] ELSE pair[2]] : pair \in
        {<<CachedGet(1), CachedGet(2)>>, <<CachedGet(1), PutA>>, <<GetForeign, CreateMany2>>,
         <<Create, Create>>, <<Create, CreateMany2>>, <<CreateKeyed, PutA>>,
         <<CreateNone, RemoveForeign>>, <<PutA, PutB>>,
         <<PutA, PatchForeign>>, <<Patch, Remove>>,
         <<PutB, Remove>>, <<Recover, List>>, <<Postgrest(GetForeign), PatchForeign>>}}
=============================================================================
