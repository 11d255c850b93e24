---------------------------- MODULE SdkRequests -----------------------------
(***************************************************************************)
(* Programs calling a crud endpoint through ApsoClient: the request loop   *)
(* with its timeout and retries, the GET cache, and the server handling    *)
(* the attempts, each in the steps of its handler.                         *)
(*                                                                         *)
(* A call is one get/create/update/remove of a program; an attempt is one  *)
(* HTTP request of it.  An attempt the client has given up may still be    *)
(* handled.  Gateways fail or lose requests before or after that.          *)
(***************************************************************************)
EXTENDS RecordService

CONSTANTS
    Call,         \* calls
    Plan,         \* what the calls may be: c -> [op, id, bodies, client, dialect,
                  \* useCache, cacheDuration]
    Attempts,     \* retry.attempts of the clients that retry
    InitialRows,  \* the table at the start
    MaxFaults,    \* bound on what gateways fail and lose
    MaxClock      \* bound on the clock

ASSUME SdkRequestsAssumption ==
    /\ Attempts \in Nat \ {0}
    /\ MaxFaults \in Nat
    /\ MaxClock \in Nat

\* The rows at the start have the first keys of the sequence.
ASSUME TableAssumption ==
    /\ IsFiniteSet(InitialRows)
    /\ \A row \in InitialRows :
        /\ DOMAIN row = Column
        /\ row[PrimaryKey] \in 1..Cardinality(InitialRows)
    /\ \A row, other \in InitialRows : row[PrimaryKey] = other[PrimaryKey] => row = other

\* A program that brings a key brings one the sequence has passed, and none in
\* a bulk create.
ASSUME PlanAssumption ==
    \A p \in Plan : \A c \in Call :
        /\ p[c].bodies \in Seq({p[c].bodies[i] : i \in DOMAIN p[c].bodies})
        /\ \A i \in DOMAIN p[c].bodies : PrimaryKey \in DOMAIN p[c].bodies[i] =>
            /\ p[c].op # "createMany"
            /\ p[c].op = "createOne" =>
                    p[c].bodies[i][PrimaryKey] \in 1..Cardinality(InitialRows)

\* A cache belongs to one client, whose headers and with them its dialect are
\* those of all its calls.
ASSUME CacheAssumption ==
    \A p \in Plan : \A c, d \in Call :
        /\ p[c].useCache => p[c].cacheDuration \in Nat
        /\ p[c].useCache /\ p[d].useCache => p[c].dialect = p[d].dialect

VARIABLES
    plan,      \* plan[c]: what the program calls
    phase,     \* idle, waiting, reading (a body), sleeping, done or failed
    attempt,   \* number of the last attempt
    leg,       \* leg[c][n]: where attempt n of call c is
    result,    \* result[c]: what a call that is done returned
    cache,     \* the GET cache: id -> data and expiry
    clock,     \* ticks
    table,     \* the rows
    nextKey,   \* the key sequence of the table
    made,      \* made[c]: the attempts the server has carried out
    blind,     \* blind[c]: the attempts whose outcome the client did not learn
    faults     \* requests failed by a gateway or lost so far

client == <<plan, phase, attempt, result, cache, clock, blind>>
server == <<table, nextKey, made>>
vars == <<client, leg, server, faults>>

Nothing == [status |-> 0, data |-> {}]

\* row is the row a write has found, seen what its save has read.
Unsent == [stage |-> "unsent", row |-> <<>>, seen |-> {}, reply |-> Nothing]

Init ==
    /\ plan \in Plan
    /\ phase = [c \in Call |-> "idle"]
    /\ attempt = [c \in Call |-> 0]
    /\ leg = [c \in Call |-> [n \in 1..Attempts |-> Unsent]]
    /\ result = [c \in Call |-> Nothing]
    /\ cache = <<>>
    /\ clock = 0
    /\ table = InitialRows
    /\ nextKey = Cardinality(InitialRows) + 1
    /\ made = [c \in Call |-> {}]
    /\ blind = [c \in Call |-> {}]
    /\ faults = 0

-----------------------------------------------------------------------------
(* The client.                                                             *)

\* Only fetch and axios loop; the PostgREST transport and other clients send
\* a request once.
MaxAttempts(c) == IF plan[c].client \in {"fetch", "axios"} THEN Attempts ELSE 1

\* A response that is not ok: fetch retries on the configured statuses, axios
\* throws an error that is no timeout.
RetryStatus == {500, 503}

Retried(c, status) == plan[c].client = "fetch" /\ status \in RetryStatus

\* The entry answers until its expiry.
Fresh(id) == id \in DOMAIN cache /\ cache[id].expiry > clock

Cached(c) == plan[c].op = "getOne" /\ plan[c].useCache

Put(id, entry) == [i \in {id} \cup DOMAIN cache |-> IF i = id THEN entry ELSE cache[i]]

Send(c) ==
    /\ phase' = [phase EXCEPT ![c] = "waiting"]
    /\ attempt' = [attempt EXCEPT ![c] = @ + 1]
    /\ leg' = [leg EXCEPT ![c][attempt[c] + 1].stage = "sent"]
    /\ UNCHANGED <<plan, result, cache, clock, blind, server, faults>>

\* The call starts: a fresh cache entry, or the first attempt.
Hit(c) ==
    /\ phase[c] = "idle"
    /\ Cached(c)
    /\ Fresh(plan[c].id)
    /\ phase' = [phase EXCEPT ![c] = "done"]
    /\ result' = [result EXCEPT ![c] = [status |-> 200, data |-> cache[plan[c].id].data]]
    /\ UNCHANGED <<plan, attempt, cache, clock, blind, leg, server, faults>>

Start(c) ==
    /\ phase[c] = "idle"
    /\ ~(Cached(c) /\ Fresh(plan[c].id))
    /\ Send(c)

\* Sent again while the last attempt is still waited for.
ResendEarly(c) ==
    /\ phase[c] \in {"sleeping", "waiting"}
    /\ attempt[c] < MaxAttempts(c)
    /\ Send(c)

\* After the sleep between two attempts.
Resend(c) ==
    /\ phase[c] = "sleeping"
    /\ Send(c)

\* Without the bound on attempts.
AgainAlways(c) == "sleeping"

\* The next attempt, or the error is thrown.
Again(c) == IF attempt[c] < MaxAttempts(c) THEN "sleeping" ELSE "failed"

\* The answer to the current attempt.
Reply(c) == leg[c][attempt[c]].reply

\* The call returns what its answer brought, and a cached get keeps it.
Return(c) ==
    /\ phase' = [phase EXCEPT ![c] = "done"]
    /\ result' = [result EXCEPT ![c] = Reply(c)]
    /\ cache' = IF Cached(c)
                THEN Put(plan[c].id, [data |-> Reply(c).data,
                                      expiry |-> clock + plan[c].cacheDuration])
                ELSE cache

\* fetch resolves with the headers, and its timer is cleared before the body is
\* read; the other clients resolve with the whole answer.
Receive(c) ==
    /\ phase[c] = "waiting"
    /\ Reply(c) # Nothing
    /\ \/ /\ Reply(c).status = 200 /\ plan[c].client = "fetch"
          /\ phase' = [phase EXCEPT ![c] = "reading"]
          /\ UNCHANGED <<result, cache>>
       \/ /\ Reply(c).status = 200 /\ plan[c].client # "fetch"
          /\ Return(c)
       \/ /\ Reply(c).status # 200
          /\ phase' = [phase EXCEPT ![c] =
                IF Retried(c, Reply(c).status) THEN Again(c) ELSE "failed"]
          /\ UNCHANGED <<result, cache>>
    /\ blind' = [blind EXCEPT ![c] = IF Reply(c).status \in RetryStatus
                                                THEN @ \cup {attempt[c]} ELSE @]
    /\ UNCHANGED <<plan, attempt, clock, leg, server, faults>>

\* deleteOne returns undefined: the answer has no body.
EmptyBody(c) == plan[c].op = "deleteOne"

\* response.json() resolves, or throws on an empty body.
ReadBody(c) ==
    /\ phase[c] = "reading"
    /\ IF EmptyBody(c)
       THEN /\ phase' = [phase EXCEPT ![c] = "failed"]
            /\ UNCHANGED <<result, cache>>
       ELSE Return(c)
    /\ UNCHANGED <<plan, attempt, clock, blind, leg, server, faults>>

\* The clients of the SDK set a timer for every attempt.
Timed(c) == plan[c].client \in {"fetch", "axios", "postgrest"}

\* A timer that is not set again for the later attempts.
TimeoutOnce(c) ==
    /\ phase[c] = "waiting"
    /\ Timed(c)
    /\ attempt[c] = 1
    /\ phase' = [phase EXCEPT ![c] = Again(c)]
    /\ blind' = [blind EXCEPT ![c] = @ \cup {attempt[c]}]
    /\ UNCHANGED <<plan, attempt, result, cache, clock, leg, server, faults>>

\* The abort of fetch, ECONNABORTED of axios: retried whatever the method.
Timeout(c) ==
    /\ phase[c] = "waiting"
    /\ Timed(c)
    /\ phase' = [phase EXCEPT ![c] = Again(c)]
    /\ blind' = [blind EXCEPT ![c] = @ \cup {attempt[c]}]
    /\ UNCHANGED <<plan, attempt, result, cache, clock, leg, server, faults>>

\* A connection refused or reset, or a body cut off: thrown, never retried.
NetworkError(c) ==
    /\ phase[c] \in {"waiting", "reading"}
    /\ phase' = [phase EXCEPT ![c] = "failed"]
    /\ blind' = [blind EXCEPT ![c] = @ \cup {attempt[c]}]
    /\ UNCHANGED <<plan, attempt, result, cache, clock, leg, server, faults>>

ClearCache ==
    /\ cache # <<>>
    /\ cache' = <<>>
    /\ UNCHANGED <<plan, phase, attempt, result, clock, blind, leg, server, faults>>

\* Time matters to the entries of the cache only.
Tick ==
    /\ cache # <<>>
    /\ clock < MaxClock
    /\ clock' = clock + 1
    /\ UNCHANGED <<plan, phase, attempt, result, cache, blind, leg, server, faults>>

-----------------------------------------------------------------------------
(* The server.                                                             *)

\* The handler answers; the client may have been answered by a gateway.
Closed(c, n, status, data) ==
    LET reply == IF leg[c][n].reply = Nothing THEN [status |-> status, data |-> data]
                 ELSE leg[c][n].reply
    IN leg' = [leg EXCEPT ![c][n] =
                  [stage |-> "closed", row |-> <<>>, seen |-> {}, reply |-> reply]]

\* What the handler is given of the bodies sent.
BodiesOf(c) == IF HasBody(plan[c].op) THEN plan[c].bodies ELSE <<>>

Body(c) == IF BodiesOf(c) = <<>> THEN <<>> ELSE BodiesOf(c)[1]

\* No such route.
NotFound(c, n) ==
    /\ leg[c][n].stage = "sent"
    /\ ~Generated(plan[c].op)
    /\ Closed(c, n, 404, {})
    /\ UNCHANGED <<client, server, faults>>

\* A request arrives at its handler.
Handling(c, n, op) ==
    /\ leg[c][n].stage = "sent"
    /\ Generated(op)
    /\ plan[c].op = op

\* The rows a request may find.
TargetsOf(c) == Targets(table, plan[c].id, plan[c].dialect)

GetOne(c, n) ==
    /\ Handling(c, n, "getOne")
    /\ \/ TargetsOf(c) = {} /\ Closed(c, n, 404, {})
       \/ \E row \in TargetsOf(c) : Closed(c, n, 200, {row})
    /\ UNCHANGED <<client, server, faults>>

\* createOne of a body without a key is an INSERT.
CreateOne(c, n) ==
    /\ Handling(c, n, "createOne")
    /\ PrimaryKey \notin DOMAIN Body(c)
    /\ table' = table \cup {Inserted(Keyed(CreateBody(Body(c)), nextKey))}
    /\ nextKey' = nextKey + 1
    /\ made' = [made EXCEPT ![c] = @ \cup {n}]
    /\ Closed(c, n, 200, {})
    /\ UNCHANGED <<client, faults>>

\* All bodies in one transaction; an empty array is a 400.
CreateMany(c, n) ==
    /\ Handling(c, n, "createMany")
    /\ IF BodiesOf(c) = <<>>
       THEN Closed(c, n, 400, {}) /\ UNCHANGED server
       ELSE /\ table' = table \cup
                  {Inserted(Keyed(CreateBody(BodiesOf(c)[i]), nextKey + i - 1)) :
                       i \in DOMAIN BodiesOf(c)}
            /\ nextKey' = nextKey + Len(BodiesOf(c))
            /\ made' = [made EXCEPT ![c] = @ \cup {n}]
            /\ Closed(c, n, 200, {})
    /\ UNCHANGED <<client, faults>>

Writes == {"updateOne", "replaceOne", "deleteOne"}

\* updateOne, replaceOne and deleteOne look for the row first.
FindRow(c, n) ==
    /\ Handling(c, n, plan[c].op)
    /\ plan[c].op \in Writes
    /\ \/ TargetsOf(c) = {} /\ Closed(c, n, 404, {})
       \/ \E row \in TargetsOf(c) :
             leg' = [leg EXCEPT ![c][n] =
                        [stage |-> "found", row |-> row, seen |-> {}, reply |-> leg[c][n].reply]]
    /\ UNCHANGED <<client, server, faults>>

\* What a request passes to repository.save.
ToSave(c, n) ==
    CASE plan[c].op = "updateOne"  -> UpdateBody(leg[c][n].row, Body(c))
      [] plan[c].op = "replaceOne" -> ReplaceBody(leg[c][n].row, Body(c))
      [] OTHER                     -> CreateBody(Body(c))

\* save reads the row of the key it is given: the key of the row found, or
\* the one the body of a create brings.
SaveReads(c, n) ==
    /\ \/ leg[c][n].stage = "found" /\ plan[c].op \in {"updateOne", "replaceOne"}
       \/ Handling(c, n, "createOne") /\ PrimaryKey \in DOMAIN Body(c)
    /\ leg' = [leg EXCEPT ![c][n] =
                  [stage |-> "saving", row |-> leg[c][n].row,
                   seen |-> Stored(table, ToSave(c, n)[PrimaryKey]), reply |-> leg[c][n].reply]]
    /\ UNCHANGED <<client, server, faults>>

\* ... and then writes.
StoreRow(c, n) ==
    /\ leg[c][n].stage = "saving"
    /\ IF DuplicateKey(table, ToSave(c, n), leg[c][n].seen)
       THEN Closed(c, n, 500, {}) /\ UNCHANGED server
       ELSE /\ table' = Saved(table, ToSave(c, n), leg[c][n].seen)
            /\ made' = [made EXCEPT ![c] = @ \cup {n}]
            /\ Closed(c, n, 200, {})
            /\ UNCHANGED nextKey
    /\ UNCHANGED <<client, faults>>

RemoveRow(c, n) ==
    /\ leg[c][n].stage = "found"
    /\ plan[c].op = "deleteOne"
    /\ table' = Removed(table, leg[c][n].row)
    /\ made' = [made EXCEPT ![c] = @ \cup {n}]
    /\ Closed(c, n, 200, {})
    /\ UNCHANGED <<client, nextKey, faults>>

\* recoverOne throws.
RecoverOne(c, n) ==
    /\ Handling(c, n, "recoverOne")
    /\ Closed(c, n, 500, {})
    /\ UNCHANGED <<client, server, faults>>

\* Stages in which the server works on a request.
Working == {"sent", "found", "saving"}

\* A query rejects and nothing is written: a 500.
QueryFails(c, n) ==
    /\ leg[c][n].stage \in Working
    /\ Generated(plan[c].op) /\ plan[c].op # "recoverOne"
    /\ plan[c].op = "createMany" => BodiesOf(c) # <<>>
    /\ faults < MaxFaults
    /\ faults' = faults + 1
    /\ Closed(c, n, 500, {})
    /\ UNCHANGED <<client, server>>

\* A gateway answers for the server, which may still be working.
GatewayFails(c, n) ==
    /\ leg[c][n].stage \in Working
    /\ leg[c][n].reply = Nothing
    /\ faults < MaxFaults
    /\ faults' = faults + 1
    /\ leg' = [leg EXCEPT ![c][n].reply = [status |-> 503, data |-> {}]]
    /\ UNCHANGED <<client, server>>

\* A request is lost on its way, or with the process that was handling it.
Lost(c, n) ==
    /\ leg[c][n].stage \in Working
    /\ faults < MaxFaults
    /\ faults' = faults + 1
    /\ leg' = [leg EXCEPT ![c][n] =
                  [stage |-> "closed", row |-> <<>>, seen |-> {}, reply |-> leg[c][n].reply]]
    /\ UNCHANGED <<client, server>>

-----------------------------------------------------------------------------

ServerStep(c, n) ==
    \/ NotFound(c, n)
    \/ GetOne(c, n)
    \/ CreateOne(c, n)
    \/ CreateMany(c, n)
    \/ FindRow(c, n)
    \/ SaveReads(c, n)
    \/ StoreRow(c, n)
    \/ RemoveRow(c, n)
    \/ RecoverOne(c, n)

Next ==
    \/ \E c \in Call :
        \/ Hit(c)
        \/ Start(c)
        \/ Resend(c)
        \/ Receive(c)
        \/ ReadBody(c)
        \/ Timeout(c)
        \/ NetworkError(c)
        \/ \E n \in 1..Attempts :
            \/ ServerStep(c, n)
            \/ QueryFails(c, n)
            \/ GatewayFails(c, n)
            \/ Lost(c, n)
    \/ ClearCache
    \/ Tick

Spec == Init /\ [][Next]_vars

\* Timers that are set fire, answers that arrived are taken, and sleeps end: the
\* event loop of the client.  Nothing is assumed of the server, nor that a body
\* arrives.
FairSpec ==
    /\ Spec
    /\ \A c \in Call :
        /\ WF_vars(Receive(c) \/ Timeout(c))
        /\ WF_vars(Resend(c))

-----------------------------------------------------------------------------
(* Properties.                                                             *)

Legs == 1..Attempts

\* Variables keep their types; in particular a call never makes more attempts
\* than its client's retry setting (the loop of ApsoClient.request).
TypeOK ==
    /\ plan \in Plan
    /\ phase \in [Call -> {"idle", "waiting", "reading", "sleeping", "done", "failed"}]
    /\ attempt \in [Call -> Nat]
    /\ \A c \in Call : attempt[c] <= MaxAttempts(c)
    /\ made \in [Call -> SUBSET Legs]
    /\ blind \in [Call -> SUBSET Legs]
    /\ clock \in 0..MaxClock

\* A request is carried out twice only when the client could not know of the
\* first time: it had timed out or got an error of a gateway.  And a write the
\* client was told is done has been carried out (request and its retries).
DuplicatesNeedALostAnswer ==
    \A c \in Call :
        /\ \A m, n \in made[c] : m < n => m \in blind[c]
        /\ phase[c] = "done" /\ plan[c].op # "getOne" => made[c] # {}

\* What a get answers, from the server or from the cache, late or after
\* retries, is one row that the auth filter admitted, and the row of its route
\* where the WHERE names it (getOne, applyWhere, ApsoClient.get).
AnswersAreOwn ==
    \A c \in Call : phase[c] = "done" /\ plan[c].op = "getOne" =>
        \E row \in result[c].data :
            /\ result[c].data = {row}
            /\ Admitted(row)
            /\ ByRoute(plan[c].dialect) => row[PrimaryKey] = plan[c].id

\* A row is changed or removed only by a write that had found it, admitted by
\* the auth filter and named by the route where the WHERE names it, whatever
\* key the body claims, or by a create that brings its key; and every row a
\* request writes has the values the auth layer pins, although a save leaves
\* out columns it had read with those values before others wrote them
\* (updateOne, replaceOne, deleteOne, stripPrimaryKeys, withAuthPersist).
OnlyTheTarget ==
    [][/\ \A row \in table \ table' : \E c \in Call : \E n \in made'[c] \ made[c] :
            \/ /\ plan[c].op \in Writes
               /\ leg[c][n].row[PrimaryKey] = row[PrimaryKey]
               /\ Admitted(leg[c][n].row)
               /\ ByRoute(plan[c].dialect) => row[PrimaryKey] = plan[c].id
            \/ /\ plan[c].op = "createOne"
               /\ PrimaryKey \in DOMAIN Body(c)
               /\ Body(c)[PrimaryKey] = row[PrimaryKey]
       /\ \A row \in table' \ table : \A x \in DOMAIN Persist : row[x] = Persist[x]
      ]_vars

\* Every call of the SDK that waits comes to an end, even if the server never
\* answers: its attempts time out and run out.  The one exception is a fetch
\* call that has its headers: no timer runs while it reads the body.
CallsSettle ==
    \A c \in Call :
        phase[c] = "waiting" /\ Timed(c) ~> phase[c] \in {"done", "failed", "reading"}
=============================================================================
