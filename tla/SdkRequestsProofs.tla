------------------------- MODULE SdkRequestsProofs --------------------------
(***************************************************************************)
(* Proofs about SdkRequests, for any calls, any plan, any retry setting    *)
(* and cache durations, any table and any number of faults.                *)
(***************************************************************************)
EXTENDS SdkRequests, FiniteSetTheorems, TLAPS

-----------------------------------------------------------------------------
(* The inductive invariant.                                                *)

IsLeg(l) == l = [stage |-> l.stage, row |-> l.row, seen |-> l.seen, reply |-> l.reply]

\* Every call has its legs and its result.
Shape ==
    /\ result = [c \in Call |-> result[c]]
    /\ leg = [c \in Call |-> [n \in Legs |-> leg[c][n]]]
    /\ \A c \in Call, n \in Legs : IsLeg(leg[c][n])

\* A call waits for its last attempt, and reads the body of an answer that says
\* done; it made that attempt only because it was left in the dark by all before.
Progress ==
    \A c \in Call :
        /\ phase[c] = "idle" => attempt[c] = 0
        /\ phase[c] \in {"waiting", "reading", "sleeping"} => attempt[c] >= 1
        /\ phase[c] = "reading" => Reply(c).status = 200
        /\ phase[c] = "sleeping" =>
                attempt[c] < MaxAttempts(c) /\ attempt[c] \in blind[c]
        /\ \A n \in Legs : n < attempt[c] => n \in blind[c]

\* Only attempts the client made are on their way, and carried out; an answer
\* that says done is of one that was.
Reach ==
    \A c \in Call, n \in Legs :
        /\ leg[c][n].stage # "unsent" => n <= attempt[c]
        /\ n \in made[c] => n <= attempt[c]
        /\ leg[c][n].reply.status = 200 => plan[c].op = "getOne" \/ n \in made[c]
        /\ leg[c][n].stage = "saving" => plan[c].op # "getOne"

\* A write the client was told is done was carried out.
Told == \A c \in Call : phase[c] = "done" /\ plan[c].op # "getOne" => made[c] # {}

\* The answer to a get: a row its WHERE admits.
Own(c, data) ==
    \E row \in data :
        /\ data = {row}
        /\ Admitted(row)
        /\ ByRoute(plan[c].dialect) => row[PrimaryKey] = plan[c].id

\* So are the answers under way and in the cache, for every call that may take
\* them.
Answered ==
    /\ \A c \in Call, n \in Legs :
        plan[c].op = "getOne" /\ leg[c][n].reply.status = 200 =>
            Own(c, leg[c][n].reply.data)
    /\ \A c \in Call :
        Cached(c) /\ plan[c].id \in DOMAIN cache => Own(c, cache[plan[c].id].data)

Inv == TypeOK /\ Shape /\ Progress /\ Reach /\ Told /\ Answered /\ AnswersAreOwn

-----------------------------------------------------------------------------

LEMMA MaxAttemptsType == \A c \in Call : MaxAttempts(c) \in Legs
BY SdkRequestsAssumption DEF MaxAttempts, Legs

LEMMA InitInv == Init => Inv
<1>. SUFFICES ASSUME Init PROVE Inv  OBVIOUS
<1>. USE DEF Init
<1>1. TypeOK
  BY MaxAttemptsType, SdkRequestsAssumption DEF TypeOK, Legs
<1>2. Shape
  BY DEF Shape, IsLeg, Unsent, Legs
<1>3. Reach
  BY SdkRequestsAssumption DEF Reach, Unsent, Nothing, Legs
<1>4. Progress /\ Told
  BY DEF Progress, Told, Legs
<1>5. Answered /\ AnswersAreOwn
  BY DEF Answered, AnswersAreOwn, Unsent, Nothing, Legs
<1>. QED  BY <1>1, <1>2, <1>3, <1>4, <1>5 DEF Inv

LEMMA SetStage ==
    ASSUME NEW l, IsLeg(l), NEW s
    PROVE  [l EXCEPT !.stage = s] =
                [stage |-> s, row |-> l.row, seen |-> l.seen, reply |-> l.reply]
BY DEF IsLeg

LEMMA SetReply ==
    ASSUME NEW l, IsLeg(l), NEW r
    PROVE  [l EXCEPT !.reply = r] =
                [stage |-> l.stage, row |-> l.row, seen |-> l.seen, reply |-> r]
BY DEF IsLeg

\* A step sets one leg.
SetTo(c, n, l) == leg' = [leg EXCEPT ![c][n] = l]

LEMMA SetLeg ==
    ASSUME Shape, NEW c \in Call, NEW n \in Legs, NEW l, IsLeg(l), SetTo(c, n, l),
           result' = result
    PROVE  /\ Shape'
           /\ \A d \in Call, m \in Legs :
                leg'[d][m] = IF d = c /\ m = n THEN l ELSE leg[d][m]
<1>1. \A d \in Call, m \in Legs :
        leg'[d][m] = IF d = c /\ m = n THEN l ELSE leg[d][m]
  BY DEF Shape, SetTo
<1>2. leg' = [d \in Call |-> [m \in Legs |-> leg'[d][m]]]
  BY DEF Shape, SetTo
<1>3. \A d \in Call, m \in Legs : IsLeg(leg'[d][m])
  <2>1. TAKE d \in Call, m \in Legs
  <2>2. IsLeg(leg[d][m])
    BY DEF Shape
  <2>3. leg'[d][m] = l \/ leg'[d][m] = leg[d][m]
    BY <1>1
  <2>. QED  BY <2>2, <2>3
<1>. QED  BY <1>1, <1>2, <1>3 DEF Shape, IsLeg

-----------------------------------------------------------------------------
(* Steps of the client.                                                    *)

LEMMA SendInv ==
    ASSUME Inv, NEW c \in Call, Send(c), phase[c] \in {"idle", "sleeping"}
    PROVE  Inv'
<1>. DEFINE k == attempt[c] + 1
<1>1. k \in Legs /\ k <= MaxAttempts(c)
  BY MaxAttemptsType, SdkRequestsAssumption DEF Inv, TypeOK, Progress, Legs
<1>2. /\ phase' = [phase EXCEPT ![c] = "waiting"]
      /\ attempt' = [attempt EXCEPT ![c] = k]
      /\ leg' = [leg EXCEPT ![c][k].stage = "sent"]
      /\ UNCHANGED <<plan, result, cache, clock, blind, table, nextKey, made, faults>>
  BY <1>1 DEF Send, Inv, TypeOK, server
<1>. HIDE DEF k
<1>3. TypeOK'
  <2>1. attempt' \in [Call -> Nat] /\ phase' \in [Call -> {"idle", "waiting", "reading", "sleeping", "done", "failed"}]
    BY <1>1, <1>2, SdkRequestsAssumption DEF Inv, TypeOK, Legs
  <2>2. \A d \in Call : MaxAttempts(d)' = MaxAttempts(d)
    BY <1>2 DEF MaxAttempts
  <2>3. \A d \in Call : attempt'[d] <= MaxAttempts(d)'
    BY <1>1, <1>2, <2>2 DEF Inv, TypeOK
  <2>. QED  BY <1>2, <2>1, <2>3 DEF Inv, TypeOK
<1>4. Shape' /\ \A d \in Call, n \in Legs :
        /\ leg'[d][n].reply = leg[d][n].reply
        /\ d # c \/ n # k => leg'[d][n].stage = leg[d][n].stage
  <2>. DEFINE l == [stage |-> "sent", row |-> leg[c][k].row, seen |-> leg[c][k].seen,
                    reply |-> leg[c][k].reply]
  <2>1. [leg[c][k] EXCEPT !.stage = "sent"] = l
    <3>1. IsLeg(leg[c][k])
      BY <1>1 DEF Inv, Shape
    <3>. QED  BY SetStage, <3>1
  <2>2. SetTo(c, k, l)
    <3>1. leg' = [leg EXCEPT ![c][k] = l]
      BY <1>2, <2>1, Zenon
    <3>. QED  BY <3>1 DEF SetTo
  <2>3. IsLeg(l) /\ l.reply = leg[c][k].reply
    BY DEF IsLeg
  <2>. HIDE DEF l
  <2>4. Shape' /\ \A d \in Call, m \in Legs :
            leg'[d][m] = IF d = c /\ m = k THEN l ELSE leg[d][m]
    <3>1. Shape /\ k \in Legs /\ result' = result
      BY <1>1, <1>2 DEF Inv
    <3>. QED  BY <3>1, <2>2, <2>3, SetLeg
  <2>. QED  BY <2>3, <2>4
<1>5. k = attempt[c] + 1 /\ attempt[c] \in Nat
  BY DEF k, Inv, TypeOK
<1>6. \A n \in Legs : n < k => n \in blind[c]
  BY <1>5, SdkRequestsAssumption DEF Inv, Progress, Legs
<1>7. Progress'
  <2>1. \A d \in Call : d # c /\ attempt[d] \in Legs => Reply(d)' = Reply(d)
    BY <1>2, <1>4 DEF Reply, Inv, TypeOK
  <2>2. \A d \in Call : phase[d] = "reading" => attempt[d] \in Legs
    BY MaxAttemptsType, SdkRequestsAssumption DEF Inv, TypeOK, Progress, Legs
  <2>3. \A d \in Call : d # c => phase'[d] = phase[d] /\ attempt'[d] = attempt[d]
    BY <1>2 DEF Inv, TypeOK
  <2>4. \A d \in Call : phase'[d] = "reading" => Reply(d)'.status = 200
    BY <1>2, <2>1, <2>2, <2>3 DEF Inv, TypeOK, Progress
  <2>. QED
    BY <1>1, <1>2, <1>6, <2>4, SdkRequestsAssumption DEF Inv, TypeOK, Progress, Legs, MaxAttempts
<1>8. Reach'
  BY <1>1, <1>2, <1>4, <1>5, SdkRequestsAssumption DEF Inv, TypeOK, Reach, Legs
<1>9. Told' /\ AnswersAreOwn'
  BY <1>2 DEF Inv, TypeOK, Told, AnswersAreOwn
<1>10. Answered'
  BY <1>2, <1>4 DEF Inv, Answered, Own, Cached
<1>. QED  BY <1>3, <1>4, <1>7, <1>8, <1>9, <1>10 DEF Inv

\* A call that does not send: only its phase, its result, what it is blind to,
\* and the cache change.
Settles(c, p, b, r) ==
    /\ UNCHANGED <<plan, attempt, clock, leg, server, faults>>
    /\ p \in {"reading", "sleeping", "done", "failed"}
    /\ phase' = [phase EXCEPT ![c] = p]
    /\ b \in SUBSET Legs /\ blind[c] \subseteq b
    /\ blind' = [blind EXCEPT ![c] = b]
    /\ result' = [result EXCEPT ![c] = r]
    /\ p = "reading" => attempt[c] >= 1 /\ Reply(c).status = 200
    /\ p = "sleeping" => attempt[c] >= 1 /\ attempt[c] < MaxAttempts(c) /\ attempt[c] \in b
    /\ p = "done" => IF plan[c].op = "getOne" THEN Own(c, r.data) ELSE made[c] # {}

LEMMA SettleInv ==
    ASSUME Inv, NEW c \in Call, NEW p, NEW b, NEW r, Settles(c, p, b, r), Answered'
    PROVE  Inv'
<1>. USE DEF Settles
<1>1. TypeOK'
  BY DEF Inv, TypeOK, MaxAttempts, server
<1>2. Shape' /\ Reach'
  <2>1. result' = [d \in Call |-> result'[d]]
    BY DEF Inv, Shape
  <2>2. Shape'
    BY <2>1 DEF Inv, Shape
  <2>. QED  BY <2>2 DEF Inv, Reach, server
<1>3. Progress'
  BY SdkRequestsAssumption DEF Inv, TypeOK, Progress, MaxAttempts, Legs, Reply
<1>4. Told'
  BY DEF Inv, TypeOK, Told, server
<1>5. AnswersAreOwn'
  <2>. SUFFICES ASSUME NEW d \in Call, phase'[d] = "done", plan[d].op = "getOne"
                PROVE  Own(d, result'[d].data)
    BY DEF AnswersAreOwn, Own
  <2>1. CASE d = c
    BY <2>1 DEF Inv, TypeOK, Shape
  <2>2. CASE d # c
    <3>1. phase[d] = "done" /\ result'[d] = result[d]
      BY <2>2 DEF Inv, TypeOK, Shape
    <3>. QED  BY <3>1 DEF Inv, AnswersAreOwn, Own
  <2>. QED  BY <2>1, <2>2
<1>. QED  BY <1>1, <1>2, <1>3, <1>4, <1>5 DEF Inv

\* The attempt a call waits for.
LEMMA WaitedFor ==
    ASSUME Inv, NEW c \in Call, phase[c] = "waiting"
    PROVE  /\ attempt[c] \in Legs
           /\ attempt[c] >= 1
           /\ Again(c) \in {"sleeping", "failed"}
           /\ Again(c) = "sleeping" => attempt[c] < MaxAttempts(c)
BY MaxAttemptsType, SdkRequestsAssumption DEF Inv, TypeOK, Progress, Again, Legs

LEMMA AnsweredStays ==
    ASSUME Inv, UNCHANGED <<plan, leg, cache>>
    PROVE  Answered'
BY DEF Inv, Answered, Own, Cached

LEMMA HitInv == ASSUME Inv, NEW c \in Call, Hit(c) PROVE Inv'
<1>. DEFINE r == [status |-> 200, data |-> cache[plan[c].id].data]
<1>1. Answered'
  BY AnsweredStays DEF Hit
<1>2. blind' = [blind EXCEPT ![c] = blind[c]] /\ blind[c] \in SUBSET Legs
  BY DEF Inv, TypeOK, Hit
<1>3. plan[c].op = "getOne" /\ Own(c, cache[plan[c].id].data)
  BY DEF Inv, Answered, Hit, Fresh, Cached
<1>4. r.data = cache[plan[c].id].data
  OBVIOUS
<1>5. /\ phase' = [phase EXCEPT ![c] = "done"]
      /\ result' = [result EXCEPT ![c] = r]
      /\ UNCHANGED <<plan, attempt, clock, leg, server, faults>>
  BY DEF Hit
<1>. HIDE DEF r
<1>6. Settles(c, "done", blind[c], r)
  BY <1>2, <1>3, <1>4, <1>5 DEF Settles
<1>. QED  BY <1>1, <1>6, SettleInv

LEMMA GiveUpInv ==
    ASSUME Inv, NEW c \in Call, Timeout(c) \/ NetworkError(c) PROVE Inv'
<1>. DEFINE b == blind[c] \cup {attempt[c]}
<1>1. Answered'
  BY AnsweredStays DEF Timeout, NetworkError
<1>2. b \in SUBSET Legs
  <2>1. attempt[c] \in Legs
    BY MaxAttemptsType, SdkRequestsAssumption
       DEF Inv, TypeOK, Progress, Timeout, NetworkError, Legs
  <2>. QED  BY <2>1 DEF Inv, TypeOK
<1>3. /\ blind' = [blind EXCEPT ![c] = b] /\ UNCHANGED <<plan, attempt, clock, leg, server, faults>>
      /\ result' = [result EXCEPT ![c] = result[c]]
  BY DEF Timeout, NetworkError, Inv, Shape
<1>4. CASE Timeout(c)
  <2>1. phase' = [phase EXCEPT ![c] = Again(c)] /\ phase[c] = "waiting"
    BY <1>4 DEF Timeout
  <2>2. Settles(c, Again(c), b, result[c])
    BY <2>1, <1>2, <1>3, WaitedFor DEF Settles
  <2>. QED  BY <1>1, <2>2, SettleInv
<1>5. CASE NetworkError(c)
  <2>1. phase' = [phase EXCEPT ![c] = "failed"]
    BY <1>5 DEF NetworkError
  <2>2. Settles(c, "failed", b, result[c])
    BY <2>1, <1>2, <1>3 DEF Settles
  <2>. QED  BY <1>1, <2>2, SettleInv
<1>. QED  BY <1>4, <1>5

\* The call returns the answer of an attempt that says done.
LEMMA ReturnInv ==
    ASSUME Inv, NEW c \in Call, Return(c), attempt[c] \in Legs, Reply(c).status = 200,
           UNCHANGED <<plan, attempt, clock, blind, leg, server, faults>>
    PROVE  Inv'
<1>1. /\ phase' = [phase EXCEPT ![c] = "done"]
      /\ result' = [result EXCEPT ![c] = Reply(c)]
      /\ blind' = [blind EXCEPT ![c] = blind[c]] /\ blind[c] \in SUBSET Legs
  BY DEF Return, Inv, TypeOK
<1>2. plan[c].op = "getOne" => Own(c, Reply(c).data)
  BY DEF Inv, Answered, Reply
<1>3. plan[c].op # "getOne" => made[c] # {}
  BY DEF Inv, Reach, Reply
<1>4. Answered'
  <2>1. \A d \in Call : Cached(d)' = Cached(d) /\ \A data : Own(d, data)' = Own(d, data)
    BY DEF Cached, Own
  <2>2. ASSUME NEW d \in Call, Cached(d), plan[d].id \in DOMAIN cache'
        PROVE  Own(d, cache'[plan[d].id].data)
    <3>. DEFINE e == [data |-> Reply(c).data, expiry |-> clock + plan[c].cacheDuration]
    <3>1. cache' = cache \/ (Cached(c) /\ cache' = Put(plan[c].id, e))
      BY DEF Return
    <3>2. e.data = Reply(c).data
      OBVIOUS
    <3>. HIDE DEF e
    <3>3. CASE cache' = cache
      BY <2>2, <3>3 DEF Inv, Answered
    <3>4. CASE Cached(c) /\ cache' = Put(plan[c].id, e)
      <4>1. CASE plan[d].id = plan[c].id
        <5>1. cache'[plan[d].id] = e
          BY <3>4, <4>1 DEF Put
        <5>2. plan[d].dialect = plan[c].dialect /\ plan[c].op = "getOne"
          BY <2>2, <3>4, CacheAssumption DEF Cached, Inv, TypeOK
        <5>. QED  BY <1>2, <3>2, <4>1, <5>1, <5>2 DEF Own
      <4>2. CASE plan[d].id # plan[c].id
        <5>1. plan[d].id \in DOMAIN cache /\ cache'[plan[d].id] = cache[plan[d].id]
          BY <2>2, <3>4, <4>2 DEF Put
        <5>. QED  BY <2>2, <5>1 DEF Inv, Answered
      <4>. QED  BY <4>1, <4>2
    <3>. QED  BY <3>1, <3>3, <3>4
  <2>3. \A d \in Call, n \in Legs :
          plan[d].op = "getOne" /\ leg[d][n].reply.status = 200 => Own(d, leg[d][n].reply.data)
    BY DEF Inv, Answered
  <2>. QED  BY <2>1, <2>2, <2>3 DEF Answered
<1>5. IF plan[c].op = "getOne" THEN Own(c, Reply(c).data) ELSE made[c] # {}
  BY <1>2, <1>3
<1>6. Settles(c, "done", blind[c], Reply(c))
  BY <1>1, <1>5 DEF Settles
<1>. QED  BY <1>4, <1>6, SettleInv

LEMMA ReceiveInv == ASSUME Inv, NEW c \in Call, Receive(c) PROVE Inv'
<1>1. phase[c] = "waiting" /\ UNCHANGED <<plan, attempt, clock, leg, server, faults>>
  BY DEF Receive
<1>2. /\ attempt[c] \in Legs
      /\ attempt[c] >= 1
      /\ Again(c) \in {"sleeping", "failed"}
      /\ Again(c) = "sleeping" => attempt[c] < MaxAttempts(c)
  BY <1>1, WaitedFor
<1>3. blind[c] \cup {attempt[c]} \in SUBSET Legs /\ blind[c] \in SUBSET Legs
  BY <1>2 DEF Inv, TypeOK
<1>4. CASE Reply(c).status = 200 /\ plan[c].client # "fetch"
  <2>1. blind' = blind
    BY <1>4 DEF Receive, RetryStatus, Inv, TypeOK
  <2>. QED  BY <1>1, <1>2, <1>4, <2>1, ReturnInv DEF Receive
<1>5. Reply(c).status # 200 \/ plan[c].client = "fetch" =>
        result' = [result EXCEPT ![c] = result[c]] /\ Answered'
  <2>. SUFFICES ASSUME Reply(c).status # 200 \/ plan[c].client = "fetch"
                PROVE  result' = [result EXCEPT ![c] = result[c]] /\ Answered'
    OBVIOUS
  <2>1. UNCHANGED <<result, cache>>
    BY DEF Receive
  <2>. QED  BY <1>1, <2>1, AnsweredStays DEF Inv, Shape
<1>6. CASE Reply(c).status = 200 /\ plan[c].client = "fetch"
  <2>1. /\ phase' = [phase EXCEPT ![c] = "reading"]
        /\ blind' = [blind EXCEPT ![c] = blind[c]]
    BY <1>6 DEF Receive, RetryStatus
  <2>2. Settles(c, "reading", blind[c], result[c])
    BY <1>1, <1>2, <1>3, <1>5, <1>6, <2>1 DEF Settles
  <2>. QED  BY <1>5, <1>6, <2>2, SettleInv
<1>7. CASE Reply(c).status # 200 /\ Retried(c, Reply(c).status)
  <2>1. /\ phase' = [phase EXCEPT ![c] = Again(c)]
        /\ blind' = [blind EXCEPT ![c] = blind[c] \cup {attempt[c]}]
    BY <1>7 DEF Receive, Retried
  <2>2. Settles(c, Again(c), blind[c] \cup {attempt[c]}, result[c])
    BY <1>1, <1>2, <1>3, <1>5, <1>7, <2>1 DEF Settles
  <2>. QED  BY <1>5, <1>7, <2>2, SettleInv
<1>8. CASE Reply(c).status # 200 /\ ~Retried(c, Reply(c).status)
  <2>1. /\ phase' = [phase EXCEPT ![c] = "failed"]
        /\ \/ blind' = [blind EXCEPT ![c] = blind[c] \cup {attempt[c]}]
           \/ blind' = [blind EXCEPT ![c] = blind[c]]
    BY <1>8 DEF Receive
  <2>2. PICK b \in {blind[c], blind[c] \cup {attempt[c]}} : blind' = [blind EXCEPT ![c] = b]
    BY <2>1
  <2>3. Settles(c, "failed", b, result[c])
    BY <1>1, <1>3, <1>5, <1>8, <2>1, <2>2 DEF Settles
  <2>. QED  BY <1>5, <1>8, <2>3, SettleInv
<1>. QED  BY <1>4, <1>6, <1>7, <1>8

LEMMA ReadBodyInv == ASSUME Inv, NEW c \in Call, ReadBody(c) PROVE Inv'
<1>1. phase[c] = "reading" /\ UNCHANGED <<plan, attempt, clock, blind, leg, server, faults>>
  BY DEF ReadBody
<1>2. attempt[c] \in Legs /\ Reply(c).status = 200
  BY <1>1, MaxAttemptsType, SdkRequestsAssumption DEF Inv, TypeOK, Progress, Legs
<1>3. CASE EmptyBody(c)
  <2>1. /\ phase' = [phase EXCEPT ![c] = "failed"]
        /\ result' = [result EXCEPT ![c] = result[c]]
        /\ blind' = [blind EXCEPT ![c] = blind[c]] /\ blind[c] \in SUBSET Legs
    BY <1>3 DEF ReadBody, Inv, TypeOK, Shape
  <2>2. Answered'
    BY <1>3, AnsweredStays DEF ReadBody
  <2>3. Settles(c, "failed", blind[c], result[c])
    BY <1>1, <2>1 DEF Settles
  <2>. QED  BY <2>2, <2>3, SettleInv
<1>4. CASE ~EmptyBody(c)
  BY <1>1, <1>2, <1>4, ReturnInv DEF ReadBody
<1>. QED  BY <1>3, <1>4

-----------------------------------------------------------------------------
(* Steps of the server and of the network.                                 *)

\* An answer that says done comes with what was done or found, and stays.
Answers(c, n, l) ==
    /\ l.stage = "saving" => plan[c].op # "getOne"
    /\ leg[c][n].reply.status = 200 => l.reply = leg[c][n].reply
    /\ l.reply.status = 200 =>
        \/ leg[c][n].reply.status = 200
        \/ IF plan[c].op = "getOne" THEN Own(c, l.reply.data) ELSE n \in made'[c]

\* What they do to the legs and to what was carried out.
ServerEffect(c, n) ==
    /\ UNCHANGED client
    /\ leg[c][n].stage # "unsent"
    /\ \E l : IsLeg(l) /\ SetTo(c, n, l) /\ Answers(c, n, l)
    /\ \/ made' = made
       \/ made' = [made EXCEPT ![c] = made[c] \cup {n}]

LEMMA ServerEffectInv ==
    ASSUME Inv, NEW c \in Call, NEW n \in Legs, ServerEffect(c, n)
    PROVE  Inv'
<1>1. PICK l : IsLeg(l) /\ SetTo(c, n, l) /\ Answers(c, n, l)
  BY Zenon DEF ServerEffect
<1>2. Shape
  BY DEF Inv
<1>3. Shape' /\ \A d \in Call, m \in Legs :
        leg'[d][m] = IF d = c /\ m = n THEN l ELSE leg[d][m]
  BY <1>1, <1>2, SetLeg DEF ServerEffect, client
<1>4. made' \in [Call -> SUBSET Legs] /\ \A d \in Call :
        /\ made[d] \subseteq made'[d]
        /\ \A m \in made'[d] : m \in made[d] \/ (d = c /\ m = n)
  BY DEF ServerEffect, Inv, TypeOK
<1>5. UNCHANGED <<plan, phase, attempt, result, cache, clock, blind>>
  BY DEF ServerEffect, client
<1>6. TypeOK'
  BY <1>4, <1>5 DEF Inv, TypeOK, MaxAttempts
<1>7. Progress' /\ AnswersAreOwn'
  <2>1. AnswersAreOwn'
    BY <1>5 DEF Inv, AnswersAreOwn
  <2>2. ASSUME NEW d \in Call, phase[d] = "reading"
        PROVE  Reply(d)'.status = 200
    <3>1. attempt[d] \in Legs
      BY <2>2, MaxAttemptsType, SdkRequestsAssumption DEF Inv, TypeOK, Progress, Legs
    <3>2. leg[d][attempt[d]].reply.status = 200
      BY <2>2 DEF Inv, Progress, Reply
    <3>3. leg'[d][attempt[d]].reply.status = 200
      BY <1>1, <1>3, <3>1, <3>2 DEF Answers
    <3>. QED  BY <1>5, <3>3 DEF Reply
  <2>. QED  BY <1>5, <2>1, <2>2 DEF Inv, Progress, MaxAttempts
<1>8. Told'
  BY <1>4, <1>5 DEF Inv, Told
<1>9. n <= attempt[c]
  BY DEF ServerEffect, Inv, Reach
<1>10. Reach'
  <2>. SUFFICES ASSUME NEW d \in Call, NEW m \in Legs
                PROVE  /\ leg'[d][m].stage # "unsent" => m <= attempt'[d]
                       /\ m \in made'[d] => m <= attempt'[d]
                       /\ leg'[d][m].reply.status = 200 =>
                                plan'[d].op = "getOne" \/ m \in made'[d]
                       /\ leg'[d][m].stage = "saving" => plan'[d].op # "getOne"
    BY DEF Reach
  <2>1. CASE d = c /\ m = n
    <3>1. leg'[d][m] = l
      BY <1>3, <2>1
    <3>2. /\ l.reply.status = 200 =>
                plan[d].op = "getOne" \/ m \in made[d] \/ m \in made'[d]
          /\ l.stage = "saving" => plan[d].op # "getOne"
      BY <1>1, <2>1 DEF Inv, Reach, Answers
    <3>. QED  BY <2>1, <3>1, <3>2, <1>4, <1>5, <1>9
  <2>2. CASE ~(d = c /\ m = n)
    <3>1. leg'[d][m] = leg[d][m]
      BY <1>3, <2>2
    <3>. QED  BY <2>2, <3>1, <1>4, <1>5 DEF Inv, Reach
  <2>. QED  BY <2>1, <2>2
<1>11. Answered'
  <2>1. \A d \in Call : Cached(d)' = Cached(d) /\ \A data : Own(d, data)' = Own(d, data)
    BY <1>5 DEF Cached, Own
  <2>2. ASSUME NEW d \in Call, NEW m \in Legs,
               plan[d].op = "getOne", leg'[d][m].reply.status = 200
        PROVE  Own(d, leg'[d][m].reply.data)
    BY <1>1, <1>3, <2>2 DEF Inv, Answered, Answers
  <2>. QED  BY <1>5, <2>1, <2>2 DEF Inv, Answered, Own, Cached
<1>. QED  BY <1>3, <1>6, <1>7, <1>8, <1>10, <1>11 DEF Inv

\* A handler that answers.
LEMMA ClosedEffect ==
    ASSUME Inv, NEW c \in Call, NEW n \in Legs, NEW status, NEW data,
           Closed(c, n, status, data), leg[c][n].stage # "unsent", UNCHANGED client,
           made' = made \/ made' = [made EXCEPT ![c] = made[c] \cup {n}],
           status = 200 => IF plan[c].op = "getOne" THEN Own(c, data) ELSE n \in made'[c]
    PROVE  ServerEffect(c, n)
<1>. DEFINE r == IF leg[c][n].reply = Nothing THEN [status |-> status, data |-> data]
                 ELSE leg[c][n].reply
            l == [stage |-> "closed", row |-> <<>>, seen |-> {}, reply |-> r]
<1>1. IsLeg(leg[c][n]) /\ Shape
  BY DEF Inv, Shape
<1>2. IsLeg(l) /\ l.reply = r
  BY DEF IsLeg
<1>3. /\ leg[c][n].reply.status = 200 => r = leg[c][n].reply
      /\ r.status = 200 => (status = 200 /\ r.data = data) \/ leg[c][n].reply.status = 200
  BY DEF Nothing
<1>4. SetTo(c, n, l)
  BY DEF Closed, SetTo
<1>5. Answers(c, n, l)
  BY <1>2, <1>3 DEF Answers
<1>6. \E x : IsLeg(x) /\ SetTo(c, n, x) /\ Answers(c, n, x)
  <2>. HIDE DEF l
  <2>. QED  BY <1>2, <1>4, <1>5, Zenon
<1>. QED  BY <1>6 DEF ServerEffect

LEMMA ServerStepInv ==
    ASSUME Inv, NEW c \in Call, NEW n \in Legs,
           ServerStep(c, n) \/ QueryFails(c, n) \/ GatewayFails(c, n) \/ Lost(c, n)
    PROVE  Inv'
<1>. SUFFICES ServerEffect(c, n)
  BY ServerEffectInv
<1>0. /\ IsLeg(leg[c][n]) /\ Shape
      /\ n \in made[c] \cup {n}
      /\ [made EXCEPT ![c] = made[c] \cup {n}][c] = made[c] \cup {n}
  BY DEF Inv, Shape, TypeOK
<1>1. CASE NotFound(c, n)
  BY <1>1, ClosedEffect DEF NotFound, server
<1>2. CASE GetOne(c, n)
  <2>1. /\ plan[c].op = "getOne" /\ leg[c][n].stage # "unsent"
        /\ UNCHANGED client /\ made' = made
    BY <1>2 DEF GetOne, Handling, server
  <2>2. CASE Closed(c, n, 404, {})
    BY <2>1, <2>2, ClosedEffect
  <2>3. ASSUME NEW row \in TargetsOf(c), Closed(c, n, 200, {row})
        PROVE  ServerEffect(c, n)
    <3>1. Own(c, {row})
      BY <2>3 DEF Own, TargetsOf, Targets
    <3>. QED  BY <2>1, <2>3, <3>1, ClosedEffect
  <2>. QED  BY <1>2, <2>2, <2>3 DEF GetOne
<1>3. CASE CreateOne(c, n)
  BY <1>0, <1>3, ClosedEffect DEF CreateOne, Handling
<1>4. CASE CreateMany(c, n)
  <2>1. leg[c][n].stage # "unsent" /\ UNCHANGED client
    BY <1>4 DEF CreateMany, Handling
  <2>2. CASE BodiesOf(c) = <<>>
    BY <1>4, <2>1, <2>2, ClosedEffect DEF CreateMany, server
  <2>3. CASE BodiesOf(c) # <<>>
    BY <1>0, <1>4, <2>1, <2>3, ClosedEffect DEF CreateMany, Handling
  <2>. QED  BY <2>2, <2>3
<1>5. CASE FindRow(c, n)
  <2>1. CASE Closed(c, n, 404, {})
    BY <1>5, <2>1, ClosedEffect DEF FindRow, Handling, server
  <2>2. CASE ~Closed(c, n, 404, {})
    <3>. DEFINE l(row) == [stage |-> "found", row |-> row, seen |-> {},
                           reply |-> leg[c][n].reply]
    <3>1. PICK row : SetTo(c, n, l(row))
      BY <1>5, <2>2, Zenon DEF FindRow, SetTo
    <3>2. IsLeg(l(row)) /\ Answers(c, n, l(row))
      BY DEF IsLeg, Answers
    <3>3. \E x : IsLeg(x) /\ SetTo(c, n, x) /\ Answers(c, n, x)
      BY <3>1, <3>2, Zenon
    <3>. QED  BY <1>5, <3>3 DEF ServerEffect, FindRow, Handling, server
  <2>. QED  BY <2>1, <2>2
<1>6. CASE SaveReads(c, n)
  <2>. DEFINE l == [stage |-> "saving", row |-> leg[c][n].row,
                    seen |-> Stored(table, ToSave(c, n)[PrimaryKey]), reply |-> leg[c][n].reply]
  <2>1. SetTo(c, n, l) /\ IsLeg(l) /\ Answers(c, n, l)
    BY <1>6 DEF SaveReads, Handling, SetTo, IsLeg, Answers
  <2>2. \E x : IsLeg(x) /\ SetTo(c, n, x) /\ Answers(c, n, x)
    <3>. HIDE DEF l
    <3>. QED  BY <2>1, Zenon
  <2>. QED  BY <1>6, <2>2 DEF ServerEffect, SaveReads, Handling, server
<1>10. CASE StoreRow(c, n)
  <2>1. leg[c][n].stage # "unsent" /\ UNCHANGED client
    BY <1>10 DEF StoreRow
  <2>2. CASE Closed(c, n, 500, {}) /\ UNCHANGED server
    BY <2>1, <2>2, ClosedEffect DEF server
  <2>3. CASE Closed(c, n, 200, {}) /\ made' = [made EXCEPT ![c] = made[c] \cup {n}]
    <3>1. plan[c].op # "getOne"
      BY <1>10 DEF StoreRow, Inv, Reach
    <3>. QED  BY <1>0, <2>1, <2>3, <3>1, ClosedEffect
  <2>. QED  BY <1>10, <2>2, <2>3 DEF StoreRow
<1>11. CASE RemoveRow(c, n)
  BY <1>0, <1>11, ClosedEffect DEF RemoveRow
<1>12. CASE QueryFails(c, n)
  BY <1>12, ClosedEffect DEF QueryFails, Working, server
<1>7. CASE RecoverOne(c, n)
  BY <1>7, ClosedEffect DEF RecoverOne, Handling, server
<1>8. CASE GatewayFails(c, n)
  <2>. DEFINE l == [leg[c][n] EXCEPT !.reply = [status |-> 503, data |-> {}]]
  <2>1. SetTo(c, n, l)
    BY <1>0, <1>8 DEF Shape, GatewayFails, SetTo
  <2>2. IsLeg(l) /\ l.reply.status = 503
    BY <1>0 DEF IsLeg
  <2>3. Answers(c, n, l)
    <3>1. l.stage = leg[c][n].stage
      BY <1>0, SetReply
    <3>. QED  BY <1>8, <2>2, <3>1 DEF Answers, GatewayFails, Nothing, Inv, Reach
  <2>4. \E x : IsLeg(x) /\ SetTo(c, n, x) /\ Answers(c, n, x)
    <3>. HIDE DEF l
    <3>. QED  BY <2>1, <2>2, <2>3, Zenon
  <2>. QED  BY <1>8, <2>4 DEF ServerEffect, GatewayFails, Working, server
<1>9. CASE Lost(c, n)
  <2>. DEFINE l == [stage |-> "closed", row |-> <<>>, seen |-> {}, reply |-> leg[c][n].reply]
  <2>1. SetTo(c, n, l)
    BY <1>9 DEF Lost, SetTo
  <2>2. IsLeg(l) /\ l.reply = leg[c][n].reply
    BY DEF IsLeg
  <2>3. Answers(c, n, l)
    BY <2>2 DEF Answers
  <2>4. \E x : IsLeg(x) /\ SetTo(c, n, x) /\ Answers(c, n, x)
    <3>. HIDE DEF l
    <3>. QED  BY <2>1, <2>2, <2>3, Zenon
  <2>. QED  BY <1>9, <2>4 DEF ServerEffect, Lost, Working, server
<1>. QED
  BY <1>1, <1>2, <1>3, <1>4, <1>5, <1>6, <1>7, <1>8, <1>9, <1>10, <1>11, <1>12 DEF ServerStep

-----------------------------------------------------------------------------
(* The theorems.                                                           *)

LEMMA StepInv == Inv /\ [Next]_vars => Inv'
<1>. SUFFICES ASSUME Inv, [Next]_vars PROVE Inv'
  OBVIOUS
<1>1. ASSUME NEW c \in Call,
             Hit(c) \/ Receive(c) \/ ReadBody(c) \/ Timeout(c) \/ NetworkError(c)
      PROVE  Inv'
  BY <1>1, HitInv, ReceiveInv, ReadBodyInv, GiveUpInv
<1>2. ASSUME NEW c \in Call, Start(c) \/ Resend(c)
      PROVE  Inv'
  BY <1>2, SendInv DEF Start, Resend
<1>3. ASSUME NEW c \in Call, NEW n \in 1..Attempts,
             ServerStep(c, n) \/ QueryFails(c, n) \/ GatewayFails(c, n) \/ Lost(c, n)
      PROVE  Inv'
  BY <1>3, ServerStepInv DEF Legs
<1>4. CASE ClearCache
  <2>1. TypeOK' /\ Shape' /\ Reach'
    BY <1>4 DEF Inv, TypeOK, Shape, Reach, ClearCache, MaxAttempts, server
  <2>2. Progress' /\ Told' /\ AnswersAreOwn'
    BY <1>4 DEF Inv, Progress, Told, AnswersAreOwn, ClearCache, MaxAttempts, Reply, server
  <2>3. Answered'
    BY <1>4 DEF Inv, Answered, Own, Cached, ClearCache
  <2>. QED  BY <2>1, <2>2, <2>3 DEF Inv
<1>5. CASE Tick
  <2>1. TypeOK' /\ Shape' /\ Reach'
    BY <1>5, SdkRequestsAssumption
       DEF Inv, TypeOK, Shape, Reach, Tick, MaxAttempts, server
  <2>2. Progress' /\ Told' /\ AnswersAreOwn'
    BY <1>5 DEF Inv, Progress, Told, AnswersAreOwn, Tick, MaxAttempts, Reply, server
  <2>3. Answered'
    BY <1>5, AnsweredStays DEF Tick
  <2>. QED  BY <2>1, <2>2, <2>3 DEF Inv
<1>6. CASE UNCHANGED vars
  <2>1. TypeOK' /\ Shape' /\ Reach'
    BY <1>6 DEF Inv, TypeOK, Shape, Reach, vars, client, server, MaxAttempts
  <2>2. Progress' /\ Told' /\ AnswersAreOwn'
    BY <1>6 DEF Inv, Progress, Told, AnswersAreOwn, vars, client, server, MaxAttempts, Reply
  <2>3. Answered'
    BY <1>6, AnsweredStays DEF vars, client
  <2>. QED  BY <2>1, <2>2, <2>3 DEF Inv
<1>. QED  BY <1>1, <1>2, <1>3, <1>4, <1>5, <1>6 DEF Next

LEMMA SpecInv == Spec => []Inv
BY InitInv, StepInv, PTL DEF Spec

\* Variables keep their types, and no call ever makes more attempts than its
\* client's retry setting (the loop of ApsoClient.request).
THEOREM TypeCorrect == Spec => []TypeOK
<1>1. Inv => TypeOK
  BY DEF Inv
<1>. QED  BY <1>1, SpecInv, PTL

\* A request is carried out twice only after the client could not know of the
\* first time, and a write the client was told is done has been carried out.
THEOREM DuplicatesExplained == Spec => []DuplicatesNeedALostAnswer
<1>1. Inv => DuplicatesNeedALostAnswer
  <2>. SUFFICES ASSUME Inv, NEW c \in Call
                PROVE  /\ \A m, n \in made[c] : m < n => m \in blind[c]
                       /\ phase[c] = "done" /\ plan[c].op # "getOne" => made[c] # {}
    BY DEF DuplicatesNeedALostAnswer
  <2>1. ASSUME NEW m \in made[c], NEW n \in made[c], m < n
        PROVE  m \in blind[c]
    <3>1. m \in Legs /\ n \in Legs /\ n <= attempt[c] /\ attempt[c] \in Nat
      BY DEF Inv, TypeOK, Reach
    <3>2. m < attempt[c]
      BY <2>1, <3>1, SdkRequestsAssumption DEF Legs
    <3>. QED  BY <3>1, <3>2 DEF Inv, Progress
  <2>. QED  BY <2>1 DEF Inv, Told
<1>. QED  BY <1>1, SpecInv, PTL

\* What a get answers, from the server or from the cache, late or after
\* retries, is one row that the auth filter admitted, and the row of its route
\* where the WHERE names it (getOne, applyWhere, ApsoClient.get).
THEOREM AnswersOwn == Spec => []AnswersAreOwn
<1>1. Inv => AnswersAreOwn
  BY DEF Inv
<1>. QED  BY <1>1, SpecInv, PTL

-----------------------------------------------------------------------------
(* The table.  A write is right about its row only if keys stay unique and *)
(* below the sequence, if the row it found is kept until it is saved, and  *)
(* if nobody takes back a pinned value a save has read.                    *)

IsRow(row) == Column \subseteq DOMAIN row /\ row[PrimaryKey] \in 1..(nextKey - 1)

TableInv ==
    /\ nextKey \in Nat
    /\ nextKey > Cardinality(InitialRows)
    /\ \A row \in table : IsRow(row)
    /\ \A row, other \in table : row[PrimaryKey] = other[PrimaryKey] => row = other

\* A row found for a write is one its WHERE admits.
FoundRow(c, l) ==
    /\ l.stage = "found" => plan[c].op \in Writes
    /\ l.stage = "saving" =>
        \/ plan[c].op \in {"updateOne", "replaceOne"}
        \/ plan[c].op = "createOne" /\ PrimaryKey \in DOMAIN Body(c)
    /\ l.stage \in {"found", "saving"} /\ plan[c].op \in Writes =>
        /\ IsRow(l.row)
        /\ Admitted(l.row)
        /\ ByRoute(plan[c].dialect) => l.row[PrimaryKey] = plan[c].id

\* The key a save goes by.
KeyOf(c, l) == IF plan[c].op = "createOne" THEN Body(c)[PrimaryKey] ELSE l.row[PrimaryKey]

\* What a save has read pinned under a key is still pinned there.
StillPinned(seen, key) ==
    \A r \in seen : \A x \in DOMAIN Persist :
        r[x] = Persist[x] => \A row \in Stored(table, key) : row[x] = Persist[x]

LegsInv ==
    \A c \in Call, n \in Legs :
        /\ FoundRow(c, leg[c][n])
        /\ leg[c][n].stage = "saving" => StillPinned(leg[c][n].seen, KeyOf(c, leg[c][n]))
        /\ n \in made[c] => leg[c][n].stage = "closed"

\* The values the auth layer pins are those a body saves.
Pinned(body) == \A x \in DOMAIN Persist : x \in DOMAIN body /\ body[x] = Persist[x]

LEMMA PrimaryKeyNotPinned == PrimaryKey \in Column /\ PrimaryKey \notin DOMAIN Persist
BY RecordServiceAssumption

LEMMA CreateBodyPinned ==
    ASSUME NEW body
    PROVE  /\ Pinned(CreateBody(body))
           /\ PrimaryKey \in DOMAIN body =>
                /\ PrimaryKey \in DOMAIN CreateBody(body)
                /\ CreateBody(body)[PrimaryKey] = body[PrimaryKey]
           /\ PrimaryKey \notin DOMAIN body => PrimaryKey \notin DOMAIN CreateBody(body)
BY PrimaryKeyNotPinned DEF Pinned, CreateBody, WithAuthPersist, Over

LEMMA KeyedPinned ==
    ASSUME NEW body, PrimaryKey \notin DOMAIN body, NEW key
    PROVE  /\ \A x \in DOMAIN Persist :
                Inserted(Keyed(CreateBody(body), key))[x] = Persist[x]
           /\ Column \subseteq DOMAIN Inserted(Keyed(CreateBody(body), key))
           /\ Inserted(Keyed(CreateBody(body), key))[PrimaryKey] = key
BY CreateBodyPinned, PrimaryKeyNotPinned DEF Pinned, Keyed, Inserted, Over

LEMMA UpdateBodyPinned ==
    ASSUME NEW row, PrimaryKey \in DOMAIN row, NEW body
    PROVE  /\ Pinned(UpdateBody(row, body))
           /\ PrimaryKey \in DOMAIN UpdateBody(row, body)
           /\ UpdateBody(row, body)[PrimaryKey] = row[PrimaryKey]
BY PrimaryKeyNotPinned DEF Pinned, UpdateBody, StripPrimaryKeys, WithAuthPersist, Over

LEMMA ReplaceBodyPinned ==
    ASSUME NEW row, NEW body
    PROVE  /\ Pinned(ReplaceBody(row, body))
           /\ PrimaryKey \in DOMAIN ReplaceBody(row, body)
           /\ ReplaceBody(row, body)[PrimaryKey] = row[PrimaryKey]
BY PrimaryKeyNotPinned
   DEF Pinned, ReplaceBody, PrimaryKeyValues, StripPrimaryKeys, WithAuthPersist, Over

\* repository.save changes the row of its key, which gets the columns saved.
LEMMA SavedRows ==
    ASSUME TableInv, NEW body, PrimaryKey \in DOMAIN body, Pinned(body), NEW seen,
           ~DuplicateKey(table, body, seen), StillPinned(seen, body[PrimaryKey]),
           NEW t, t = Saved(table, body, seen)
    PROVE  /\ \A row \in table \ t : row[PrimaryKey] = body[PrimaryKey]
           /\ \A row \in t \ table : \A x \in DOMAIN Persist : row[x] = Persist[x]
           /\ \A row \in t \ table : row[PrimaryKey] = body[PrimaryKey]
           /\ \A row \in t : row \in table \/ Column \subseteq DOMAIN row
           /\ \A row, other \in t : row[PrimaryKey] = other[PrimaryKey] => row = other
<1>. DEFINE k == body[PrimaryKey]
            new(row) == Over(Changes(body, seen), row)
            kept(row) == IF row[PrimaryKey] = k THEN new(row) ELSE row
<1>1. CASE seen = {}
  <2>1. t = table \cup {Inserted(body)}
    BY <1>1 DEF Saved
  <2>2. /\ \A x \in DOMAIN body : Inserted(body)[x] = body[x]
        /\ Column \subseteq DOMAIN Inserted(body)
    BY DEF Inserted, Over
  <2>3. \A row \in table : row[PrimaryKey] # k
    BY <1>1 DEF DuplicateKey, Stored
  <2>. QED  BY <2>1, <2>2, <2>3 DEF TableInv, Pinned
<1>2. CASE seen # {}
  <2>1. t = {kept(row) : row \in table}
    BY <1>2 DEF Saved
  <2>2. ASSUME NEW row \in table, row[PrimaryKey] = k
        PROVE  /\ Column \subseteq DOMAIN new(row)
               /\ new(row)[PrimaryKey] = k
               /\ \A x \in DOMAIN Persist : new(row)[x] = Persist[x]
    <3>1. Column \subseteq DOMAIN row
      BY DEF TableInv, IsRow
    <3>2. \A x \in DOMAIN new(row) :
            new(row)[x] = IF x \in DOMAIN Changes(body, seen) THEN body[x] ELSE row[x]
      BY DEF Over, Changes
    <3>3. Column \subseteq DOMAIN new(row)
      BY <3>1 DEF Over
    <3>4. new(row)[PrimaryKey] = k
      BY <2>2, <3>2, <3>3, PrimaryKeyNotPinned
    <3>5. ASSUME NEW x \in DOMAIN Persist
          PROVE  new(row)[x] = Persist[x]
      <4>1. x \in DOMAIN new(row) /\ x \in DOMAIN body /\ body[x] = Persist[x]
        BY <3>3, RecordServiceAssumption DEF Pinned
      <4>2. CASE x \in DOMAIN Changes(body, seen)
        BY <3>2, <4>1, <4>2
      <4>3. CASE x \notin DOMAIN Changes(body, seen)
        <5>1. PICK r \in seen : r[x] = body[x]
          BY <4>1, <4>3 DEF Changes
        <5>2. row[x] = Persist[x]
          BY <2>2, <4>1, <5>1 DEF StillPinned, Stored
        <5>. QED  BY <3>2, <4>1, <4>3, <5>2
      <4>. QED  BY <4>2, <4>3
    <3>. QED  BY <3>3, <3>4, <3>5
  <2>. HIDE DEF k, new
  <2>3. \A row \in table : kept(row)[PrimaryKey] = row[PrimaryKey]
    BY <2>2
  <2>4. \A row \in t : \E old \in table : row = kept(old)
    BY <2>1
  <2>5. \A row, other \in t : row[PrimaryKey] = other[PrimaryKey] => row = other
    BY <2>3, <2>4 DEF TableInv
  <2>6. \A row \in table : row[PrimaryKey] # k => row \in t
    BY <2>1
  <2>. HIDE DEF kept
  <2>7. \A row \in t \ table : \E old \in table : old[PrimaryKey] = k /\ row = new(old)
    BY <2>4 DEF kept
  <2>8. \A row \in table \ t : row[PrimaryKey] = k
    BY <2>6
  <2>9. \A row \in t \ table :
          /\ row[PrimaryKey] = k /\ Column \subseteq DOMAIN row
          /\ \A x \in DOMAIN Persist : row[x] = Persist[x]
    BY <2>2, <2>7
  <2>. QED  BY <2>5, <2>8, <2>9 DEF k
<1>. QED  BY <1>1, <1>2

\* A save of pinned values under a key the sequence has passed.
LEMMA SaveStep ==
    ASSUME TableInv, NEW body, PrimaryKey \in DOMAIN body, Pinned(body), NEW seen,
           ~DuplicateKey(table, body, seen), StillPinned(seen, body[PrimaryKey]),
           table' = Saved(table, body, seen), nextKey' = nextKey,
           body[PrimaryKey] \in 1..(nextKey - 1)
    PROVE  /\ TableInv'
           /\ \A row \in table \ table' : row[PrimaryKey] = body[PrimaryKey]
           /\ \A row \in table' \ table : \A x \in DOMAIN Persist : row[x] = Persist[x]
<1>1. /\ \A row \in table \ table' : row[PrimaryKey] = body[PrimaryKey]
      /\ \A row \in table' \ table : \A x \in DOMAIN Persist : row[x] = Persist[x]
      /\ \A row \in table' \ table : row[PrimaryKey] = body[PrimaryKey]
      /\ \A row \in table' : row \in table \/ Column \subseteq DOMAIN row
      /\ \A row, other \in table' : row[PrimaryKey] = other[PrimaryKey] => row = other
  BY SavedRows
<1>2. \A row \in table' : IsRow(row)'
  <2>. SUFFICES ASSUME NEW row \in table'
                PROVE  Column \subseteq DOMAIN row /\ row[PrimaryKey] \in 1..(nextKey' - 1)
    BY DEF IsRow
  <2>1. CASE row \in table
    BY <2>1 DEF TableInv, IsRow
  <2>2. CASE row \notin table
    BY <1>1, <2>2
  <2>. QED  BY <2>1, <2>2
<1>3. TableInv'
  BY <1>1, <1>2 DEF TableInv
<1>. QED  BY <1>1, <1>3

\* What a body brings; the sequence has passed every key brought to createOne.
LEMMA BodyKeys ==
    ASSUME Inv, NEW c \in Call, BodiesOf(c) # <<>>
    PROVE  /\ Len(BodiesOf(c)) \in Nat /\ DOMAIN BodiesOf(c) = 1..Len(BodiesOf(c))
           /\ Body(c) = plan[c].bodies[1] /\ 1 \in DOMAIN plan[c].bodies
           /\ BodiesOf(c) = plan[c].bodies
<1>1. BodiesOf(c) = plan[c].bodies
  BY DEF BodiesOf
<1>2. plan[c].bodies \in Seq({plan[c].bodies[i] : i \in DOMAIN plan[c].bodies})
  BY PlanAssumption DEF Inv, TypeOK
<1>. QED  BY <1>1, <1>2 DEF Body

LEMMA BodyKey ==
    ASSUME Inv, NEW c \in Call, plan[c].op = "createOne", PrimaryKey \in DOMAIN Body(c)
    PROVE  Body(c)[PrimaryKey] \in 1..Cardinality(InitialRows)
<1>1. CASE BodiesOf(c) = <<>>
  BY <1>1 DEF Body
<1>2. CASE BodiesOf(c) # <<>>
  BY <1>2, BodyKeys, PlanAssumption DEF Inv, TypeOK
<1>. QED  BY <1>1, <1>2

\* What a step that carries out attempt n of call c does to the rows.
RowEffect(c, n) ==
    /\ \A row \in table \ table' :
        \/ /\ plan[c].op \in Writes
           /\ leg[c][n].row[PrimaryKey] = row[PrimaryKey]
           /\ Admitted(leg[c][n].row)
           /\ ByRoute(plan[c].dialect) => row[PrimaryKey] = plan[c].id
        \/ /\ plan[c].op = "createOne"
           /\ PrimaryKey \in DOMAIN Body(c)
           /\ Body(c)[PrimaryKey] = row[PrimaryKey]
    /\ \A row \in table' \ table : \A x \in DOMAIN Persist : row[x] = Persist[x]

LEMMA CreateOneRows ==
    ASSUME Inv, TableInv, NEW c \in Call, NEW n \in Legs, CreateOne(c, n)
    PROVE  TableInv' /\ nextKey' >= nextKey /\ RowEffect(c, n)
<1>. DEFINE new == Inserted(Keyed(CreateBody(Body(c)), nextKey))
<1>1. /\ table' = table \cup {new} /\ PrimaryKey \notin DOMAIN Body(c)
      /\ nextKey' = nextKey + 1
  BY DEF CreateOne
<1>2. /\ \A x \in DOMAIN Persist : new[x] = Persist[x]
      /\ Column \subseteq DOMAIN new
      /\ new[PrimaryKey] = nextKey
  BY <1>1, KeyedPinned
<1>. HIDE DEF new
<1>3. nextKey \in Nat /\ nextKey > Cardinality(InitialRows) /\ Cardinality(InitialRows) \in Nat
  BY TableAssumption, FS_CardinalityType DEF TableInv
<1>4. \A row \in table' : IsRow(row)'
  BY <1>1, <1>2, <1>3 DEF TableInv, IsRow
<1>5. \A row, other \in table' : row[PrimaryKey] = other[PrimaryKey] => row = other
  BY <1>1, <1>2, <1>3 DEF TableInv, IsRow
<1>6. TableInv' /\ nextKey' >= nextKey
  BY <1>1, <1>3, <1>4, <1>5 DEF TableInv
<1>. QED  BY <1>1, <1>2, <1>6 DEF RowEffect

LEMMA CreateManyRows ==
    ASSUME Inv, TableInv, NEW c \in Call, NEW n \in Legs, CreateMany(c, n), BodiesOf(c) # <<>>
    PROVE  TableInv' /\ nextKey' >= nextKey /\ RowEffect(c, n)
<1>. DEFINE b == BodiesOf(c)
            new(i) == Inserted(Keyed(CreateBody(b[i]), nextKey + i - 1))
<1>1. /\ table' = table \cup {new(i) : i \in DOMAIN b} /\ plan[c].op = "createMany"
      /\ nextKey' = nextKey + Len(b)
  BY DEF CreateMany, Handling
<1>2. Len(b) \in Nat /\ DOMAIN b = 1..Len(b) /\ \A i \in DOMAIN b : PrimaryKey \notin DOMAIN b[i]
  BY <1>1, BodyKeys, PlanAssumption DEF Inv, TypeOK
<1>3. ASSUME NEW i \in DOMAIN b
      PROVE  /\ new(i)[PrimaryKey] = nextKey + i - 1
             /\ Column \subseteq DOMAIN new(i)
             /\ \A x \in DOMAIN Persist : new(i)[x] = Persist[x]
  <2>. DEFINE body == b[i]
              key == nextKey + i - 1
  <2>1. PrimaryKey \notin DOMAIN body
    BY <1>2
  <2>. HIDE DEF body, key
  <2>2. /\ \A x \in DOMAIN Persist : Inserted(Keyed(CreateBody(body), key))[x] = Persist[x]
        /\ Column \subseteq DOMAIN Inserted(Keyed(CreateBody(body), key))
        /\ Inserted(Keyed(CreateBody(body), key))[PrimaryKey] = key
    BY <2>1, KeyedPinned
  <2>. QED  BY <2>2 DEF body, key
<1>. HIDE DEF new, b
<1>4. nextKey \in Nat /\ nextKey > Cardinality(InitialRows) /\ Cardinality(InitialRows) \in Nat
  BY TableAssumption, FS_CardinalityType DEF TableInv
<1>5. \A row \in table' : row \in table \/ \E i \in DOMAIN b : row = new(i)
  BY <1>1
<1>6. \A row \in table' : IsRow(row)'
  BY <1>1, <1>2, <1>3, <1>4, <1>5 DEF TableInv, IsRow
<1>7. \A row, other \in table' : row[PrimaryKey] = other[PrimaryKey] => row = other
  BY <1>2, <1>3, <1>4, <1>5 DEF TableInv, IsRow
<1>8. TableInv' /\ nextKey' >= nextKey
  BY <1>1, <1>2, <1>4, <1>6, <1>7 DEF TableInv
<1>9. table \ table' = {}
  BY <1>1
<1>10. \A row \in table' \ table : \A x \in DOMAIN Persist : row[x] = Persist[x]
  BY <1>3, <1>5
<1>. QED  BY <1>8, <1>9, <1>10 DEF RowEffect

LEMMA ToSavePinned ==
    ASSUME Inv, TableInv, LegsInv, NEW c \in Call, NEW n \in Legs,
           \/ leg[c][n].stage = "saving"
           \/ leg[c][n].stage = "found" /\ plan[c].op \in {"updateOne", "replaceOne"}
           \/ plan[c].op = "createOne" /\ PrimaryKey \in DOMAIN Body(c)
    PROVE  /\ PrimaryKey \in DOMAIN ToSave(c, n) /\ Pinned(ToSave(c, n))
           /\ ToSave(c, n)[PrimaryKey] = KeyOf(c, leg[c][n])
           /\ ToSave(c, n)[PrimaryKey] \in 1..(nextKey - 1)
<1>. DEFINE row == leg[c][n].row
<1>1. FoundRow(c, leg[c][n])
  BY DEF LegsInv
<1>2. CASE plan[c].op = "updateOne"
  <2>1. PrimaryKey \in DOMAIN row /\ row[PrimaryKey] \in 1..(nextKey - 1)
    BY <1>1, <1>2, PrimaryKeyNotPinned DEF FoundRow, IsRow, Writes
  <2>. QED  BY <1>2, <2>1, UpdateBodyPinned DEF ToSave, KeyOf
<1>3. CASE plan[c].op = "replaceOne"
  <2>1. row[PrimaryKey] \in 1..(nextKey - 1)
    BY <1>1, <1>3 DEF FoundRow, IsRow, Writes
  <2>. QED  BY <1>3, <2>1, ReplaceBodyPinned DEF ToSave, KeyOf
<1>4. CASE plan[c].op = "createOne"
  <2>1. PrimaryKey \in DOMAIN Body(c)
    BY <1>1, <1>4 DEF FoundRow
  <2>2. Body(c)[PrimaryKey] \in 1..(nextKey - 1)
    <3>1. Cardinality(InitialRows) \in Nat
      BY TableAssumption, FS_CardinalityType
    <3>. QED  BY <1>4, <2>1, <3>1, BodyKey DEF TableInv
  <2>. QED  BY <1>4, <2>1, <2>2, CreateBodyPinned DEF ToSave, KeyOf
<1>. QED  BY <1>1, <1>2, <1>3, <1>4 DEF FoundRow

LEMMA StoreRowRows ==
    ASSUME Inv, TableInv, LegsInv, NEW c \in Call, NEW n \in Legs, StoreRow(c, n),
           ~DuplicateKey(table, ToSave(c, n), leg[c][n].seen)
    PROVE  TableInv' /\ nextKey' = nextKey /\ RowEffect(c, n)
<1>. DEFINE body == ToSave(c, n)
<1>1. /\ leg[c][n].stage = "saving" /\ nextKey' = nextKey
      /\ table' = Saved(table, body, leg[c][n].seen)
  BY DEF StoreRow
<1>2. /\ PrimaryKey \in DOMAIN body /\ Pinned(body)
      /\ body[PrimaryKey] = KeyOf(c, leg[c][n])
      /\ body[PrimaryKey] \in 1..(nextKey - 1)
  BY <1>1, ToSavePinned
<1>3. StillPinned(leg[c][n].seen, body[PrimaryKey]) /\ FoundRow(c, leg[c][n])
  BY <1>1, <1>2 DEF LegsInv
<1>. HIDE DEF body
<1>4. /\ TableInv'
      /\ \A r \in table \ table' : r[PrimaryKey] = body[PrimaryKey]
      /\ \A r \in table' \ table : \A x \in DOMAIN Persist : r[x] = Persist[x]
  BY <1>1, <1>2, <1>3, SaveStep DEF body
<1>5. \/ /\ plan[c].op \in Writes /\ Admitted(leg[c][n].row)
         /\ body[PrimaryKey] = leg[c][n].row[PrimaryKey]
         /\ ByRoute(plan[c].dialect) => leg[c][n].row[PrimaryKey] = plan[c].id
      \/ /\ plan[c].op = "createOne" /\ PrimaryKey \in DOMAIN Body(c)
         /\ body[PrimaryKey] = Body(c)[PrimaryKey]
  BY <1>1, <1>2, <1>3 DEF FoundRow, KeyOf, Writes
<1>. QED  BY <1>1, <1>4, <1>5 DEF RowEffect

LEMMA RemoveRowRows ==
    ASSUME Inv, TableInv, LegsInv, NEW c \in Call, NEW n \in Legs, RemoveRow(c, n)
    PROVE  TableInv' /\ nextKey' = nextKey /\ RowEffect(c, n)
<1>1. /\ plan[c].op \in Writes /\ Admitted(leg[c][n].row)
      /\ ByRoute(plan[c].dialect) => leg[c][n].row[PrimaryKey] = plan[c].id
  BY DEF RemoveRow, LegsInv, FoundRow, Writes
<1>2. table' = table \ Stored(table, leg[c][n].row[PrimaryKey]) /\ nextKey' = nextKey
  BY DEF RemoveRow, Removed
<1>3. TableInv'
  BY <1>2 DEF TableInv, IsRow
<1>. QED  BY <1>1, <1>2, <1>3 DEF RowEffect, Stored

-----------------------------------------------------------------------------
(* The legs, which hold the rows found.                                    *)

LEMMA TableInit == Init => TableInv /\ LegsInv
<1>. SUFFICES ASSUME Init PROVE TableInv /\ LegsInv
  OBVIOUS
<1>1. Cardinality(InitialRows) \in Nat
  BY TableAssumption, FS_CardinalityType
<1>2. TableInv
  BY <1>1, TableAssumption DEF Init, TableInv, IsRow
<1>3. LegsInv
  BY DEF Init, LegsInv, FoundRow, Unsent, Legs
<1>. QED  BY <1>2, <1>3

\* A step that sets a leg and may carry it out.
LEMMA SetLegsInv ==
    ASSUME Inv, LegsInv, TableInv, NEW c \in Call, NEW n \in Legs,
           NEW l, IsLeg(l), SetTo(c, n, l), UNCHANGED <<plan, result>>,
           nextKey' >= nextKey, nextKey' \in Nat,
           \A row \in table' \ table : \A x \in DOMAIN Persist : row[x] = Persist[x],
           \/ made' = made /\ (n \in made[c] => l.stage = "closed")
           \/ made' = [made EXCEPT ![c] = made[c] \cup {n}] /\ l.stage = "closed",
           FoundRow(c, l),
           l.stage = "saving" => StillPinned(l.seen, KeyOf(c, l))
    PROVE  LegsInv'
<1>1. Shape
  BY DEF Inv
<1>2. \A d \in Call, m \in Legs : leg'[d][m] = IF d = c /\ m = n THEN l ELSE leg[d][m]
  BY <1>1, SetLeg
<1>3. /\ \A row : IsRow(row) => IsRow(row)'
      /\ \A seen, key : StillPinned(seen, key) => StillPinned(seen, key)'
      /\ \A d : Body(d)' = Body(d)
  <2>1. \A row : IsRow(row) => IsRow(row)'
    BY DEF IsRow, TableInv
  <2>2. \A seen, key : StillPinned(seen, key) => StillPinned(seen, key)'
    BY DEF StillPinned, Stored
  <2>. QED  BY <2>1, <2>2 DEF Body, BodiesOf
<1>4. ASSUME NEW d \in Call, NEW m \in Legs
      PROVE  /\ FoundRow(d, leg[d][m])'
             /\ (leg[d][m].stage = "saving" =>
                    StillPinned(leg[d][m].seen, KeyOf(d, leg[d][m])))'
  <2>. DEFINE k == leg'[d][m]
  <2>1. FoundRow(d, k) /\ (k.stage = "saving" => StillPinned(k.seen, KeyOf(d, k)))
    <3>1. CASE d = c /\ m = n
      BY <1>2, <3>1
    <3>2. CASE ~(d = c /\ m = n)
      BY <1>2, <3>2 DEF LegsInv
    <3>. QED  BY <3>1, <3>2
  <2>2. FoundRow(d, leg[d][m])'
    BY <1>3, <2>1 DEF FoundRow
  <2>3. ASSUME k.stage = "saving"
        PROVE  StillPinned(leg[d][m].seen, KeyOf(d, leg[d][m]))'
    <3>1. KeyOf(d, leg[d][m])' = KeyOf(d, k)
      BY <1>3 DEF KeyOf
    <3>2. StillPinned(k.seen, KeyOf(d, k))
      BY <2>1, <2>3
    <3>3. ASSUME NEW r \in k.seen, NEW x \in DOMAIN Persist, r[x] = Persist[x],
                 NEW row \in Stored(table', KeyOf(d, k))
          PROVE  row[x] = Persist[x]
      BY <3>2, <3>3 DEF StillPinned, Stored
    <3>. QED  BY <3>1, <3>3 DEF StillPinned, Stored
  <2>. QED  BY <2>2, <2>3
<1>5. \A d \in Call, m \in Legs : m \in made'[d] => leg'[d][m].stage = "closed"
  <2>1. \A d \in Call : \A m \in made'[d] : m \in made[d] \/ (d = c /\ m = n)
    BY DEF Inv, TypeOK
  <2>. QED  BY <1>2, <2>1 DEF LegsInv
<1>. QED  BY <1>4, <1>5 DEF LegsInv

LEMMA SendLegsInv ==
    ASSUME Inv, TableInv, LegsInv, NEW c \in Call, Send(c), phase[c] \in {"idle", "sleeping"}
    PROVE  TableInv' /\ LegsInv'
<1>. DEFINE k == attempt[c] + 1
            l == [stage |-> "sent", row |-> leg[c][k].row, seen |-> leg[c][k].seen,
                  reply |-> leg[c][k].reply]
<1>1. k \in Legs /\ k \notin made[c]
  BY MaxAttemptsType, SdkRequestsAssumption DEF Inv, TypeOK, Progress, Reach, Legs
<1>2. /\ UNCHANGED <<plan, result, table, nextKey, made>>
      /\ leg' = [leg EXCEPT ![c][k].stage = "sent"]
  BY DEF Send, server
<1>3. SetTo(c, k, l)
  <2>1. IsLeg(leg[c][k])
    BY <1>1 DEF Inv, Shape
  <2>2. [leg[c][k] EXCEPT !.stage = "sent"] = l
    BY SetStage, <2>1
  <2>3. leg' = [leg EXCEPT ![c][k] = l]
    BY <1>2, <2>2, Zenon
  <2>. QED  BY <2>3 DEF SetTo
<1>4. IsLeg(l) /\ FoundRow(c, l) /\ l.stage = "sent"
  BY DEF IsLeg, FoundRow
<1>5. nextKey' >= nextKey /\ nextKey' \in Nat
  BY <1>2 DEF TableInv
<1>. HIDE DEF k, l
<1>6. LegsInv'
  BY <1>1, <1>2, <1>3, <1>4, <1>5, SetLegsInv
<1>7. TableInv'
  BY <1>2 DEF TableInv, IsRow
<1>. QED  BY <1>6, <1>7

LEMMA ClosedLegsInv ==
    ASSUME Inv, TableInv, LegsInv, NEW c \in Call, NEW n \in Legs, NEW status, NEW data,
           Closed(c, n, status, data), UNCHANGED <<plan, result>>,
           nextKey' >= nextKey, nextKey' \in Nat,
           \A row \in table' \ table : \A x \in DOMAIN Persist : row[x] = Persist[x],
           made' = made \/ made' = [made EXCEPT ![c] = made[c] \cup {n}]
    PROVE  LegsInv'
<1>. DEFINE r == IF leg[c][n].reply = Nothing THEN [status |-> status, data |-> data]
                 ELSE leg[c][n].reply
            l == [stage |-> "closed", row |-> <<>>, seen |-> {}, reply |-> r]
<1>1. SetTo(c, n, l)
  BY DEF Closed, SetTo
<1>2. IsLeg(l) /\ FoundRow(c, l) /\ l.stage = "closed"
  BY DEF IsLeg, FoundRow
<1>. HIDE DEF l
<1>. QED  BY <1>1, <1>2, SetLegsInv

\* Steps of the server and the network that carry nothing out.
Idles(c, n) ==
    \/ NotFound(c, n) \/ GetOne(c, n) \/ FindRow(c, n) \/ SaveReads(c, n)
    \/ RecoverOne(c, n) \/ QueryFails(c, n)
    \/ CreateMany(c, n) /\ BodiesOf(c) = <<>>
    \/ StoreRow(c, n) /\ DuplicateKey(table, ToSave(c, n), leg[c][n].seen)
    \/ GatewayFails(c, n) \/ Lost(c, n)

LEMMA IdleServerInv ==
    ASSUME Inv, TableInv, LegsInv, NEW c \in Call, NEW n \in Legs, Idles(c, n)
    PROVE  TableInv' /\ LegsInv' /\ UNCHANGED <<plan, table, made>>
<1>1. UNCHANGED <<plan, result, table, nextKey, made>>
  BY DEF Idles, NotFound, GetOne, FindRow, SaveReads, RecoverOne, QueryFails, CreateMany,
         StoreRow, GatewayFails, Lost, client, server
<1>2. TableInv' /\ nextKey' >= nextKey /\ nextKey' \in Nat /\ table' \ table = {}
  BY <1>1 DEF TableInv, IsRow
<1>3. n \notin made[c] \/ leg[c][n].stage = "closed"
  BY DEF LegsInv
<1>4. /\ IsLeg(leg[c][n]) /\ Shape /\ FoundRow(c, leg[c][n])
      /\ leg[c][n].stage = "saving" => StillPinned(leg[c][n].seen, KeyOf(c, leg[c][n]))
  BY DEF Inv, Shape, LegsInv
<1>5. ASSUME NEW status, NEW data, Closed(c, n, status, data)
      PROVE  LegsInv'
  BY <1>1, <1>2, <1>5, ClosedLegsInv
<1>6. CASE \/ NotFound(c, n) \/ GetOne(c, n) \/ RecoverOne(c, n) \/ QueryFails(c, n)
           \/ CreateMany(c, n) /\ BodiesOf(c) = <<>>
           \/ StoreRow(c, n) /\ DuplicateKey(table, ToSave(c, n), leg[c][n].seen)
           \/ FindRow(c, n) /\ Closed(c, n, 404, {})
  <2>1. PICK status, data : Closed(c, n, status, data)
    BY <1>6, Zenon DEF NotFound, GetOne, RecoverOne, QueryFails, CreateMany, StoreRow
  <2>. QED  BY <1>1, <1>2, <1>5, <2>1
<1>7. CASE FindRow(c, n) /\ ~Closed(c, n, 404, {})
  <2>. DEFINE l(row) == [stage |-> "found", row |-> row, seen |-> {}, reply |-> leg[c][n].reply]
  <2>1. PICK row \in TargetsOf(c) : SetTo(c, n, l(row))
    BY <1>7, Zenon DEF FindRow, SetTo
  <2>2. IsLeg(l(row)) /\ n \notin made[c] /\ l(row).stage = "found"
    BY <1>7, <1>3 DEF IsLeg, FindRow, Handling
  <2>3. FoundRow(c, l(row))
    BY <1>7 DEF FindRow, FoundRow, TargetsOf, Targets, TableInv
  <2>. HIDE DEF l
  <2>. QED  BY <1>1, <1>2, <2>1, <2>2, <2>3, SetLegsInv
<1>8. CASE SaveReads(c, n)
  <2>. DEFINE l == [stage |-> "saving", row |-> leg[c][n].row,
                    seen |-> Stored(table, ToSave(c, n)[PrimaryKey]), reply |-> leg[c][n].reply]
  <2>1. SetTo(c, n, l) /\ IsLeg(l) /\ l.stage = "saving" /\ l.row = leg[c][n].row
        /\ l.seen = Stored(table, ToSave(c, n)[PrimaryKey]) /\ n \notin made[c]
    BY <1>3, <1>8 DEF SaveReads, Handling, SetTo, IsLeg
  <2>. HIDE DEF l
  <2>2. \/ leg[c][n].stage = "found" /\ plan[c].op \in {"updateOne", "replaceOne"}
        \/ plan[c].op = "createOne" /\ PrimaryKey \in DOMAIN Body(c)
    BY <1>8 DEF SaveReads, Handling
  <2>3. FoundRow(c, l)
    BY <1>4, <2>1, <2>2 DEF FoundRow, Writes
  <2>4. ToSave(c, n)[PrimaryKey] = KeyOf(c, l)
    BY <2>1, <2>2, ToSavePinned DEF KeyOf
  <2>5. StillPinned(l.seen, KeyOf(c, l))
    <3>1. \A r, row \in Stored(table, KeyOf(c, l)) : r = row
      BY DEF Stored, TableInv
    <3>. QED  BY <2>1, <2>4, <3>1 DEF StillPinned
  <2>. QED  BY <1>1, <1>2, <2>1, <2>3, <2>5, SetLegsInv
<1>9. CASE GatewayFails(c, n)
  <2>. DEFINE l == [leg[c][n] EXCEPT !.reply = [status |-> 503, data |-> {}]]
  <2>1. SetTo(c, n, l)
    BY <1>4, <1>9 DEF Shape, GatewayFails, SetTo
  <2>2. IsLeg(l) /\ l.stage = leg[c][n].stage /\ l.row = leg[c][n].row /\ l.seen = leg[c][n].seen
    <3>1. l = [stage |-> leg[c][n].stage, row |-> leg[c][n].row, seen |-> leg[c][n].seen,
               reply |-> [status |-> 503, data |-> {}]]
      BY <1>4, SetReply
    <3>. HIDE DEF l
    <3>. QED  BY <3>1 DEF IsLeg
  <2>. HIDE DEF l
  <2>3. FoundRow(c, l) /\ n \notin made[c] /\ KeyOf(c, l) = KeyOf(c, leg[c][n])
    BY <1>3, <1>4, <1>9, <2>2 DEF FoundRow, KeyOf, GatewayFails, Working
  <2>. QED  BY <1>1, <1>2, <1>4, <2>1, <2>2, <2>3, SetLegsInv
<1>10. CASE Lost(c, n)
  <2>. DEFINE l == [stage |-> "closed", row |-> <<>>, seen |-> {}, reply |-> leg[c][n].reply]
  <2>1. SetTo(c, n, l)
    BY <1>10 DEF Lost, SetTo
  <2>2. IsLeg(l) /\ l.stage = "closed" /\ FoundRow(c, l)
    BY DEF IsLeg, FoundRow
  <2>. HIDE DEF l
  <2>. QED  BY <1>1, <1>2, <2>1, <2>2, SetLegsInv
<1>. QED  BY <1>2, <1>1, <1>6, <1>7, <1>8, <1>9, <1>10 DEF Idles

\* Steps that carry a request out.
Carries(c, n) ==
    \/ CreateOne(c, n) \/ RemoveRow(c, n)
    \/ CreateMany(c, n) /\ BodiesOf(c) # <<>>
    \/ StoreRow(c, n) /\ ~DuplicateKey(table, ToSave(c, n), leg[c][n].seen)

LEMMA CarriesInv ==
    ASSUME Inv, TableInv, LegsInv, NEW c \in Call, NEW n \in Legs, Carries(c, n)
    PROVE  /\ TableInv' /\ LegsInv' /\ RowEffect(c, n) /\ UNCHANGED plan
           /\ made' = [made EXCEPT ![c] = made[c] \cup {n}] /\ n \notin made[c]
<1>1. TableInv' /\ nextKey' >= nextKey /\ RowEffect(c, n)
  <2>1. nextKey \in Nat
    BY DEF TableInv
  <2>. QED  BY <2>1, CreateOneRows, CreateManyRows, StoreRowRows, RemoveRowRows DEF Carries
<1>2. /\ made' = [made EXCEPT ![c] = made[c] \cup {n}]
      /\ Closed(c, n, 200, {}) /\ UNCHANGED <<plan, result>> /\ leg[c][n].stage # "closed"
  BY DEF Carries, CreateOne, StoreRow, RemoveRow, CreateMany, Handling, client
<1>3. n \notin made[c]
  BY <1>2 DEF LegsInv
<1>4. LegsInv'
  <2>1. nextKey' \in Nat
    BY <1>1 DEF TableInv
  <2>2. \A row \in table' \ table : \A x \in DOMAIN Persist : row[x] = Persist[x]
    BY <1>1 DEF RowEffect
  <2>. QED  BY <1>1, <1>2, <2>1, <2>2, ClosedLegsInv
<1>. QED  BY <1>1, <1>2, <1>3, <1>4

\* Every step leaves the rows alone or carries out one request.
LEMMA StepRows ==
    ASSUME Inv, TableInv, LegsInv, [Next]_vars
    PROVE  /\ TableInv' /\ LegsInv'
           /\ \/ UNCHANGED <<plan, table, made>>
              \/ \E c \in Call : \E n \in Legs : Carries(c, n)
<1>1. ASSUME NEW c \in Call, NEW n \in 1..Attempts,
             ServerStep(c, n) \/ QueryFails(c, n) \/ GatewayFails(c, n) \/ Lost(c, n)
      PROVE  /\ TableInv' /\ LegsInv'
             /\ UNCHANGED <<plan, table, made>> \/ Carries(c, n)
  <2>1. n \in Legs
    BY DEF Legs
  <2>2. Carries(c, n) \/ Idles(c, n)
    BY <1>1 DEF ServerStep, Carries, Idles
  <2>3. CASE Carries(c, n)
    BY <2>1, <2>3, CarriesInv
  <2>4. CASE Idles(c, n)
    BY <2>1, <2>4, IdleServerInv
  <2>. QED  BY <2>2, <2>3, <2>4
<1>2. ASSUME NEW c \in Call, Start(c) \/ Resend(c)
      PROVE  TableInv' /\ LegsInv' /\ UNCHANGED <<plan, table, made>>
  BY <1>2, SendLegsInv DEF Start, Resend, Send, server
<1>3. CASE UNCHANGED <<plan, leg, table, nextKey, made>>
  <2>1. TableInv'
    BY <1>3 DEF TableInv, IsRow
  <2>2. LegsInv'
    BY <1>3 DEF LegsInv, FoundRow, IsRow, StillPinned, Stored, KeyOf, Body, BodiesOf
  <2>. QED  BY <1>3, <2>1, <2>2
<1>4. ASSUME NEW c \in Call,
             Hit(c) \/ Receive(c) \/ ReadBody(c) \/ Timeout(c) \/ NetworkError(c)
      PROVE  UNCHANGED <<plan, leg, table, nextKey, made>>
  BY <1>4 DEF Hit, Receive, ReadBody, Timeout, NetworkError, server
<1>5. ClearCache \/ Tick \/ UNCHANGED vars => UNCHANGED <<plan, leg, table, nextKey, made>>
  BY DEF ClearCache, Tick, vars, client, server
<1>. QED  BY <1>1, <1>2, <1>3, <1>4, <1>5 DEF Next, Legs

LEMMA SpecRows == Spec => [](Inv /\ TableInv /\ LegsInv)
<1>1. Init => Inv /\ TableInv /\ LegsInv
  BY InitInv, TableInit
<1>2. Inv /\ TableInv /\ LegsInv /\ [Next]_vars => (Inv /\ TableInv /\ LegsInv)'
  BY StepInv, StepRows
<1>. QED  BY <1>1, <1>2, PTL DEF Spec

\* A row is changed or removed only by a write that had found it, admitted by
\* the auth filter and named by the route where the WHERE names it, or by a
\* create that brings its key; and rows written have the values the auth layer
\* pins, although a save leaves out the columns it had read with them
\* (updateOne, replaceOne, deleteOne, stripPrimaryKeys, withAuthPersist).
THEOREM TargetOnly == Spec => OnlyTheTarget
<1>. DEFINE A ==
        /\ \A row \in table \ table' : \E c \in Call : \E n \in made'[c] \ made[c] :
            \/ /\ plan[c].op \in Writes
               /\ leg[c][n].row[PrimaryKey] = row[PrimaryKey]
               /\ Admitted(leg[c][n].row)
               /\ ByRoute(plan[c].dialect) => row[PrimaryKey] = plan[c].id
            \/ /\ plan[c].op = "createOne"
               /\ PrimaryKey \in DOMAIN Body(c)
               /\ Body(c)[PrimaryKey] = row[PrimaryKey]
        /\ \A row \in table' \ table : \A x \in DOMAIN Persist : row[x] = Persist[x]
<1>1. Inv /\ TableInv /\ LegsInv /\ [Next]_vars => [A]_vars
  <2>. SUFFICES ASSUME Inv, TableInv, LegsInv, [Next]_vars PROVE A
    BY Zenon
  <2>1. CASE UNCHANGED table
    BY <2>1
  <2>2. ASSUME NEW c \in Call, NEW n \in Legs, Carries(c, n)
        PROVE  A
    <3>1. RowEffect(c, n) /\ n \in made'[c] \ made[c]
      BY <2>2, CarriesInv DEF Inv, TypeOK
    <3>. QED  BY <3>1 DEF RowEffect
  <2>. HIDE DEF A
  <2>. QED  BY <2>1, <2>2, StepRows
<1>. QED  BY <1>1, SpecRows, PTL DEF Spec, OnlyTheTarget
=============================================================================
