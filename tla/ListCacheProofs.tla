--------------------------- MODULE ListCacheProofs ----------------------------
(***************************************************************************)
(* The list caches implement SnapshotReads, for any table, any number of   *)
(* requests at once, any interval and any delay of the database.           *)
(***************************************************************************)
EXTENDS ListCache, TLAPS

Everyone == Request \cup {Load}

Query == [step : Step, asked : Key \cup {All}, waited : 0..MaxDelay, rows : SUBSET Key, gone : BOOLEAN]
Reply == [asked : Key \cup {All, None}, status : {200, 404, 500}, rows : SUBSET Key, gone : BOOLEAN]

(* The history h has the listing rows, no more than age ticks ago.         *)
Said(h, rows, age) == \E p \in h : p[2] = rows /\ p[1] <= age

LEMMA Constants ==
    /\ Interval \in Nat /\ MaxDelay \in Nat
    /\ Limit \in Nat /\ Interval + MaxDelay <= Limit
    /\ kind = "validators" => Limit = Interval + MaxDelay + MaxDelay
<1>1. Interval \in Nat /\ MaxDelay \in Nat
    BY ListCacheAssumption
<1>2. CASE kind = "validators"
    BY <1>1, <1>2 DEF Limit
<1>3. CASE kind # "validators"
    BY <1>1, <1>3 DEF Limit
<1>. QED BY <1>1, <1>2, <1>3

LEMMA Listing == getValidators(table) \in SUBSET Key
BY DEF getValidators

LEMMA IdleIsQuery == Idle \in Query /\ Idle.step = "idle" /\ Idle.asked = All
<1>1. 0 \in 0..MaxDelay
    BY Constants
<1>. QED BY <1>1 DEF Idle, Query, Step

LEMMA SilentIsReply == Silent \in Reply /\ Silent.asked # All /\ Silent.status = 200
BY ListCacheAssumption DEF Silent, Reply

-----------------------------------------------------------------------------
(* The invariant. *)

Current == <<0, getValidators(table)>> \in recent

(* A fresh cache has what the table said when its refresh asked.           *)
CacheSaid == cache.age <= Interval => Said(recent, cache.rows, cache.age + MaxDelay)

(* So has the answer of a refresh that overlaps others.                    *)
AnswerSaid ==
    \A r \in Everyone :
        request[r].step = "answered" => Said(recent, request[r].rows, request[r].waited)

(* The cache was fresh when the queries for the parameter began, or the    *)
(* refresh before them failed.                                             *)
ParamsSaid ==
    \A r \in Everyone :
        request[r].step = "params" =>
            /\ kind = "validators"
            /\ \/ Said(recent, cache.rows, Interval + MaxDelay + request[r].waited)
               \/ outage <= request[r].waited

GoneIsKnown ==
    \A r \in Everyone :
        request[r].asked \in Key /\ table[request[r].asked] \in Unjoined => request[r].gone

FindsKey == \A r \in Everyone : request[r].step = "find" => request[r].asked # All

IInv ==
    /\ TypeOK /\ Current /\ CacheSaid /\ AnswerSaid /\ ParamsSaid
    /\ GoneIsKnown /\ FindsKey /\ BallotedIsFound

(* The types that the steps need. *)
LEMMA Types ==
    ASSUME TypeOK
    PROVE  /\ cache.rows \in SUBSET Key /\ cache.age \in Nat
           /\ \A r \in Everyone : /\ request[r] \in Query
                                  /\ request[r].waited \in Nat /\ request[r].waited <= MaxDelay
           /\ outage \in Nat
           /\ \A p \in recent : p = <<p[1], p[2]>> /\ p[1] \in Nat /\ p[2] \in SUBSET Key
<1>1. /\ cache \in [rows : SUBSET Key, age : 0..Interval + 1]
      /\ request \in [Everyone -> Query] /\ outage \in 0..MaxDelay + 1
      /\ recent \subseteq (0..Limit) \X SUBSET Key
    BY DEF TypeOK, Everyone, Query
<1>2. cache.rows \in SUBSET Key /\ cache.age \in Nat
    BY <1>1, Constants
<1>3. \A r \in Everyone : request[r] \in Query
    BY <1>1
<1>4. \A r \in Everyone : request[r].waited \in 0..MaxDelay
    BY <1>3 DEF Query
<1>5. \A r \in Everyone : request[r].waited \in Nat /\ request[r].waited <= MaxDelay
    BY <1>4, Constants
<1>6. outage \in Nat
    BY <1>1, Constants
<1>7. \A p \in recent : p = <<p[1], p[2]>> /\ p[1] \in 0..Limit /\ p[2] \in SUBSET Key
    BY <1>1
<1>8. \A p \in recent : p[1] \in Nat
    BY <1>7, Constants
<1>. QED BY <1>2, <1>3, <1>5, <1>6, <1>7, <1>8

LEMMA SaidLonger ==
    ASSUME TypeOK, NEW rows, NEW a \in Nat, NEW b \in Nat, a <= b, Said(recent, rows, a)
    PROVE  Said(recent, rows, b)
<1>1. PICK p \in recent : p[2] = rows /\ p[1] <= a
    BY DEF Said
<1>2. p[1] \in Nat
    BY <1>1, Types
<1>3. p[1] <= b
    BY <1>1, <1>2
<1>. QED BY <1>1, <1>3 DEF Said

(* A listing within the limit is remembered for one more tick.             *)
LEMMA SaidAged ==
    ASSUME TypeOK, NEW rows, NEW a \in Nat, a < Limit, Said(recent, rows, a),
           recent' = Reads!Aged(recent, getValidators(table))
    PROVE  Said(recent', rows, a + 1)
<1>1. PICK p \in recent : p[2] = rows /\ p[1] <= a
    BY DEF Said
<1>2. p[1] \in Nat
    BY <1>1, Types
<1>3. p[1] < Limit /\ p[1] + 1 <= a + 1
    BY <1>1, <1>2, Constants
<1>4. <<p[1] + 1, p[2]>> \in recent'
    BY <1>1, <1>3 DEF Reads!Aged
<1>. QED BY <1>1, <1>3, <1>4 DEF Said

-----------------------------------------------------------------------------
(* The steps. *)

(* What a handler does with the request r, which is x from now on, and     *)
(* what it replies.                                                        *)
Handled(r, q, rows, x) ==
    /\ request' = [request EXCEPT ![r] = x]
    /\ x \in Query
    /\ x.step \in {"idle", "params", "find"}
    /\ x.step = "params" => kind = "validators"
    /\ x.step = "find" => x.asked # All
    /\ x = Idle \/ (x.asked = q.asked /\ x.gone = q.gone)
    /\ reply' \in Reply
    /\ reply'.asked = All => reply'.rows = rows
    /\ reply'.status = 404 => kind = "info"
    /\ reply'.status # 500

LEMMA Awaits ==
    ASSUME NEW q \in Query, NEW step \in {"params", "find"},
           NEW x, x = [q EXCEPT !.step = step, !.waited = 0]
    PROVE  x \in Query /\ x.step = step /\ x.asked = q.asked /\ x.gone = q.gone /\ x.waited = 0
<1>1. 0 \in 0..MaxDelay
    BY Constants
<1>2. step \in Step
    BY DEF Step
<1>. QED BY <1>1, <1>2 DEF Query

LEMMA RepliesList ==
    ASSUME NEW r, NEW rows \in SUBSET Key, ReplyList(r, rows)
    PROVE  Ends(r) /\ reply' \in Reply /\ reply'.asked = All /\ reply'.rows = rows /\ reply'.status = 200
<1>1. Ends(r) /\ reply' = [asked |-> All, status |-> 200, rows |-> rows, gone |-> FALSE]
    BY DEF ReplyList, Silent
<1>. QED BY <1>1 DEF Reply

LEMMA RepliesKey ==
    ASSUME NEW r, NEW q \in Query, NEW status \in {200, 404, 500}, ReplyKey(r, q, status)
    PROVE  /\ Ends(r)
           /\ reply' \in Reply /\ reply'.asked = q.asked /\ reply'.status = status
           /\ reply'.gone = q.gone
<1>1. q.asked \in Key \cup {All} /\ q.gone \in BOOLEAN
    BY DEF Query
<1>2. /\ Ends(r)
      /\ reply' = [asked |-> q.asked, status |-> status, rows |-> {}, gone |-> q.gone]
    BY DEF ReplyKey, Silent
<1>. QED BY <1>1, <1>2 DEF Reply

LEMMA Handles ==
    ASSUME NEW r, NEW q \in Query, NEW rows \in SUBSET Key, Handle(r, q, rows)
    PROVE  \E x : Handled(r, q, rows, x)
<1>1. ASSUME Ends(r), reply' \in Reply, reply'.asked = All => reply'.rows = rows,
             reply'.status = 404 => kind = "info", reply'.status # 500
      PROVE  Handled(r, q, rows, Idle)
    BY <1>1, IdleIsQuery DEF Ends, Handled
<1>2. ASSUME NEW step \in {"params", "find"}, Await(r, q, step), reply' = Silent,
             step = "params" => kind = "validators", step = "find" => q.asked # All
      PROVE  \E x : Handled(r, q, rows, x)
    <2>1. PICK x : x = [q EXCEPT !.step = step, !.waited = 0]
        OBVIOUS
    <2>2. x \in Query /\ x.step = step /\ x.asked = q.asked /\ x.gone = q.gone
        BY <2>1, Awaits
    <2>3. request' = [request EXCEPT ![r] = x]
        BY <1>2, <2>1 DEF Await
    <2>4. reply' \in Reply /\ reply'.asked # All /\ reply'.status = 200
        BY <1>2, SilentIsReply
    <2>5. (reply'.status = 404 => kind = "info") /\ reply'.status # 500
        BY <2>4
    <2>6. Handled(r, q, rows, x)
        BY <1>2, <2>2, <2>3, <2>4, <2>5 DEF Handled
    <2>. QED BY <2>6
<1>3. CASE Ends(r) /\ reply' = Silent
    BY <1>1, <1>3, SilentIsReply
<1>4. CASE ReplyList(r, rows)
    BY <1>1, <1>4, RepliesList
<1>5. ASSUME NEW status \in {200, 404}, ReplyKey(r, q, status), q.asked # All,
             status = 404 => kind = "info"
      PROVE  \E x : Handled(r, q, rows, x)
    BY <1>1, <1>5, RepliesKey
<1>6. CASE kind = "validators" /\ handleValidators(r, q)
    BY <1>2, <1>6 DEF handleValidators
<1>7. CASE q.asked # All /\ (handleValidator(r, q, rows) \/ handleNode(r, q, rows))
    BY <1>2, <1>5, <1>7 DEF handleValidator, handleNode
<1>8. CASE q.asked # All /\ kind = "info" /\ handleAmendmentInfo(r, q, rows)
    BY <1>5, <1>8 DEF handleAmendmentInfo
<1>. QED
    BY <1>3, <1>4, <1>6, <1>7, <1>8
    DEF Handle, handleNodes, handleAmendmentsInfo, handleDailyScores

(* A step of one request r, which is x from now on. *)
LEMMA RequestStep ==
    ASSUME IInv, NEW r \in Everyone, NEW x \in Query,
           request' = [request EXCEPT ![r] = x],
           UNCHANGED <<kind, table, recent>>,
           cache' \in [rows : SUBSET Key, age : 0..Interval + 1], CacheSaid',
           cache' = cache \/ Said(recent, cache'.rows, MaxDelay),
           outage' \in {0, outage},
           reply' \in Reply, BallotedIsFound',
           reply'.status = 500 => kind = "nodes" \/ outage' = 0,
           x.step = "answered" => Said(recent, x.rows, x.waited),
           x.step = "params" =>
               /\ kind = "validators"
               /\ \/ Said(recent, cache'.rows, Interval + MaxDelay + x.waited)
                  \/ outage' <= x.waited,
           x.asked \in Key /\ table[x.asked] \in Unjoined => x.gone,
           x.step = "find" => x.asked # All
    PROVE  IInv'
<1>1. TypeOK /\ request \in [Everyone -> Query]
    BY DEF IInv, TypeOK, Everyone, Query
<1>2. request' \in [Everyone -> Query] /\ request'[r] = x
    BY <1>1
<1>3. \A s \in Everyone : s # r => request'[s] = request[s]
    BY <1>1
<1>4. outage' \in 0..MaxDelay + 1
    BY Constants DEF IInv, TypeOK
<1>5. TypeOK'
    BY <1>2, <1>4 DEF IInv, TypeOK, Everyone, Query, Reply, Limit, Allowed
<1>6. Current'
    BY DEF IInv, Current, getValidators
<1>7. AnswerSaid'
    BY <1>2, <1>3 DEF IInv, AnswerSaid
<1>8. ASSUME NEW s \in Everyone, request'[s].step = "params"
      PROVE  /\ kind = "validators"
             /\ \/ Said(recent, cache'.rows, Interval + MaxDelay + request'[s].waited)
                \/ outage' <= request'[s].waited
    <2>1. CASE s = r
        BY <1>2, <1>8, <2>1
    <2>2. CASE s # r
        <3>1. request'[s] = request[s]
            BY <1>3, <2>2
        <3>2. /\ kind = "validators"
              /\ \/ Said(recent, cache.rows, Interval + MaxDelay + request[s].waited)
                 \/ outage <= request[s].waited
            BY <1>8, <3>1 DEF IInv, ParamsSaid
        <3>3. CASE cache' = cache
            <4>1. outage' <= outage
                BY <1>1, Types
            <4>2. outage \in Nat /\ outage' \in Nat /\ request[s].waited \in Nat
                BY <1>1, Types
            <4>3. outage <= request[s].waited => outage' <= request[s].waited
                BY <4>1, <4>2
            <4>. QED BY <3>1, <3>2, <3>3, <4>3
        <3>4. CASE Said(recent, cache'.rows, MaxDelay)
            <4>1. /\ MaxDelay \in Nat /\ Interval + MaxDelay + request[s].waited \in Nat
                  /\ MaxDelay <= Interval + MaxDelay + request[s].waited
                BY <1>1, Types, Constants
            <4>2. Said(recent, cache'.rows, Interval + MaxDelay + request[s].waited)
                BY <1>1, <3>4, <4>1, SaidLonger
            <4>. QED BY <3>1, <3>2, <4>2
        <3>. QED BY <3>3, <3>4
    <2>. QED BY <2>1, <2>2
<1>9. ParamsSaid'
    BY <1>8 DEF ParamsSaid
<1>10. GoneIsKnown'
    BY <1>2, <1>3 DEF IInv, GoneIsKnown
<1>11. FindsKey'
    BY <1>2, <1>3 DEF IInv, FindsKey
<1>. QED BY <1>5, <1>6, <1>7, <1>9, <1>10, <1>11 DEF IInv

(* The same for a handler that answers from the cache.                     *)
LEMMA HandledStep ==
    ASSUME IInv, NEW r \in Everyone, NEW q \in Query, NEW rows, NEW x, Handled(r, q, rows, x),
           q.asked \in Key /\ table[q.asked] \in Unjoined => q.gone,
           UNCHANGED <<kind, table, recent>>,
           cache' \in [rows : SUBSET Key, age : 0..Interval + 1], CacheSaid',
           cache' = cache \/ Said(recent, cache'.rows, MaxDelay),
           outage' \in {0, outage},
           outage' = 0 \/ Said(recent, cache'.rows, Interval + MaxDelay)
    PROVE  IInv'
<1>1. x \in Query /\ request' = [request EXCEPT ![r] = x] /\ reply' \in Reply
    BY DEF Handled
<1>2. BallotedIsFound'
    BY DEF Handled, BallotedIsFound
<1>3. x.step # "answered"
    BY DEF Handled
<1>4. x.asked \in Key /\ table[x.asked] \in Unjoined => x.gone
    BY IdleIsQuery, ListCacheAssumption DEF Handled
<1>5. ASSUME x.step = "params"
      PROVE  /\ kind = "validators"
             /\ \/ Said(recent, cache'.rows, Interval + MaxDelay + x.waited)
                \/ outage' <= x.waited
    <2>1. x.waited \in Nat
        <3>1. x.waited \in 0..MaxDelay
            BY <1>1 DEF Query
        <3>. QED BY <3>1, Constants
    <2>2. kind = "validators"
        BY <1>5 DEF Handled
    <2>3. CASE outage' = 0
        BY <2>1, <2>2, <2>3
    <2>4. CASE Said(recent, cache'.rows, Interval + MaxDelay)
        <3>1. /\ Interval + MaxDelay \in Nat /\ Interval + MaxDelay + x.waited \in Nat
              /\ Interval + MaxDelay <= Interval + MaxDelay + x.waited
            BY <2>1, Constants
        <3>2. Said(recent, cache'.rows, Interval + MaxDelay + x.waited)
            BY <2>4, <3>1, SaidLonger DEF IInv
        <3>. QED BY <2>2, <3>2
    <2>. QED BY <2>3, <2>4
<1>6. (x.step = "find" => x.asked # All) /\ reply'.status # 500
    BY DEF Handled
<1>. QED BY <1>1, <1>2, <1>3, <1>4, <1>5, <1>6, RequestStep

-----------------------------------------------------------------------------
(* Each action keeps the invariant, and is a step of SnapshotReads.        *)

Implements == [Reads!Next]_(Reads!vars)

(* A handler that answers from rows the table had within the limit reads;  *)
(* one that does not answer waits.                                         *)
LEMMA ReadsRows ==
    ASSUME IInv, NEW rows, reply'.asked = All => reply'.rows = rows,
           Said(recent, rows, Limit),
           UNCHANGED <<kind, table, recent, outage>>
    PROVE  Implements
<1>1. UNCHANGED <<getValidators(table), Limit>>
    BY DEF getValidators, Limit
<1>2. CASE reply'.asked = All
    <2>1. PICK p \in recent : p[2] = rows
        BY DEF Said
    <2>2. Reads!Read
        BY <1>1, <1>2, <2>1 DEF Reads!Read
    <2>. QED BY <2>2 DEF Implements, Reads!Next
<1>3. CASE reply'.asked # All
    <2>1. Reads!Wait
        BY <1>1, <1>3 DEF Reads!Wait
    <2>. QED BY <2>1 DEF Implements, Reads!Next
<1>. QED BY <1>2, <1>3

(* In the wake of a failed query anything may be read.                     *)
LEMMA ReadsAny ==
    ASSUME IInv, NEW rows \in SUBSET Key, reply'.asked = All => reply'.rows = rows,
           outage' \in {0, outage}, outage' <= MaxDelay,
           UNCHANGED <<kind, table, recent>>
    PROVE  Implements
<1>1. UNCHANGED <<getValidators(table), Limit>>
    BY DEF getValidators, Limit
<1>2. CASE reply'.asked = All
    <2>1. Reads!ReadInOutage
        BY <1>1, <1>2 DEF Reads!ReadInOutage, Reads!Listing
    <2>. QED BY <2>1 DEF Implements, Reads!Next
<1>3. CASE reply'.asked # All
    <2>1. CASE outage' = 0
        <3>1. Reads!Fail
            BY <1>1, <1>3, <2>1 DEF Reads!Fail
        <3>. QED BY <3>1 DEF Implements, Reads!Next
    <2>2. CASE outage' = outage
        <3>1. Reads!Wait
            BY <1>1, <1>3, <2>2 DEF Reads!Wait
        <3>. QED BY <3>1 DEF Implements, Reads!Next
    <2>. QED BY <2>1, <2>2
<1>. QED BY <1>2, <1>3

LEMMA Waits ==
    ASSUME IInv, reply'.asked # All, UNCHANGED <<kind, table, recent, outage>>
    PROVE  Implements
<1>1. UNCHANGED <<getValidators(table), Limit>>
    BY DEF getValidators, Limit
<1>2. Reads!Wait
    BY <1>1 DEF Reads!Wait
<1>. QED BY <1>2 DEF Implements, Reads!Next

(* The cache as it is, for the lemmas above.                               *)
LEMMA CacheStays ==
    ASSUME IInv, cache' = cache, UNCHANGED <<kind, recent>>
    PROVE  cache' \in [rows : SUBSET Key, age : 0..Interval + 1] /\ CacheSaid'
BY DEF IInv, TypeOK, CacheSaid

(* Fresh rows are of the interval and the time their query took.           *)
LEMMA FreshSaid ==
    ASSUME IInv, IsFresh
    PROVE  Said(recent, cache.rows, Interval + MaxDelay) /\ Said(recent, cache.rows, Limit)
<1>1. cache.age \in Nat /\ cache.age <= Interval /\ TypeOK
    BY Types DEF IInv, IsFresh
<1>2. Said(recent, cache.rows, cache.age + MaxDelay)
    BY <1>1 DEF IInv, CacheSaid
<1>3. /\ cache.age + MaxDelay \in Nat /\ Interval + MaxDelay \in Nat /\ Limit \in Nat
      /\ cache.age + MaxDelay <= Interval + MaxDelay /\ cache.age + MaxDelay <= Limit
    BY <1>1, Constants
<1>. QED BY <1>1, <1>2, <1>3, SaidLonger

LEMMA ArriveSteps ==
    ASSUME IInv, NEW r \in Request, NEW asked \in Asks, Arrive(r, asked)
    PROVE  IInv' /\ Implements
<1>1. asked \in Key \cup {All} /\ r \in Everyone
    BY ListCacheAssumption DEF Asks, Everyone
<1>2. /\ Asking(asked) \in Query /\ Asking(asked).asked = asked
      /\ Asking(asked).gone = (asked \in Key /\ table[asked] \in Unjoined)
    <2>1. Idle \in Query
        BY IdleIsQuery
    <2>2. (asked \in Key /\ table[asked] \in Unjoined) \in BOOLEAN
        OBVIOUS
    <2>. QED BY <1>1, <2>1, <2>2 DEF Asking, Query
<1>3. cache.rows \in SUBSET Key /\ outage \in Nat
    BY Types DEF IInv
<1>4. UNCHANGED <<kind, table, cache, recent, outage>>
    BY DEF Arrive
<1>5. CASE IsFresh /\ Handle(r, Asking(asked), cache.rows)
    <2>1. PICK x : Handled(r, Asking(asked), cache.rows, x)
        BY <1>2, <1>3, <1>5, Handles
    <2>2. IInv'
        BY <1>1, <1>2, <1>4, <1>5, <2>1, FreshSaid, CacheStays, HandledStep
    <2>3. Implements
        BY <1>4, <1>5, <2>1, FreshSaid, ReadsRows DEF Handled
    <2>. QED BY <2>2, <2>3
<1>6. CASE Await(r, Asking(asked), "query") /\ reply' = Silent
    <2>1. PICK x : x = [Asking(asked) EXCEPT !.step = "query", !.waited = 0]
        OBVIOUS
    <2>2. x \in Query /\ x.step = "query" /\ x.asked = asked /\ x.gone = Asking(asked).gone
        <3>1. 0 \in 0..MaxDelay /\ "query" \in Step
            BY Constants DEF Step
        <3>. QED BY <1>2, <2>1, <3>1 DEF Query
    <2>3. request' = [request EXCEPT ![r] = x]
        BY <1>6, <2>1 DEF Await
    <2>4. reply' \in Reply /\ reply'.asked # All /\ reply'.status # 500 /\ BallotedIsFound'
        BY <1>6, SilentIsReply DEF BallotedIsFound
    <2>5. IInv'
        BY <1>1, <1>2, <1>4, <2>2, <2>3, <2>4, CacheStays, RequestStep
    <2>. QED BY <1>4, <2>4, <2>5, Waits
<1>. QED BY <1>5, <1>6 DEF Arrive

LEMMA EvaluateSteps ==
    ASSUME IInv, NEW r \in Everyone, Evaluate(r)
    PROVE  IInv' /\ Implements
<1>1. request[r] \in Query /\ request[r].waited \in Nat
    BY Types DEF IInv
<1>2. PICK x : x = [request[r] EXCEPT !.step = "answered", !.rows = getValidators(table)]
    OBVIOUS
<1>3. /\ x \in Query /\ x.step = "answered" /\ x.rows = getValidators(table)
      /\ x.waited = request[r].waited /\ x.asked = request[r].asked /\ x.gone = request[r].gone
    BY <1>1, <1>2, Listing DEF Query, Step
<1>4. request' = [request EXCEPT ![r] = x]
    BY <1>2 DEF Evaluate, IInv, TypeOK, Everyone
<1>5. UNCHANGED <<kind, table, cache, recent, outage>>
    BY DEF Evaluate
<1>6. reply' \in Reply /\ reply'.asked # All /\ reply'.status # 500 /\ BallotedIsFound'
    BY SilentIsReply DEF Evaluate, BallotedIsFound
<1>7. Said(recent, x.rows, x.waited)
    <2>1. <<0, getValidators(table)>> \in recent
        BY DEF IInv, Current
    <2>. QED BY <1>1, <1>3, <2>1 DEF Said
<1>8. x.asked \in Key /\ table[x.asked] \in Unjoined => x.gone
    BY <1>3 DEF IInv, GoneIsKnown
<1>9. IInv'
    BY <1>3, <1>4, <1>5, <1>6, <1>7, <1>8, CacheStays, RequestStep
<1>. QED BY <1>5, <1>6, <1>9, Waits

LEMMA RefreshSteps ==
    ASSUME IInv, NEW r \in Everyone, Refresh(r)
    PROVE  IInv' /\ Implements
<1>1. /\ request[r] \in Query /\ request[r].waited \in Nat /\ request[r].waited <= MaxDelay
      /\ request[r].rows \in SUBSET Key
    BY Types DEF IInv, Query
<1>2. cache' = [rows |-> request[r].rows, age |-> 0] /\ cache'.rows = request[r].rows
    BY DEF Refresh, Filled
<1>3. UNCHANGED <<kind, table, recent, outage>>
    BY DEF Refresh
<1>4. Said(recent, request[r].rows, request[r].waited)
    BY DEF IInv, AnswerSaid, Refresh
<1>5. /\ Said(recent, request[r].rows, MaxDelay) /\ Said(recent, request[r].rows, Limit)
      /\ Said(recent, request[r].rows, Interval + MaxDelay)
    <2>1. /\ MaxDelay \in Nat /\ Limit \in Nat /\ Interval + MaxDelay \in Nat
          /\ request[r].waited <= Limit /\ request[r].waited <= Interval + MaxDelay
        BY <1>1, Constants
    <2>. QED BY <1>1, <1>4, <2>1, SaidLonger DEF IInv
<1>6. cache' \in [rows : SUBSET Key, age : 0..Interval + 1]
    <2>1. 0 \in 0..Interval + 1
        BY Constants
    <2>. QED BY <1>1, <1>2, <2>1
<1>7. CacheSaid'
    <2>1. cache'.age + MaxDelay = MaxDelay
        BY <1>2, Constants
    <2>. QED BY <1>2, <1>3, <1>5, <2>1 DEF CacheSaid
<1>8. PICK x : Handled(r, request[r], request[r].rows, x)
    BY <1>1, Handles DEF Refresh
<1>9. request[r].asked \in Key /\ table[request[r].asked] \in Unjoined => request[r].gone
    BY DEF IInv, GoneIsKnown
<1>10. IInv'
    BY <1>1, <1>2, <1>3, <1>5, <1>6, <1>7, <1>8, <1>9, HandledStep
<1>11. Implements
    BY <1>3, <1>5, <1>8, ReadsRows DEF Handled
<1>. QED BY <1>10, <1>11

LEMMA RefreshFailsSteps ==
    ASSUME IInv, NEW r \in Everyone, RefreshFails(r)
    PROVE  IInv' /\ Implements
<1>1. request[r] \in Query /\ cache.rows \in SUBSET Key
    BY Types DEF IInv
<1>2. UNCHANGED <<kind, table, cache, recent>> /\ outage' = 0 /\ 0 <= MaxDelay
    BY Constants DEF RefreshFails
<1>3. PICK x : Handled(r, request[r], cache.rows, x)
    BY <1>1, Handles DEF RefreshFails
<1>4. request[r].asked \in Key /\ table[request[r].asked] \in Unjoined => request[r].gone
    BY DEF IInv, GoneIsKnown
<1>5. IInv'
    BY <1>1, <1>2, <1>3, <1>4, CacheStays, HandledStep
<1>6. Implements
    BY <1>1, <1>2, <1>3, ReadsAny DEF Handled
<1>. QED BY <1>5, <1>6

(* The request ends, and the cache stays as it is. *)
LEMMA EndKeeps ==
    ASSUME IInv, NEW r \in Everyone, Ends(r), UNCHANGED <<kind, table, cache, recent>>,
           outage' \in {0, outage}, reply' \in Reply, BallotedIsFound',
           reply'.status = 500 => kind = "nodes" \/ outage' = 0
    PROVE  IInv'
<1>1. Idle \in Query /\ Idle.step = "idle" /\ Idle.asked \notin Key
    BY IdleIsQuery, ListCacheAssumption
<1>. QED BY <1>1, CacheStays, RequestStep DEF Ends

LEMMA AnswerParamsSteps ==
    ASSUME IInv, NEW r \in Everyone, AnswerParams(r)
    PROVE  IInv' /\ Implements
<1>1. /\ cache.rows \in SUBSET Key /\ outage \in Nat
      /\ request[r].waited \in Nat /\ request[r].waited <= MaxDelay
    BY Types DEF IInv
<1>2. UNCHANGED <<kind, table, cache, recent, outage>>
    BY DEF AnswerParams
<1>3. Ends(r) /\ reply' \in Reply /\ reply'.rows = cache.rows /\ reply'.status = 200
    BY <1>1, RepliesList DEF AnswerParams
<1>4. IInv'
    BY <1>2, <1>3, EndKeeps DEF BallotedIsFound
<1>5. /\ kind = "validators"
      /\ \/ Said(recent, cache.rows, Interval + MaxDelay + request[r].waited)
         \/ outage <= request[r].waited
    BY DEF IInv, ParamsSaid, AnswerParams
<1>6. CASE Said(recent, cache.rows, Interval + MaxDelay + request[r].waited)
    <2>1. /\ Interval + MaxDelay + request[r].waited \in Nat /\ Limit \in Nat
          /\ Interval + MaxDelay + request[r].waited <= Limit
        BY <1>1, <1>5, Constants
    <2>2. Said(recent, cache.rows, Limit)
        BY <1>6, <2>1, SaidLonger DEF IInv
    <2>. QED BY <1>2, <1>3, <1>4, <2>2, ReadsRows
<1>7. CASE outage <= request[r].waited
    <2>1. outage' <= MaxDelay
        BY <1>1, <1>2, <1>7, Constants
    <2>. QED BY <1>1, <1>2, <1>3, <1>4, <2>1, ReadsAny
<1>. QED BY <1>5, <1>6, <1>7

(* A reply to a request for a single key is no reading of the list.        *)
LEMMA KeySteps ==
    ASSUME IInv, NEW r \in Everyone, NEW status \in {200, 404, 500},
           ReplyKey(r, request[r], status), request[r].asked # All,
           kind = "validators" /\ status = 404 => request[r].gone,
           status = 500 => kind = "nodes" \/ outage' = 0,
           UNCHANGED <<kind, table, cache, recent>>, outage' \in {0, outage}
    PROVE  IInv' /\ reply'.asked # All
<1>1. request[r] \in Query
    BY Types DEF IInv
<1>2. /\ Ends(r)
      /\ reply' \in Reply /\ reply'.asked = request[r].asked /\ reply'.status = status
      /\ reply'.gone = request[r].gone
    BY <1>1, RepliesKey
<1>3. BallotedIsFound'
    BY <1>2 DEF BallotedIsFound
<1>. QED BY <1>2, <1>3, EndKeeps

LEMMA FindSteps ==
    ASSUME IInv, NEW r \in Everyone, FindValidator(r) \/ FindNode(r)
    PROVE  IInv' /\ Implements
<1>1. UNCHANGED <<kind, table, cache, recent, outage>> /\ request[r].asked # All
    BY DEF FindValidator, FindNode, IInv, FindsKey
<1>2. request[r].asked \in Key
    <2>1. request[r] \in Query
        BY Types DEF IInv
    <2>. QED BY <1>1, <2>1 DEF Query
<1>3. PICK status \in {200, 404, 500} :
          /\ ReplyKey(r, request[r], status)
          /\ kind = "validators" /\ status = 404 => table[request[r].asked] \in Unjoined
          /\ status = 500 => kind = "nodes"
    <2>1. CASE FindValidator(r)
        <3>1. Found(request[r].asked) \in {200, 404}
            BY DEF Found
        <3>. QED BY <2>1, <3>1 DEF FindValidator, Found
    <2>2. CASE FindNode(r)
        BY <2>2 DEF FindNode
    <2>. QED BY <2>1, <2>2
<1>4. kind = "validators" /\ status = 404 => request[r].gone
    BY <1>2, <1>3 DEF IInv, GoneIsKnown
<1>5. IInv' /\ reply'.asked # All
    BY <1>1, <1>3, <1>4, KeySteps
<1>. QED BY <1>1, <1>5, Waits

LEMMA HandlerFailsSteps ==
    ASSUME IInv, NEW r \in Everyone, HandlerFails(r)
    PROVE  IInv' /\ Implements
<1>1. UNCHANGED <<kind, table, cache, recent>> /\ outage' = 0 /\ 0 <= MaxDelay
    BY Constants DEF HandlerFails
<1>2. CASE request[r].asked = All /\ Ends(r) /\ reply' = Silent
    <2>1. reply' \in Reply /\ reply'.asked # All /\ reply'.status = 200 /\ BallotedIsFound'
        BY <1>2, SilentIsReply DEF BallotedIsFound
    <2>2. IInv'
        BY <1>1, <1>2, <2>1, EndKeeps
    <2>. QED BY <1>1, <2>1, <2>2, ReadsAny
<1>3. CASE request[r].asked # All /\ ReplyKey(r, request[r], 500)
    <2>1. IInv' /\ reply'.asked # All
        BY <1>1, <1>3, KeySteps
    <2>. QED BY <1>1, <2>1, ReadsAny
<1>. QED BY <1>2, <1>3 DEF HandlerFails

LEMMA ChangeSteps ==
    ASSUME IInv, NEW k \in Changing, NEW status \in Allowed, Change(k, status)
    PROVE  IInv' /\ Implements
<1>1. UNCHANGED <<kind, cache, outage>> /\ recent' = recent \cup {<<0, getValidators(table')>>}
    BY DEF Change
<1>2. k \in Key /\ table' = [table EXCEPT ![k] = status] /\ table \in [Key -> Allowed]
    BY ListCacheAssumption DEF Change, IInv, TypeOK
<1>3. \A r \in Everyone :
          /\ request[r] \in Query
          /\ request'[r] = [request[r] EXCEPT !.gone = @ \/ (request[r].asked = k /\ status \in Unjoined)]
    BY Types DEF Change, IInv, TypeOK, Everyone
<1>4. \A r \in Everyone :
          /\ request'[r] \in Query
          /\ request'[r].step = request[r].step /\ request'[r].asked = request[r].asked
          /\ request'[r].waited = request[r].waited /\ request'[r].rows = request[r].rows
          /\ request'[r].gone = (request[r].gone \/ (request[r].asked = k /\ status \in Unjoined))
    BY <1>3 DEF Query
<1>5. request' \in [Everyone -> Query]
    <2>1. request' = [r \in Everyone |-> request'[r]]
        BY DEF Change, IInv, TypeOK, Everyone
    <2>. QED BY <1>4, <2>1
<1>6. \A rows, a : Said(recent, rows, a) => Said(recent', rows, a)
    BY <1>1 DEF Said
<1>7. reply' \in Reply /\ reply'.asked # All /\ reply'.status = 200
    BY SilentIsReply DEF Change
<1>8. recent' \subseteq (0..Limit) \X SUBSET Key
    <2>1. 0 \in 0..Limit /\ getValidators(table') \in SUBSET Key
        BY Constants DEF getValidators
    <2>. QED BY <1>1, <2>1 DEF IInv, TypeOK
<1>9. TypeOK'
    <2>1. table' \in [Key -> Allowed'] /\ Allowed' = Allowed
        BY <1>1, <1>2 DEF Allowed
    <2>. QED BY <1>1, <1>5, <1>7, <1>8, <2>1 DEF IInv, TypeOK, Everyone, Query, Reply, Limit
<1>10. Current' /\ CacheSaid' /\ AnswerSaid' /\ ParamsSaid' /\ FindsKey' /\ BallotedIsFound'
    <2>1. Current'
        BY <1>1 DEF Current, getValidators
    <2>2. CacheSaid' /\ AnswerSaid'
        BY <1>1, <1>4, <1>6 DEF IInv, CacheSaid, AnswerSaid
    <2>3. ParamsSaid'
        BY <1>1, <1>4, <1>6 DEF IInv, ParamsSaid
    <2>4. FindsKey' /\ BallotedIsFound'
        BY <1>4, <1>7 DEF IInv, FindsKey, BallotedIsFound
    <2>. QED BY <2>1, <2>2, <2>3, <2>4
<1>11. GoneIsKnown'
    BY <1>2, <1>4 DEF IInv, GoneIsKnown
<1>12. Implements
    <2>1. Reads!Change
        BY <1>1, <1>7 DEF Reads!Change, Reads!Listing, getValidators, Limit
    <2>. QED BY <2>1 DEF Implements, Reads!Next
<1>. QED BY <1>9, <1>10, <1>11, <1>12 DEF IInv

LEMMA TickSteps ==
    ASSUME IInv, Tick
    PROVE  IInv' /\ Implements
<1>1. /\ UNCHANGED <<kind, table>> /\ Limit' = Limit
      /\ recent' = Reads!Aged(recent, getValidators(table))
      /\ cache' = [cache EXCEPT !.age = Older(@, Interval)]
      /\ outage' = Older(outage, MaxDelay) /\ reply' = Silent
    BY DEF Tick, Limit
<1>2. /\ cache \in [rows : SUBSET Key, age : 0..Interval + 1]
      /\ cache.age \in Nat /\ outage \in Nat
      /\ \A r \in Everyone : /\ request[r] \in Query
                              /\ request[r].waited \in Nat /\ request[r].waited <= MaxDelay
    BY Types DEF IInv, TypeOK
<1>3. \A r \in Everyone :
          /\ request[r].step = "idle" => request'[r] = Idle
          /\ request[r].step # "idle" =>
                request'[r] = [request[r] EXCEPT !.waited = @ + 1] /\ request[r].waited < MaxDelay
    BY DEF Tick, IInv, TypeOK, Everyone
<1>4. \A r \in Everyone : request[r].step # "idle" =>
          /\ request'[r] \in Query
          /\ request'[r].step = request[r].step /\ request'[r].asked = request[r].asked
          /\ request'[r].waited = request[r].waited + 1 /\ request'[r].rows = request[r].rows
          /\ request'[r].gone = request[r].gone
    <2>1. \A n \in Nat : n < MaxDelay => n + 1 \in 0..MaxDelay
        BY Constants
    <2>2. ASSUME NEW r \in Everyone, request[r].step # "idle"
          PROVE  /\ request[r] \in Query /\ request[r].waited + 1 \in 0..MaxDelay
                 /\ request'[r] = [request[r] EXCEPT !.waited = request[r].waited + 1]
        BY <1>2, <1>3, <2>1, <2>2
    <2>. QED BY <2>2 DEF Query
<1>5. \A r \in Everyone : request[r].step = "idle" =>
          /\ request'[r] \in Query /\ request'[r].step = "idle" /\ request'[r].asked \notin Key
    BY <1>3, IdleIsQuery, ListCacheAssumption
<1>6. request' \in [Everyone -> Query]
    <2>1. request' = [r \in Everyone |-> request'[r]]
        BY DEF Tick, IInv, TypeOK, Everyone
    <2>. QED BY <1>4, <1>5, <2>1
<1>7. /\ cache' \in [rows : SUBSET Key, age : 0..Interval + 1]
      /\ cache'.rows = cache.rows /\ cache'.age = Older(cache.age, Interval)
    <2>1. Older(cache.age, Interval) \in 0..Interval + 1
        <3>1. cache.age \in 0..Interval + 1
            BY <1>2
        <3>. QED BY <3>1, Constants DEF Older
    <2>. QED BY <1>1, <1>2, <2>1
<1>8. outage' \in 0..MaxDelay + 1
    BY <1>1, Constants DEF IInv, TypeOK, Older
<1>9. reply' \in Reply /\ reply'.asked # All /\ reply'.status = 200
    BY <1>1, SilentIsReply
<1>10. recent' \subseteq (0..Limit) \X SUBSET Key
    <2>1. \A p \in recent : p[1] < Limit => <<p[1] + 1, p[2]>> \in (0..Limit) \X SUBSET Key
        <3>1. ASSUME NEW p \in recent, p[1] < Limit PROVE p[1] + 1 \in 0..Limit /\ p[2] \in SUBSET Key
            BY <3>1, Types, Constants DEF IInv
        <3>. QED BY <3>1
    <2>2. <<0, getValidators(table)>> \in (0..Limit) \X SUBSET Key
        BY Listing, Constants
    <2>. QED BY <1>1, <2>1, <2>2 DEF Reads!Aged
<1>11. TypeOK'
    BY <1>1, <1>6, <1>7, <1>8, <1>9, <1>10 DEF IInv, TypeOK, Everyone, Query, Reply, Allowed
<1>12. Current'
    BY <1>1 DEF Current, Reads!Aged, getValidators
<1>13. CacheSaid'
    <2>1. SUFFICES ASSUME cache'.age <= Interval
                   PROVE  Said(recent', cache'.rows, cache'.age + MaxDelay)
        BY DEF CacheSaid
    <2>2. cache'.age = cache.age + 1 /\ cache.age <= Interval
        BY <1>2, <1>7, <2>1, Constants DEF Older
    <2>3. Said(recent, cache.rows, cache.age + MaxDelay)
        BY <2>2 DEF IInv, CacheSaid
    <2>4. /\ cache.age + MaxDelay \in Nat /\ cache.age + MaxDelay < Limit
          /\ cache'.age + MaxDelay = cache.age + MaxDelay + 1
        BY <1>2, <2>1, <2>2, Constants
    <2>. QED BY <1>1, <1>7, <2>3, <2>4, SaidAged DEF IInv
<1>14. AnswerSaid'
    <2>1. SUFFICES ASSUME NEW r \in Everyone, request'[r].step = "answered"
                   PROVE  Said(recent', request'[r].rows, request'[r].waited)
        BY DEF AnswerSaid
    <2>2. request[r].step = "answered" /\ request[r].waited < MaxDelay
        BY <1>3, <1>4, <1>5, <2>1
    <2>3. Said(recent, request[r].rows, request[r].waited) /\ request[r].waited < Limit
        BY <1>2, <2>2, Constants DEF IInv, AnswerSaid
    <2>. QED BY <1>1, <1>2, <1>4, <2>2, <2>3, SaidAged DEF IInv
<1>15. ParamsSaid'
    <2>1. SUFFICES ASSUME NEW r \in Everyone, request'[r].step = "params"
                   PROVE  /\ kind = "validators"
                          /\ \/ Said(recent', cache.rows, Interval + MaxDelay + request'[r].waited)
                             \/ outage' <= request'[r].waited
        BY <1>1, <1>7 DEF ParamsSaid
    <2>2. /\ request[r].step = "params" /\ request[r].waited < MaxDelay
          /\ request'[r].waited = request[r].waited + 1
        BY <1>3, <1>4, <1>5, <2>1
    <2>3. /\ kind = "validators"
          /\ \/ Said(recent, cache.rows, Interval + MaxDelay + request[r].waited)
             \/ outage <= request[r].waited
        BY <2>2 DEF IInv, ParamsSaid
    <2>4. CASE Said(recent, cache.rows, Interval + MaxDelay + request[r].waited)
        <3>1. /\ Interval + MaxDelay + request[r].waited \in Nat
              /\ Interval + MaxDelay + request[r].waited < Limit
              /\ Interval + MaxDelay + request'[r].waited = Interval + MaxDelay + request[r].waited + 1
            BY <1>2, <2>2, <2>3, Constants
        <3>2. Said(recent', cache.rows, Interval + MaxDelay + request'[r].waited)
            BY <1>1, <2>4, <3>1, SaidAged DEF IInv
        <3>. QED BY <2>3, <3>2
    <2>5. CASE outage <= request[r].waited
        <3>1. outage' <= request'[r].waited
            BY <1>1, <1>2, <2>2, <2>5, Constants DEF Older
        <3>. QED BY <2>3, <3>1
    <2>. QED BY <2>3, <2>4, <2>5
<1>16. GoneIsKnown' /\ FindsKey' /\ BallotedIsFound'
    BY <1>1, <1>4, <1>5, <1>9 DEF IInv, GoneIsKnown, FindsKey, BallotedIsFound
<1>17. Implements
    <2>1. Reads!Tick
        BY <1>1, <1>9 DEF Reads!Tick, Older, getValidators
    <2>. QED BY <2>1 DEF Implements, Reads!Next
<1>. QED BY <1>11, <1>12, <1>13, <1>14, <1>15, <1>16, <1>17 DEF IInv

LEMMA InitSteps == Init => IInv /\ Reads!Init
<1>1. SUFFICES ASSUME Init PROVE IInv /\ Reads!Init
    OBVIOUS
<1>2. /\ kind \in Kinds /\ table \in [Key -> Allowed] /\ reply = Silent /\ outage = MaxDelay + 1
      /\ cache = [rows |-> {}, age |-> 0]
      /\ recent = {<<0, {}>>, <<0, getValidators(table)>>}
      /\ request = [r \in Everyone |-> IF r = Load THEN [Idle EXCEPT !.step = "query"] ELSE Idle]
    BY <1>1 DEF Init, Everyone
<1>3. /\ Idle \in Query /\ Idle.step = "idle" /\ Idle.asked = All
      /\ [Idle EXCEPT !.step = "query"] \in Query /\ [Idle EXCEPT !.step = "query"].step = "query"
      /\ [Idle EXCEPT !.step = "query"].asked = All
    BY IdleIsQuery DEF Query, Step
<1>4. \A r \in Everyone :
          request[r] \in Query /\ request[r].step \in {"idle", "query"} /\ request[r].asked = All
    BY <1>2, <1>3
<1>5. request \in [Everyone -> Query]
    BY <1>2, <1>3
<1>6. cache \in [rows : SUBSET Key, age : 0..Interval + 1] /\ outage \in 0..MaxDelay + 1
    <2>1. 0 \in 0..Interval + 1 /\ MaxDelay + 1 \in 0..MaxDelay + 1
        BY Constants
    <2>. QED BY <1>2, <2>1
<1>7. recent \subseteq (0..Limit) \X SUBSET Key
    <2>1. 0 \in 0..Limit
        BY Constants
    <2>. QED BY <1>2, <2>1, Listing
<1>8. TypeOK
    BY <1>2, <1>5, <1>6, <1>7, SilentIsReply DEF TypeOK, Everyone, Query, Reply
<1>9. CacheSaid
    <2>1. cache.rows = {} /\ cache.age + MaxDelay = MaxDelay /\ 0 <= MaxDelay /\ <<0, {}>> \in recent
        BY <1>2, Constants
    <2>. QED BY <2>1 DEF CacheSaid, Said
<1>10. Current /\ AnswerSaid /\ ParamsSaid /\ GoneIsKnown /\ FindsKey /\ BallotedIsFound
    BY <1>2, <1>4, SilentIsReply, ListCacheAssumption
    DEF Current, AnswerSaid, ParamsSaid, GoneIsKnown, FindsKey, BallotedIsFound
<1>11. Reads!Init
    <2>1. Limit \in Nat /\ getValidators(table) \in Reads!Listing
        BY Constants, Listing DEF Reads!Listing
    <2>2. reply.asked # All
        BY <1>2, SilentIsReply
    <2>. QED BY <1>2, <2>1, <2>2 DEF Reads!Init
<1>. QED BY <1>8, <1>9, <1>10, <1>11 DEF IInv

LEMMA NextSteps == IInv /\ [Next]_vars => IInv' /\ Implements
<1>1. SUFFICES ASSUME IInv, [Next]_vars PROVE IInv' /\ Implements
    OBVIOUS
<1>2. CASE \E r \in Request, asked \in Asks : Arrive(r, asked)
    BY <1>1, <1>2, ArriveSteps
<1>3. CASE \E r \in Everyone : Answers(r) \/ RefreshFails(r) \/ HandlerFails(r)
    BY <1>1, <1>3, EvaluateSteps, RefreshSteps, AnswerParamsSteps, FindSteps, RefreshFailsSteps,
       HandlerFailsSteps DEF Answers
<1>4. CASE \E k \in Changing, status \in Allowed : Change(k, status)
    BY <1>1, <1>4, ChangeSteps
<1>5. CASE Tick
    BY <1>1, <1>5, TickSteps
<1>6. CASE UNCHANGED vars
    <2>1. IInv'
        BY <1>1, <1>6
        DEF vars, IInv, TypeOK, Current, CacheSaid, AnswerSaid, ParamsSaid, GoneIsKnown, FindsKey,
            BallotedIsFound, getValidators, Limit, Allowed
    <2>2. UNCHANGED Reads!vars
        BY <1>6 DEF vars, Reads!vars, getValidators, Limit
    <2>. QED BY <2>1, <2>2 DEF Implements
<1>. QED BY <1>1, <1>2, <1>3, <1>4, <1>5, <1>6 DEF Next, Everyone

LEMMA Invariant == Spec => []IInv
<1>1. Init => IInv
    BY InitSteps
<1>2. IInv /\ [Next]_vars => IInv'
    BY NextSteps
<1>. QED BY <1>1, <1>2, PTL DEF Spec

-----------------------------------------------------------------------------
(* The theorems. *)

(* The variables of the caches have their types: no request awaits an      *)
(* answer for longer than the database takes, no history is longer than    *)
(* the limit, and an internal error is the look-up of a node or a query    *)
(* that failed.                                                            *)
THEOREM TypeCorrect == Spec => []TypeOK
<1>1. IInv => TypeOK
    BY DEF IInv
<1>. QED BY <1>1, Invariant, PTL

(* handleValidator of validator.ts - a validator that is stored with a     *)
(* ballot all the time its request takes, in the list or not, is not       *)
(* answered with "not found".                                              *)
THEOREM BallotedAreFound == Spec => []BallotedIsFound
<1>1. IInv => BallotedIsFound
    BY DEF IInv
<1>. QED BY <1>1, Invariant, PTL

(* cacheValidators, cacheNodes, cacheAmendmentsInfo and cacheDailyScores - *)
(* the caches implement SnapshotReads: every list they answer with is what *)
(* the table said at one moment within the limit, unless a query has just  *)
(* failed.                                                                 *)
THEOREM CachesAnswerSnapshots == Spec => ReadsSpec
<1>1. Init => Reads!Init
    BY InitSteps
<1>2. IInv /\ [Next]_vars => [Reads!Next]_(Reads!vars)
    BY NextSteps DEF Implements
<1>. QED BY <1>1, <1>2, Invariant, PTL DEF Spec, ReadsSpec, Reads!Spec
=============================================================================
