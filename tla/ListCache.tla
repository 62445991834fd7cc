------------------------------ MODULE ListCache -------------------------------
(***************************************************************************)
(* The caches in front of the lists of the API (src/src/api/routes/v1):    *)
(* validator.ts, nodes.ts, the information of amendments.ts and            *)
(* daily-report.ts.  Each keeps the rows of one query with a time, and     *)
(* shares nothing with the others: kind is the one a behaviour is about.   *)
(*                                                                         *)
(* A request awaits the refresh it starts; requests that come meanwhile    *)
(* start their own, and the answers of the database arrive in any order.   *)
(* Times are ages in ticks, so that the clock needs no bound.              *)
(***************************************************************************)
EXTENDS Naturals

CONSTANTS
    Key,        \* rows of the table
    Changing,   \* those that change and are asked for; the others stay listed
    Request,    \* requests handled at once
    Load,       \* the refresh that loading the module starts
    Kinds,      \* the caches
    All,        \* what a request for the list asks for
    None,
    Interval,   \* CACHE_INTERVAL_MILLIS in ticks
    MaxDelay    \* ticks a request may await one answer of the database

ASSUME ListCacheAssumption ==
    /\ Changing \subseteq Key
    /\ Load \notin Request
    /\ All \notin Key /\ None \notin Key \cup {All}
    /\ Kinds \subseteq {"validators", "nodes", "info", "scores"}
    /\ Interval \in Nat
    /\ MaxDelay \in Nat

VARIABLES
    kind,       \* the cache this behaviour is about
    table,      \* key -> whether its row exists and is in the list
    cache,      \* rows and age of the cache
    request,    \* what each request awaits
    reply,      \* the answer given in the last step, if it was one
    recent,     \* history: <<age, listing>> of the last Limit ticks
    outage      \* history: ticks since a query failed

vars == <<kind, table, cache, request, reply, recent, outage>>

-----------------------------------------------------------------------------
(* Data. *)

(* A hidden row is one of a revoked validator, or of a node that was not   *)
(* crawled in the last hour: it is stored, and the list leaves it out.  A  *)
(* validator that has not voted has no row in ballot, with which list and  *)
(* look-up join its own: neither has it.  Ballots are never deleted.       *)
Status == {"absent", "unvoted", "hidden", "listed"}
Unjoined == {"absent", "unvoted"}
Allowed == IF kind = "validators" THEN Status ELSE Status \ {"unvoted"}

getValidators(t) == {k \in Key : t[k] = "listed"}

Silent == [asked |-> None, status |-> 200, rows |-> {}, gone |-> FALSE]

Idle == [step |-> "idle", asked |-> All, waited |-> 0, rows |-> {}, gone |-> FALSE]

(* The ticks an answer may lag behind: the age of the cache, the time its  *)
(* query took, and the queries that handleValidators awaits after it.      *)
Limit == Interval + MaxDelay + (IF kind = "validators" THEN MaxDelay ELSE 0)

IsFresh == cache.age <= Interval /\ ~(kind = "validators" /\ cache.rows = {})

(* What the abstract specification sees of it.                             *)
Reads == INSTANCE SnapshotReads WITH
            Grace <- MaxDelay,
            listing <- getValidators(table),
            limit <- Limit,
            told <- IF reply.asked = All THEN {reply.rows} ELSE {}

-----------------------------------------------------------------------------
(* The handlers, once the cache has been refreshed or is fresh: r is the   *)
(* request, q what is known of it, rows what the cache holds.              *)

Ends(r) == request' = [request EXCEPT ![r] = Idle]
Await(r, q, step) == request' = [request EXCEPT ![r] = [q EXCEPT !.step = step, !.waited = 0]]

ReplyList(r, rows) ==
    /\ Ends(r)
    /\ reply' = [Silent EXCEPT !.asked = All, !.rows = rows]

ReplyKey(r, q, status) ==
    /\ Ends(r)
    /\ reply' = [Silent EXCEPT !.asked = q.asked, !.status = status, !.gone = q.gone]

(* The parameter may be a network or a UNL: more queries before the cache  *)
(* is read.                                                                *)
handleValidators(r, q) == Await(r, q, "params") /\ reply' = Silent

(* Stored but not in the list, or new: the row is looked up in the table.  *)
handleValidator(r, q, rows) ==
    \/ q.asked \in rows /\ ReplyKey(r, q, 200)
    \/ q.asked \notin rows /\ Await(r, q, "find") /\ reply' = Silent

handleNodes(r, rows) == ReplyList(r, rows)

handleNode(r, q, rows) ==
    \/ q.asked \in rows /\ ReplyKey(r, q, 200)
    \/ q.asked \notin rows /\ Await(r, q, "find") /\ reply' = Silent

handleAmendmentsInfo(r, rows) == ReplyList(r, rows)

handleAmendmentInfo(r, q, rows) ==
    ReplyKey(r, q, IF q.asked \in rows THEN 200 ELSE 404)

handleDailyScores(r, rows) == ReplyList(r, rows)

Handle(r, q, rows) ==
    \/ r = Load /\ Ends(r) /\ reply' = Silent
    \/ /\ r # Load
       /\ q.asked = All
       /\ \/ kind = "validators" /\ handleValidators(r, q)
          \/ kind = "nodes" /\ handleNodes(r, rows)
          \/ kind = "info" /\ handleAmendmentsInfo(r, rows)
          \/ kind = "scores" /\ handleDailyScores(r, rows)
    \/ /\ r # Load
       /\ q.asked # All
       /\ \/ kind = "validators" /\ handleValidator(r, q, rows)
          \/ kind = "nodes" /\ handleNode(r, q, rows)
          \/ kind = "info" /\ handleAmendmentInfo(r, q, rows)

-----------------------------------------------------------------------------
(* A request comes, and awaits a refresh of its own unless the cache is    *)
(* fresh.                                                                  *)

Asks == IF kind = "scores" THEN {All} ELSE Changing \cup {All}

Asking(asked) ==
    [Idle EXCEPT !.asked = asked, !.gone = (asked \in Key /\ table[asked] \in Unjoined)]

Arrive(r, asked) ==
    /\ request[r].step = "idle"
    /\ \/ IsFresh /\ Handle(r, Asking(asked), cache.rows)
       \/ ~IsFresh /\ Await(r, Asking(asked), "query") /\ reply' = Silent
    /\ UNCHANGED <<kind, table, cache, recent, outage>>

(* The database runs the query of a refresh.                               *)
Evaluate(r) ==
    /\ request[r].step = "query"
    /\ request' = [request EXCEPT ![r].step = "answered", ![r].rows = getValidators(table)]
    /\ reply' = Silent
    /\ UNCHANGED <<kind, table, cache, recent, outage>>

(* The answer comes.  The cache is dated now, however old the answer is    *)
(* and whatever a later refresh has put there.                             *)
Filled(rows) == [rows |-> rows, age |-> 0]

Refresh(r) ==
    /\ request[r].step = "answered"
    /\ cache' = Filled(request[r].rows)
    /\ Handle(r, request[r], request[r].rows)
    /\ UNCHANGED <<kind, table, recent, outage>>

(* The query fails: the error is logged, the old rows keep their time, and *)
(* the request is answered from them.  Mutant: they are dated anew.        *)
RefreshFailsDated(r) ==
    /\ request[r].step = "query"
    /\ outage' = 0
    /\ cache' = Filled(cache.rows)
    /\ Handle(r, request[r], cache.rows)
    /\ UNCHANGED <<kind, table, recent>>

RefreshFails(r) ==
    /\ request[r].step = "query"
    /\ outage' = 0
    /\ Handle(r, request[r], cache.rows)
    /\ UNCHANGED <<kind, table, cache, recent>>

(* The network or UNL of the parameter is known; the cache is read now.    *)
AnswerParams(r) ==
    /\ request[r].step = "params"
    /\ ReplyList(r, cache.rows)
    /\ UNCHANGED <<kind, table, cache, recent, outage>>

(* findInDatabase.  That of nodes.ts fails on any database: both tables of *)
(* its join have the column public_key that it asks for.  Mutants: revoked *)
(* validators are left out here too; no rows are not told from one.        *)
FoundIfListed(k) == IF table[k] = "listed" THEN 200 ELSE 404
FoundUnchecked(k) == IF table[k] \in Unjoined THEN 500 ELSE 200
Found(k) == IF table[k] \in Unjoined THEN 404 ELSE 200

FindValidator(r) ==
    /\ request[r].step = "find"
    /\ kind = "validators"
    /\ ReplyKey(r, request[r], Found(request[r].asked))
    /\ UNCHANGED <<kind, table, cache, recent, outage>>

FindNode(r) ==
    /\ request[r].step = "find"
    /\ kind = "nodes"
    /\ ReplyKey(r, request[r], 500)
    /\ UNCHANGED <<kind, table, cache, recent, outage>>

(* A query that a handler itself awaits fails: status 500.                 *)
HandlerFails(r) ==
    /\ request[r].step \in {"params", "find"}
    /\ outage' = 0
    /\ \/ request[r].asked = All /\ Ends(r) /\ reply' = Silent
       \/ request[r].asked # All /\ ReplyKey(r, request[r], 500)
    /\ UNCHANGED <<kind, table, cache, recent>>

-----------------------------------------------------------------------------
(* The other processes change the table; time passes.                      *)

Change(k, status) ==
    /\ status = "unvoted" => table[k] \in Unjoined
    /\ table' = [table EXCEPT ![k] = status]
    /\ recent' = recent \cup {<<0, getValidators(table')>>}
    /\ request' = [r \in DOMAIN request |->
                      [request[r] EXCEPT !.gone = @ \/ (request[r].asked = k /\ status \in Unjoined)]]
    /\ reply' = Silent
    /\ UNCHANGED <<kind, cache, outage>>

Older(age, bound) == IF age > bound THEN age ELSE age + 1

Tick ==
    /\ \A r \in DOMAIN request : request[r].step # "idle" => request[r].waited < MaxDelay
    /\ cache' = [cache EXCEPT !.age = Older(@, Interval)]
    /\ request' = [r \in DOMAIN request |->
                      IF request[r].step = "idle" THEN Idle
                      ELSE [request[r] EXCEPT !.waited = @ + 1]]
    /\ recent' = Reads!Aged(recent, getValidators(table))
    /\ outage' = Older(outage, MaxDelay)
    /\ reply' = Silent
    /\ UNCHANGED <<kind, table>>

-----------------------------------------------------------------------------
(* The module is loaded: an empty cache that counts as fresh, and a first  *)
(* refresh that nobody awaits.                                             *)
Init ==
    /\ kind \in Kinds
    /\ table \in [Key -> Allowed]
    /\ \A k \in Key \ Changing : table[k] = "listed"
    /\ cache = [rows |-> {}, age |-> 0]
    /\ request = [r \in Request \cup {Load} |-> IF r = Load THEN [Idle EXCEPT !.step = "query"] ELSE Idle]
    /\ reply = Silent
    /\ recent = {<<0, {}>>, <<0, getValidators(table)>>}
    /\ outage = MaxDelay + 1

Answers(r) == Evaluate(r) \/ Refresh(r) \/ AnswerParams(r) \/ FindValidator(r) \/ FindNode(r)

Next ==
    \/ \E r \in Request, asked \in Asks : Arrive(r, asked)
    \/ \E r \in Request \cup {Load} : Answers(r) \/ RefreshFails(r) \/ HandlerFails(r)
    \/ \E k \in Changing, status \in Allowed : Change(k, status)
    \/ Tick

Spec == Init /\ [][Next]_vars

-----------------------------------------------------------------------------
(* Properties. *)

Step == {"idle", "query", "answered", "params", "find"}

(* The types of the variables; only the look-up of a node, and one that    *)
(* meets a query that fails, is answered with an internal error.           *)
TypeOK ==
    /\ kind \in Kinds
    /\ table \in [Key -> Allowed]
    /\ cache \in [rows : SUBSET Key, age : 0..Interval + 1]
    /\ request \in [Request \cup {Load} ->
           [step : Step, asked : Key \cup {All}, waited : 0..MaxDelay, rows : SUBSET Key, gone : BOOLEAN]]
    /\ reply \in [asked : Key \cup {All, None}, status : {200, 404, 500}, rows : SUBSET Key, gone : BOOLEAN]
    /\ recent \subseteq (0..Limit) \X SUBSET Key
    /\ outage \in 0..MaxDelay + 1
    /\ reply.status = 500 => kind = "nodes" \/ outage = 0

(* docs/API.md:361 - responses are cached for 60 seconds.  Refreshes that  *)
(* overlap put older rows in the place of newer ones with a newer date,    *)
(* and failed ones leave the rows that were there.  Still, whoever asks    *)
(* for a list is told what the table listed at one moment within the       *)
(* interval and the time the queries took, or a query has just failed.     *)
ReadsSpec == Reads!Spec

(* validator.ts:276 - a validator that is stored and has a ballot all the  *)
(* time a request takes, revoked or not and in the cache or not, is not    *)
(* answered with "not found": the cache and the table are asked at         *)
(* different moments, in that order.                                       *)
BallotedIsFound == kind = "validators" /\ reply.status = 404 => reply.gone
=============================================================================
