------------------------------ MODULE VoteCache -------------------------------
(***************************************************************************)
(* The cache of amendment votes of the API (cacheVote and cacheEnabled of  *)
(* src/src/api/routes/v1/amendments.ts), for one amendment on one network. *)
(*                                                                         *)
(* A request that finds the cache expired awaits the networks, starts a    *)
(* refresh of each that nobody awaits, and is answered at once from what   *)
(* was cached.  Refreshes may overlap: they share cacheEnabled, which only *)
(* grows, and each puts its own two lists in the cache when it ends.       *)
(***************************************************************************)
EXTENDS Naturals

CONSTANTS
    Request,    \* requests handled at once
    Load,       \* the call that loading the module makes
    Refresh,    \* bound on the refreshes that run at once
    Undefined   \* the network is not in the cache

ASSUME VoteCacheAssumption ==
    /\ Load \notin Request
    /\ Undefined \notin [enabled : BOOLEAN, voting : BOOLEAN]

VARIABLES
    table,          \* the database: is the amendment enabled, is it voted for
    reachable,      \* whether the database answers
    running,        \* whether the process runs
    cacheVote,      \* the lists of cacheVote.networks the amendment is in
    fresh,          \* cacheVote.time is less than CACHE_INTERVAL_MILLIS old
    cacheEnabled,   \* whether the amendment is in cacheEnabled
    request,        \* what each request awaits
    refresh,        \* what each refresh awaits
    kept,           \* history: what held ever since a refresh began
    owed,           \* history: what held during the refresh in the cache
    shown           \* history: whether this process showed it as enabled

processVars == <<running, cacheVote, fresh, cacheEnabled, request, refresh>>
historyVars == <<kept, owed, shown>>
vars == <<table, reachable, processVars, historyVars>>

-----------------------------------------------------------------------------
(* Data. *)

NoRefresh == [step |-> "idle", enabled |-> FALSE, voting |-> FALSE]

(* enabled, voted: so all the time.  alone: no other refresh overlapped.   *)
Nothing == [enabled |-> FALSE, voted |-> FALSE, alone |-> FALSE]

Begun == {t \in Refresh : refresh[t].step # "idle"}

(* The amendment has a row without eta; it is in some ballot.              *)
isEnabled == table.enabled
isVoted == table.voted

-----------------------------------------------------------------------------
(* The process ends: an unhandled rejection.  It is restarted with empty   *)
(* caches that count as fresh.                                             *)

Ends ==
    /\ running' = FALSE
    /\ cacheVote' = Undefined
    /\ fresh' = TRUE
    /\ cacheEnabled' = FALSE
    /\ request' = [r \in Request \cup {Load} |-> "idle"]
    /\ refresh' = [t \in Refresh |-> NoRefresh]
    /\ kept' = [t \in Refresh |-> Nothing]
    /\ owed' = Nothing
    /\ shown' = FALSE

Restart ==
    /\ ~running
    /\ running' = TRUE
    /\ request' = [request EXCEPT ![Load] = "networks"]
    /\ UNCHANGED <<table, reachable, cacheVote, fresh, cacheEnabled, refresh, historyVars>>

-----------------------------------------------------------------------------
(* The handlers.  A request is for the votes of a network (list) or for    *)
(* one amendment of it (one) or of a network that is not cached (oneOther). *)
(* handleAmendmentsVote answers whatever it finds.  handleAmendmentVote    *)
(* goes on after it has answered that there is no such network, fails, and *)
(* fails again to answer that.                                             *)

Asked == {"list", "one", "oneOther"}

Fails(asked) == asked = "oneOther" \/ (asked = "one" /\ cacheVote = Undefined)

Arrive(r, asked) ==
    /\ running
    /\ request[r] = "idle"
    /\ \/ fresh /\ Fails(asked) /\ Ends
       \/ /\ ~fresh
          /\ request' = [request EXCEPT ![r] = asked]
          /\ UNCHANGED <<running, cacheVote, fresh, cacheEnabled, refresh, historyVars>>
    /\ UNCHANGED <<table, reachable>>

(* cacheAmendmentsVote: the networks are known, and a refresh of this one  *)
(* begins.  The cache is dated now, before anything is in it.              *)
Start(t) ==
    /\ refresh[t] = NoRefresh
    /\ refresh' = [refresh EXCEPT ![t].step = "enabled"]
    /\ fresh' = TRUE
    /\ kept' = [u \in Refresh |->
                   IF u = t THEN [enabled |-> isEnabled, voted |-> isVoted, alone |-> Begun = {}]
                   ELSE [kept[u] EXCEPT !.alone = FALSE]]

AnswerNetworks(r, t) ==
    /\ reachable
    /\ request[r] # "idle"
    /\ \/ Fails(request[r]) /\ Ends
       \/ /\ ~Fails(request[r])
          /\ Start(t)
          /\ request' = [request EXCEPT ![r] = "idle"]
          /\ UNCHANGED <<running, cacheVote, cacheEnabled, owed, shown>>
    /\ UNCHANGED <<table, reachable>>

(* The error is logged, and the cache stays expired.                       *)
NetworksFail(r) ==
    /\ ~reachable
    /\ request[r] # "idle"
    /\ \/ Fails(request[r]) /\ Ends
       \/ /\ ~Fails(request[r])
          /\ request' = [request EXCEPT ![r] = "idle"]
          /\ UNCHANGED <<running, cacheVote, fresh, cacheEnabled, refresh, historyVars>>
    /\ UNCHANGED <<table, reachable>>

(* More than CACHE_INTERVAL_MILLIS have passed.                            *)
Expire ==
    /\ running
    /\ fresh
    /\ fresh' = FALSE
    /\ UNCHANGED <<table, reachable, running, cacheVote, cacheEnabled, request, refresh, historyVars>>

-----------------------------------------------------------------------------
(* A refresh: two queries, each evaluated and then answered.               *)

refreshOnly == <<table, reachable, running, cacheVote, fresh, request, historyVars>>

EvaluateEnabled(t) ==
    /\ reachable
    /\ refresh[t].step = "enabled"
    /\ refresh' = [refresh EXCEPT ![t].step = "enabledAnswer", ![t].enabled = isEnabled]
    /\ UNCHANGED <<refreshOnly, cacheEnabled>>

(* What the answer names is added.  Mutant: it is all that is named.       *)
NamedAnew(q) == q.enabled
Named(q) == cacheEnabled \/ q.enabled

getEnabledAmendments(t) ==
    /\ refresh[t].step = "enabledAnswer"
    /\ cacheEnabled' = Named(refresh[t])
    /\ refresh' = [refresh EXCEPT ![t].step = "voting"]
    /\ UNCHANGED refreshOnly

EvaluateVoting(t) ==
    /\ reachable
    /\ refresh[t].step = "voting"
    /\ refresh' = [refresh EXCEPT ![t].step = "votingAnswer", ![t].voting = isVoted]
    /\ UNCHANGED <<refreshOnly, cacheEnabled>>

(* What of the ballots is in voting: all that cacheEnabled does not name.  *)
(* Mutant: all that the refresh itself did not find enabled.               *)
InVotingByOwnList(q) == q.voting /\ ~q.enabled
InVoting(q) == q.voting /\ ~cacheEnabled

(* Mutant: the second list takes the place of the first.                   *)
StoredVoting(lists) == [lists EXCEPT !.enabled = FALSE]
Stored(lists) == lists

getVotingAmendments(t) ==
    LET q == refresh[t] IN
    /\ q.step = "votingAnswer"
    /\ cacheVote' = Stored([enabled |-> q.enabled, voting |-> InVoting(q)])
    /\ refresh' = [refresh EXCEPT ![t] = NoRefresh]
    /\ owed' = kept[t]
    /\ shown' = (shown \/ q.enabled)
    /\ kept' = [kept EXCEPT ![t] = Nothing]
    /\ UNCHANGED <<table, reachable, running, fresh, cacheEnabled, request>>

(* Nothing catches the error of a query in a refresh.                      *)
RefreshFails(t) ==
    /\ ~reachable
    /\ refresh[t].step \in {"enabled", "voting", "votingAnswer"}
    /\ Ends
    /\ UNCHANGED <<table, reachable>>

-----------------------------------------------------------------------------
(* The database.  An amendment that is enabled there stays so, which is    *)
(* EnabledStays of Amendments; ballots come and go.                        *)

Enable ==
    /\ ~table.enabled
    /\ table' = [table EXCEPT !.enabled = TRUE]
    /\ UNCHANGED <<reachable, processVars, historyVars>>

ChangeBallots ==
    /\ table' = [table EXCEPT !.voted = ~@]
    /\ kept' = [t \in Refresh |-> [kept[t] EXCEPT !.voted = FALSE]]
    /\ UNCHANGED <<reachable, processVars, owed, shown>>

Outage == reachable' = ~reachable /\ UNCHANGED <<table, processVars, historyVars>>

-----------------------------------------------------------------------------
Init ==
    /\ table \in [enabled : BOOLEAN, voted : BOOLEAN]
    /\ reachable = TRUE
    /\ running = TRUE
    /\ cacheVote = Undefined
    /\ fresh = TRUE
    /\ cacheEnabled = FALSE
    /\ request = [r \in Request \cup {Load} |-> IF r = Load THEN "networks" ELSE "idle"]
    /\ refresh = [t \in Refresh |-> NoRefresh]
    /\ kept = [t \in Refresh |-> Nothing]
    /\ owed = Nothing
    /\ shown = FALSE

Steps(t) ==
    \/ EvaluateEnabled(t)
    \/ getEnabledAmendments(t)
    \/ EvaluateVoting(t)
    \/ getVotingAmendments(t)

Next ==
    \/ \E r \in Request, asked \in Asked : Arrive(r, asked)
    \/ \E r \in Request \cup {Load}, t \in Refresh : AnswerNetworks(r, t)
    \/ \E r \in Request \cup {Load} : NetworksFail(r)
    \/ \E t \in Refresh : Steps(t) \/ RefreshFails(t)
    \/ Expire \/ Restart
    \/ Enable \/ ChangeBallots \/ Outage

Spec == Init /\ [][Next]_vars

(* The database answers every query while it answers any, time passes, and *)
(* the process is restarted.                                               *)
Fairness ==
    /\ \A r \in Request \cup {Load} : WF_vars(\E t \in Refresh : AnswerNetworks(r, t))
    /\ \A t \in Refresh : WF_vars(Steps(t))
    /\ WF_vars(Expire) /\ WF_vars(Restart)

FairSpec == Spec /\ Fairness

-----------------------------------------------------------------------------
(* Properties. *)

RefreshStep == {"idle", "enabled", "enabledAnswer", "voting", "votingAnswer"}
Kept == [enabled : BOOLEAN, voted : BOOLEAN, alone : BOOLEAN]

(* The types of the variables; what the cache shows as enabled is named in *)
(* cacheEnabled, by which every later refresh sorts the ballots.           *)
TypeOK ==
    /\ table \in [enabled : BOOLEAN, voted : BOOLEAN]
    /\ {reachable, running, fresh, cacheEnabled, shown} \subseteq BOOLEAN
    /\ cacheVote \in [enabled : BOOLEAN, voting : BOOLEAN] \cup {Undefined}
    /\ request \in [Request \cup {Load} -> {"idle", "networks"} \cup Asked]
    /\ refresh \in [Refresh -> [step : RefreshStep, enabled : BOOLEAN, voting : BOOLEAN]]
    /\ kept \in [Refresh -> Kept]
    /\ owed \in Kept
    /\ cacheVote # Undefined /\ cacheVote.enabled => cacheEnabled

(* docs/API.md:281 - the votes are the enabled amendments and those in     *)
(* voting.  Whatever overlaps, no amendment is in both lists, and none     *)
(* that was once shown as enabled goes back to those in voting.            *)
NotBackInVoting == shown => ~cacheVote.voting

(* An amendment that was enabled all the time of the refresh in the cache  *)
(* is shown as enabled.  One that was voted for all that time is in one of *)
(* the lists, also when it became enabled meanwhile: unless refreshes      *)
(* overlapped, and it may then be in neither.                              *)
NothingIsDropped ==
    cacheVote # Undefined =>
        /\ owed.enabled => cacheVote.enabled
        /\ owed.voted /\ owed.alone => cacheVote.enabled \/ cacheVote.voting

(* While the database answers, the process runs and requests come that     *)
(* find the cache expired, an amendment that stays enabled is shown so.    *)
EnabledIsShown ==
    (<>[](reachable /\ running) /\ []<>(\E r \in Request : request[r] # "idle")) =>
        (<>[](table.enabled) => <>[](cacheVote # Undefined /\ cacheVote.enabled))
=============================================================================
