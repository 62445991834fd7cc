---------------------------- MODULE VoteCacheProofs ----------------------------
(***************************************************************************)
(* What holds of the cache of amendment votes for any number of requests   *)
(* and of refreshes that overlap.                                          *)
(***************************************************************************)
EXTENDS VoteCache, TLAPS

Everyone == Request \cup {Load}
Lists == [enabled : BOOLEAN, voting : BOOLEAN]
Query == [step : RefreshStep, enabled : BOOLEAN, voting : BOOLEAN]

-----------------------------------------------------------------------------
(* The types. *)

LEMMA Constants ==
    /\ NoRefresh \in Query /\ NoRefresh.step = "idle" /\ ~NoRefresh.enabled
    /\ Nothing \in Kept /\ ~Nothing.enabled /\ ~Nothing.voted /\ ~Nothing.alone
BY DEF NoRefresh, Nothing, Query, Kept, RefreshStep

LEMMA EndsTypes ==
    ASSUME TypeOK, Ends, UNCHANGED <<table, reachable>>
    PROVE  TypeOK'
<1>1. request' \in [Everyone -> {"idle", "networks"} \cup Asked]
    BY DEF Ends, Everyone
<1>2. refresh' \in [Refresh -> Query] /\ kept' \in [Refresh -> Kept] /\ owed' \in Kept
    BY Constants DEF Ends
<1>. QED BY <1>1, <1>2 DEF TypeOK, Ends, Everyone, Query

LEMMA StartTypes ==
    ASSUME TypeOK, NEW t \in Refresh, Start(t)
    PROVE  /\ refresh' \in [Refresh -> Query] /\ fresh' \in BOOLEAN /\ kept' \in [Refresh -> Kept]
           /\ refresh[t] = NoRefresh
           /\ refresh'[t].step = "enabled" /\ ~refresh'[t].enabled
           /\ kept'[t] = [enabled |-> isEnabled, voted |-> isVoted, alone |-> Begun = {}]
           /\ \A u \in Refresh : u # t =>
                 /\ refresh'[u] = refresh[u]
                 /\ kept'[u].enabled = kept[u].enabled /\ kept'[u].voted = kept[u].voted
                 /\ ~kept'[u].alone
<1>1. /\ refresh \in [Refresh -> Query] /\ kept \in [Refresh -> Kept]
      /\ isEnabled \in BOOLEAN /\ isVoted \in BOOLEAN
    BY DEF TypeOK, Query, isEnabled, isVoted
<1>2. /\ refresh[t] = NoRefresh /\ fresh' = TRUE
      /\ refresh' = [refresh EXCEPT ![t].step = "enabled"]
      /\ kept' = [u \in Refresh |->
                    IF u = t THEN [enabled |-> isEnabled, voted |-> isVoted, alone |-> Begun = {}]
                    ELSE [kept[u] EXCEPT !.alone = FALSE]]
    BY DEF Start
<1>3. /\ [refresh[t] EXCEPT !.step = "enabled"] \in Query
      /\ [refresh[t] EXCEPT !.step = "enabled"].step = "enabled"
      /\ ~[refresh[t] EXCEPT !.step = "enabled"].enabled
    BY <1>1, <1>2, Constants DEF Query, RefreshStep
<1>4. /\ refresh' \in [Refresh -> Query]
      /\ refresh'[t].step = "enabled" /\ ~refresh'[t].enabled
      /\ \A u \in Refresh : u # t => refresh'[u] = refresh[u]
    BY <1>1, <1>2, <1>3
<1>5. [enabled |-> isEnabled, voted |-> isVoted, alone |-> Begun = {}] \in Kept
    BY <1>1 DEF Kept
<1>6. \A u \in Refresh :
          /\ [kept[u] EXCEPT !.alone = FALSE] \in Kept
          /\ [kept[u] EXCEPT !.alone = FALSE].enabled = kept[u].enabled
          /\ [kept[u] EXCEPT !.alone = FALSE].voted = kept[u].voted
          /\ ~[kept[u] EXCEPT !.alone = FALSE].alone
    BY <1>1 DEF Kept
<1>7. /\ kept' \in [Refresh -> Kept]
      /\ kept'[t] = [enabled |-> isEnabled, voted |-> isVoted, alone |-> Begun = {}]
      /\ \A u \in Refresh : u # t =>
            /\ kept'[u].enabled = kept[u].enabled /\ kept'[u].voted = kept[u].voted
            /\ ~kept'[u].alone
    BY <1>2, <1>5, <1>6
<1>. QED BY <1>2, <1>4, <1>7

-----------------------------------------------------------------------------
(* The invariant. *)

Evaluated == {"enabledAnswer", "voting", "votingAnswer"}

(* What a refresh found enabled is in cacheEnabled by the time it asks     *)
(* for the ballots.                                                        *)
Noted ==
    \A t \in Refresh :
        /\ refresh[t].step \in {"voting", "votingAnswer"} /\ refresh[t].enabled => cacheEnabled
        /\ refresh[t].enabled => refresh[t].step \in Evaluated

(* What held since a refresh began holds, and the refresh has found it.    *)
KeptIsFound ==
    \A t \in Refresh :
        /\ kept[t].enabled => table.enabled
        /\ kept[t].voted => table.voted
        /\ kept[t].enabled /\ refresh[t].step \in Evaluated => refresh[t].enabled
        /\ kept[t].voted /\ refresh[t].step = "votingAnswer" => refresh[t].voting

AloneIsAlone ==
    \A t, u \in Refresh : kept[t].alone /\ refresh[u].step # "idle" => u = t

(* What was ever found enabled is so, and a refresh that is alone finds    *)
(* all that cacheEnabled has.                                              *)
EnabledForGood ==
    /\ cacheEnabled => table.enabled
    /\ \A t \in Refresh :
          /\ refresh[t].enabled => table.enabled
          /\ kept[t].alone /\ refresh[t].step \in Evaluated /\ cacheEnabled => refresh[t].enabled

ShownIsNoted == shown => cacheEnabled

IInv ==
    /\ TypeOK /\ Noted /\ KeptIsFound /\ AloneIsAlone /\ EnabledForGood /\ ShownIsNoted
    /\ NotBackInVoting /\ NothingIsDropped

LEMMA InitIInv == Init => IInv
<1>1. SUFFICES ASSUME Init PROVE IInv
    OBVIOUS
<1>2. \A t \in Refresh : refresh[t] = NoRefresh /\ kept[t] = Nothing
    BY <1>1 DEF Init
<1>3. /\ refresh \in [Refresh -> Query] /\ kept \in [Refresh -> Kept] /\ owed \in Kept
      /\ request \in [Everyone -> {"idle", "networks"} \cup Asked]
    BY <1>1, Constants DEF Init, Everyone
<1>4. TypeOK
    BY <1>1, <1>3 DEF Init, TypeOK, Query, Everyone
<1>5. Noted /\ KeptIsFound /\ AloneIsAlone
    BY <1>2, Constants DEF Noted, KeptIsFound, AloneIsAlone, Evaluated
<1>6. EnabledForGood
    BY <1>1, <1>2, Constants DEF Init, EnabledForGood, Evaluated
<1>7. ShownIsNoted /\ NotBackInVoting /\ NothingIsDropped
    BY <1>1 DEF Init, ShownIsNoted, NotBackInVoting, NothingIsDropped
<1>. QED BY <1>4, <1>5, <1>6, <1>7 DEF IInv

-----------------------------------------------------------------------------
(* The steps. *)

(* With the process, all that the invariant speaks of is gone.             *)
LEMMA EndsKeeps ==
    ASSUME IInv, Ends, UNCHANGED <<table, reachable>>
    PROVE  IInv'
<1>1. TypeOK'
    BY EndsTypes DEF IInv
<1>2. /\ \A t \in Refresh : refresh'[t] = NoRefresh /\ kept'[t] = Nothing
      /\ ~cacheEnabled' /\ ~shown' /\ cacheVote' = Undefined
    BY DEF Ends
<1>3. Noted' /\ KeptIsFound' /\ AloneIsAlone' /\ EnabledForGood'
    BY <1>2, Constants DEF Noted, KeptIsFound, AloneIsAlone, EnabledForGood, Evaluated
<1>4. ShownIsNoted' /\ NotBackInVoting' /\ NothingIsDropped'
    BY <1>2 DEF ShownIsNoted, NotBackInVoting, NothingIsDropped
<1>. QED BY <1>1, <1>3, <1>4 DEF IInv

(* Steps that change nothing of it but a type. *)
LEMMA RestKeeps ==
    ASSUME IInv, TypeOK', UNCHANGED <<table, cacheVote, cacheEnabled, refresh, historyVars>>
    PROVE  IInv'
BY DEF IInv, historyVars, Noted, KeptIsFound, AloneIsAlone, EnabledForGood, ShownIsNoted,
       NotBackInVoting, NothingIsDropped

LEMMA ArriveKeeps ==
    ASSUME IInv, NEW r \in Request, NEW asked \in Asked, Arrive(r, asked)
    PROVE  IInv'
<1>1. CASE Ends /\ UNCHANGED <<table, reachable>>
    BY <1>1, EndsKeeps
<1>2. CASE /\ request' = [request EXCEPT ![r] = asked]
           /\ UNCHANGED <<table, reachable, running, cacheVote, fresh, cacheEnabled, refresh, historyVars>>
    <2>1. TypeOK'
        BY <1>2 DEF IInv, TypeOK, historyVars
    <2>. QED BY <1>2, <2>1, RestKeeps
<1>. QED BY <1>1, <1>2 DEF Arrive

LEMMA NetworksFailKeeps ==
    ASSUME IInv, NEW r \in Everyone, NetworksFail(r)
    PROVE  IInv'
<1>1. CASE Ends /\ UNCHANGED <<table, reachable>>
    BY <1>1, EndsKeeps
<1>2. CASE /\ request' = [request EXCEPT ![r] = "idle"]
           /\ UNCHANGED <<table, reachable, running, cacheVote, fresh, cacheEnabled, refresh, historyVars>>
    <2>1. TypeOK'
        BY <1>2 DEF IInv, TypeOK, historyVars, Everyone
    <2>. QED BY <1>2, <2>1, RestKeeps
<1>. QED BY <1>1, <1>2 DEF NetworksFail

LEMMA AnswerNetworksKeeps ==
    ASSUME IInv, NEW r \in Everyone, NEW t \in Refresh, AnswerNetworks(r, t)
    PROVE  IInv'
<1>1. CASE Ends /\ UNCHANGED <<table, reachable>>
    BY <1>1, EndsKeeps
<1>2. CASE /\ Start(t)
           /\ request' = [request EXCEPT ![r] = "idle"]
           /\ UNCHANGED <<table, reachable, running, cacheVote, cacheEnabled, owed, shown>>
    <2>1. /\ refresh' \in [Refresh -> Query] /\ fresh' \in BOOLEAN /\ kept' \in [Refresh -> Kept]
          /\ refresh[t] = NoRefresh
          /\ refresh'[t].step = "enabled" /\ ~refresh'[t].enabled
          /\ kept'[t] = [enabled |-> isEnabled, voted |-> isVoted, alone |-> Begun = {}]
          /\ \A u \in Refresh : u # t =>
                /\ refresh'[u] = refresh[u]
                /\ kept'[u].enabled = kept[u].enabled /\ kept'[u].voted = kept[u].voted
                /\ ~kept'[u].alone
        BY <1>2, StartTypes DEF IInv
    <2>2. TypeOK'
        BY <1>2, <2>1 DEF IInv, TypeOK, Query, Everyone
    <2>3. Noted'
        BY <1>2, <2>1 DEF IInv, Noted, Evaluated
    <2>4. KeptIsFound'
        <3>1. /\ kept'[t].enabled => table.enabled
              /\ kept'[t].voted => table.voted
            BY <2>1 DEF isEnabled, isVoted
        <3>. QED BY <1>2, <2>1, <3>1 DEF IInv, KeptIsFound, Evaluated
    <2>5. AloneIsAlone'
        <3>1. PICK b \in BOOLEAN : b = (Begun = {})
            OBVIOUS
        <3>2. kept'[t] = [enabled |-> isEnabled, voted |-> isVoted, alone |-> b]
            BY <2>1, <3>1, Zenon
        <3>3. kept'[t].alone => \A u \in Refresh : refresh[u].step = "idle"
            <4>1. kept'[t].alone = b
                BY <3>2
            <4>2. CASE b
                BY <3>1, <4>2 DEF Begun
            <4>3. CASE ~b
                BY <4>1, <4>3
            <4>. QED BY <3>1, <4>2, <4>3
        <3>. QED BY <2>1, <3>3 DEF AloneIsAlone
    <2>6. EnabledForGood'
        BY <1>2, <2>1 DEF IInv, EnabledForGood, Evaluated
    <2>7. ShownIsNoted' /\ NotBackInVoting' /\ NothingIsDropped'
        BY <1>2 DEF IInv, ShownIsNoted, NotBackInVoting, NothingIsDropped
    <2>. QED BY <2>2, <2>3, <2>4, <2>5, <2>6, <2>7 DEF IInv
<1>. QED BY <1>1, <1>2 DEF AnswerNetworks

(* A step of the refresh t, which is x from now on.                        *)
LEMMA RefreshTypes ==
    ASSUME IInv, NEW t \in Refresh, NEW x \in Query, refresh' = [refresh EXCEPT ![t] = x],
           cacheEnabled' \in BOOLEAN, cacheEnabled => cacheEnabled',
           UNCHANGED <<table, reachable, running, cacheVote, fresh, request, kept, owed, shown>>
    PROVE  /\ TypeOK'
           /\ refresh'[t] = x /\ \A u \in Refresh : u # t => refresh'[u] = refresh[u]
<1>1. refresh \in [Refresh -> Query]
    BY DEF IInv, TypeOK, Query
<1>2. refresh' \in [Refresh -> Query]
    BY <1>1
<1>. QED BY <1>1, <1>2 DEF IInv, TypeOK, Query

LEMMA EvaluateEnabledKeeps ==
    ASSUME IInv, NEW t \in Refresh, EvaluateEnabled(t)
    PROVE  IInv'
<1>1. refresh[t] \in Query /\ table.enabled \in BOOLEAN
    BY DEF IInv, TypeOK, Query
<1>2. PICK x : x = [refresh[t] EXCEPT !.step = "enabledAnswer", !.enabled = table.enabled]
    OBVIOUS
<1>3. x \in Query /\ x.step = "enabledAnswer" /\ x.enabled = table.enabled
    BY <1>1, <1>2 DEF Query, RefreshStep
<1>4. refresh' = [refresh EXCEPT ![t] = x] /\ refresh[t].step = "enabled"
    BY <1>2 DEF EvaluateEnabled, isEnabled, IInv, TypeOK
<1>5. UNCHANGED <<table, reachable, running, cacheVote, fresh, request, kept, owed, shown, cacheEnabled>>
    BY DEF EvaluateEnabled, refreshOnly, historyVars
<1>6. /\ TypeOK'
      /\ refresh'[t] = x /\ \A u \in Refresh : u # t => refresh'[u] = refresh[u]
    BY <1>3, <1>4, <1>5, RefreshTypes DEF IInv, TypeOK
<1>7. Noted' /\ KeptIsFound' /\ AloneIsAlone'
    BY <1>3, <1>4, <1>5, <1>6 DEF IInv, Noted, KeptIsFound, AloneIsAlone, Evaluated
<1>8. EnabledForGood'
    BY <1>3, <1>4, <1>5, <1>6 DEF IInv, EnabledForGood, Evaluated
<1>9. ShownIsNoted' /\ NotBackInVoting' /\ NothingIsDropped'
    BY <1>5 DEF IInv, ShownIsNoted, NotBackInVoting, NothingIsDropped
<1>. QED BY <1>6, <1>7, <1>8, <1>9 DEF IInv

LEMMA getEnabledAmendmentsKeeps ==
    ASSUME IInv, NEW t \in Refresh, getEnabledAmendments(t)
    PROVE  IInv'
<1>1. refresh[t] \in Query /\ cacheEnabled \in BOOLEAN
    BY DEF IInv, TypeOK, Query
<1>2. PICK x : x = [refresh[t] EXCEPT !.step = "voting"]
    OBVIOUS
<1>3. x \in Query /\ x.step = "voting" /\ x.enabled = refresh[t].enabled
    BY <1>1, <1>2 DEF Query, RefreshStep
<1>4. refresh' = [refresh EXCEPT ![t] = x] /\ refresh[t].step = "enabledAnswer"
    BY <1>2 DEF getEnabledAmendments, IInv, TypeOK
<1>5. /\ UNCHANGED <<table, reachable, running, cacheVote, fresh, request, kept, owed, shown>>
      /\ cacheEnabled' \in BOOLEAN
      /\ cacheEnabled' <=> cacheEnabled \/ refresh[t].enabled
    BY <1>1 DEF getEnabledAmendments, Named, refreshOnly, historyVars, Query
<1>6. /\ TypeOK'
      /\ refresh'[t] = x /\ \A u \in Refresh : u # t => refresh'[u] = refresh[u]
    BY <1>3, <1>4, <1>5, RefreshTypes
<1>7. Noted' /\ KeptIsFound' /\ AloneIsAlone'
    BY <1>3, <1>4, <1>5, <1>6 DEF IInv, Noted, KeptIsFound, AloneIsAlone, Evaluated
<1>8. EnabledForGood'
    <2>1. \A u \in Refresh : kept[u].alone /\ refresh[u].step \in Evaluated => u = t
        BY <1>4 DEF IInv, AloneIsAlone, Evaluated
    <2>. QED BY <1>3, <1>4, <1>5, <1>6, <2>1 DEF IInv, EnabledForGood, AloneIsAlone, Evaluated
<1>9. ShownIsNoted' /\ NotBackInVoting' /\ NothingIsDropped'
    BY <1>5 DEF IInv, ShownIsNoted, NotBackInVoting, NothingIsDropped
<1>. QED BY <1>6, <1>7, <1>8, <1>9 DEF IInv

LEMMA EvaluateVotingKeeps ==
    ASSUME IInv, NEW t \in Refresh, EvaluateVoting(t)
    PROVE  IInv'
<1>1. refresh[t] \in Query /\ table.voted \in BOOLEAN
    BY DEF IInv, TypeOK, Query
<1>2. PICK x : x = [refresh[t] EXCEPT !.step = "votingAnswer", !.voting = table.voted]
    OBVIOUS
<1>3. /\ x \in Query /\ x.step = "votingAnswer" /\ x.voting = table.voted
      /\ x.enabled = refresh[t].enabled
    BY <1>1, <1>2 DEF Query, RefreshStep
<1>4. refresh' = [refresh EXCEPT ![t] = x] /\ refresh[t].step = "voting"
    BY <1>2 DEF EvaluateVoting, isVoted, IInv, TypeOK
<1>5. UNCHANGED <<table, reachable, running, cacheVote, fresh, request, kept, owed, shown, cacheEnabled>>
    BY DEF EvaluateVoting, refreshOnly, historyVars
<1>6. /\ TypeOK'
      /\ refresh'[t] = x /\ \A u \in Refresh : u # t => refresh'[u] = refresh[u]
    BY <1>3, <1>4, <1>5, RefreshTypes DEF IInv, TypeOK
<1>7. Noted' /\ KeptIsFound' /\ AloneIsAlone'
    BY <1>3, <1>4, <1>5, <1>6 DEF IInv, Noted, KeptIsFound, AloneIsAlone, Evaluated
<1>8. EnabledForGood'
    BY <1>3, <1>4, <1>5, <1>6 DEF IInv, EnabledForGood, Evaluated
<1>9. ShownIsNoted' /\ NotBackInVoting' /\ NothingIsDropped'
    BY <1>5 DEF IInv, ShownIsNoted, NotBackInVoting, NothingIsDropped
<1>. QED BY <1>6, <1>7, <1>8, <1>9 DEF IInv

(* What a refresh stores names what held all the time it took.             *)
LEMMA getVotingAmendmentsKeeps ==
    ASSUME IInv, NEW t \in Refresh, getVotingAmendments(t)
    PROVE  IInv'
<1>1. /\ refresh[t] \in Query /\ kept[t] \in Kept /\ cacheEnabled \in BOOLEAN /\ shown \in BOOLEAN
      /\ refresh[t].step = "votingAnswer"
    BY DEF IInv, TypeOK, Query, getVotingAmendments
<1>2. InVoting(refresh[t]) \in BOOLEAN /\ refresh[t].enabled \in BOOLEAN
    BY <1>1 DEF Query, InVoting
<1>3. /\ cacheVote' = [enabled |-> refresh[t].enabled, voting |-> InVoting(refresh[t])]
      /\ refresh' = [refresh EXCEPT ![t] = NoRefresh]
      /\ kept' = [kept EXCEPT ![t] = Nothing]
      /\ owed' = kept[t] /\ shown' = (shown \/ refresh[t].enabled)
      /\ UNCHANGED <<table, reachable, running, fresh, cacheEnabled, request>>
    BY DEF getVotingAmendments, Stored
<1>4. /\ cacheVote' \in Lists
      /\ cacheVote'.enabled = refresh[t].enabled /\ cacheVote'.voting = InVoting(refresh[t])
    BY <1>2, <1>3 DEF Lists
<1>5. /\ refresh'[t] = NoRefresh /\ kept'[t] = Nothing
      /\ \A u \in Refresh : u # t => refresh'[u] = refresh[u] /\ kept'[u] = kept[u]
      /\ refresh' \in [Refresh -> Query] /\ kept' \in [Refresh -> Kept]
    <2>1. refresh \in [Refresh -> Query] /\ kept \in [Refresh -> Kept]
        BY DEF IInv, TypeOK, Query
    <2>. QED BY <1>3, <2>1, Constants
<1>6. shown' \in BOOLEAN
    BY <1>1, <1>2, <1>3
<1>7. TypeOK'
    <2>1. cacheVote'.enabled => cacheEnabled'
        BY <1>1, <1>3, <1>4 DEF IInv, Noted
    <2>. QED BY <1>1, <1>3, <1>4, <1>5, <1>6, <2>1 DEF IInv, TypeOK, Lists, Query
<1>8. Noted' /\ KeptIsFound' /\ AloneIsAlone' /\ EnabledForGood'
    BY <1>3, <1>5, Constants DEF IInv, Noted, KeptIsFound, AloneIsAlone, EnabledForGood, Evaluated
<1>9. refresh[t].enabled => cacheEnabled
    BY <1>1 DEF IInv, Noted
<1>10. ShownIsNoted' /\ NotBackInVoting'
    BY <1>3, <1>4, <1>9 DEF IInv, ShownIsNoted, NotBackInVoting, InVoting
<1>11. NothingIsDropped'
    <2>1. kept[t].enabled => refresh[t].enabled
        BY <1>1 DEF IInv, KeptIsFound, Evaluated
    <2>2. kept[t].voted => refresh[t].voting
        BY <1>1 DEF IInv, KeptIsFound
    <2>3. kept[t].alone /\ cacheEnabled => refresh[t].enabled
        BY <1>1 DEF IInv, EnabledForGood, Evaluated
    <2>. QED BY <1>3, <1>4, <2>1, <2>2, <2>3 DEF NothingIsDropped, InVoting
<1>. QED BY <1>7, <1>8, <1>10, <1>11 DEF IInv

LEMMA RefreshFailsKeeps ==
    ASSUME IInv, NEW t \in Refresh, RefreshFails(t)
    PROVE  IInv'
BY EndsKeeps DEF RefreshFails

LEMMA EnableKeeps ==
    ASSUME IInv, Enable
    PROVE  IInv'
<1>1. /\ table' \in [enabled : BOOLEAN, voted : BOOLEAN]
      /\ table'.enabled /\ table'.voted = table.voted
    BY DEF IInv, TypeOK, Enable
<1>2. UNCHANGED <<reachable, processVars, historyVars>>
    BY DEF Enable
<1>3. TypeOK'
    BY <1>1, <1>2 DEF IInv, TypeOK, processVars, historyVars
<1>4. Noted' /\ KeptIsFound' /\ AloneIsAlone' /\ EnabledForGood'
    BY <1>1, <1>2
    DEF IInv, Noted, KeptIsFound, AloneIsAlone, EnabledForGood, processVars, historyVars
<1>5. ShownIsNoted' /\ NotBackInVoting' /\ NothingIsDropped'
    BY <1>2 DEF IInv, ShownIsNoted, NotBackInVoting, NothingIsDropped, processVars, historyVars
<1>. QED BY <1>3, <1>4, <1>5 DEF IInv

LEMMA ChangeBallotsKeeps ==
    ASSUME IInv, ChangeBallots
    PROVE  IInv'
<1>1. table' \in [enabled : BOOLEAN, voted : BOOLEAN] /\ table'.enabled = table.enabled
    BY DEF IInv, TypeOK, ChangeBallots
<1>2. \A t \in Refresh :
          /\ kept'[t] \in Kept /\ ~kept'[t].voted
          /\ kept'[t].enabled = kept[t].enabled /\ kept'[t].alone = kept[t].alone
    BY DEF IInv, TypeOK, Kept, ChangeBallots
<1>3. kept' \in [Refresh -> Kept]
    <2>1. kept' = [t \in Refresh |-> kept'[t]]
        BY DEF ChangeBallots
    <2>. QED BY <1>2, <2>1
<1>4. UNCHANGED <<reachable, processVars, owed, shown>>
    BY DEF ChangeBallots
<1>5. TypeOK'
    BY <1>1, <1>3, <1>4 DEF IInv, TypeOK, processVars
<1>6. Noted' /\ KeptIsFound' /\ AloneIsAlone' /\ EnabledForGood'
    BY <1>1, <1>2, <1>4
    DEF IInv, Noted, KeptIsFound, AloneIsAlone, EnabledForGood, processVars
<1>7. ShownIsNoted' /\ NotBackInVoting' /\ NothingIsDropped'
    BY <1>4 DEF IInv, ShownIsNoted, NotBackInVoting, NothingIsDropped, processVars
<1>. QED BY <1>5, <1>6, <1>7 DEF IInv

LEMMA OtherKeeps ==
    ASSUME IInv, Expire \/ Restart \/ Outage
    PROVE  IInv'
<1>1. UNCHANGED <<table, cacheVote, cacheEnabled, refresh, historyVars>>
    BY DEF Expire, Restart, Outage, processVars, historyVars
<1>2. /\ running' \in BOOLEAN /\ fresh' \in BOOLEAN /\ reachable' \in BOOLEAN
      /\ request' \in [Everyone -> {"idle", "networks"} \cup Asked]
    <2>1. /\ running \in BOOLEAN /\ fresh \in BOOLEAN /\ reachable \in BOOLEAN
          /\ request \in [Everyone -> {"idle", "networks"} \cup Asked]
        BY DEF IInv, TypeOK, Everyone
    <2>2. CASE Expire
        BY <2>1, <2>2 DEF Expire, historyVars
    <2>3. CASE Restart
        BY <2>1, <2>3 DEF Restart, historyVars, Everyone
    <2>4. CASE Outage
        BY <2>1, <2>4 DEF Outage, processVars, historyVars
    <2>. QED BY <2>2, <2>3, <2>4
<1>3. TypeOK'
    BY <1>1, <1>2 DEF IInv, TypeOK, historyVars, Everyone
<1>. QED BY <1>1, <1>3, RestKeeps

LEMMA StepKeeps == IInv /\ [Next]_vars => IInv'
<1>1. SUFFICES ASSUME IInv, [Next]_vars PROVE IInv'
    OBVIOUS
<1>2. CASE \E r \in Request, asked \in Asked : Arrive(r, asked)
    BY <1>1, <1>2, ArriveKeeps
<1>3. CASE \E r \in Everyone, t \in Refresh : AnswerNetworks(r, t)
    BY <1>1, <1>3, AnswerNetworksKeeps
<1>4. CASE \E r \in Everyone : NetworksFail(r)
    BY <1>1, <1>4, NetworksFailKeeps
<1>5. CASE \E t \in Refresh : Steps(t) \/ RefreshFails(t)
    BY <1>1, <1>5, EvaluateEnabledKeeps, getEnabledAmendmentsKeeps, EvaluateVotingKeeps,
       getVotingAmendmentsKeeps, RefreshFailsKeeps DEF Steps
<1>6. CASE Expire \/ Restart \/ Outage
    BY <1>1, <1>6, OtherKeeps
<1>7. CASE Enable \/ ChangeBallots
    BY <1>1, <1>7, EnableKeeps, ChangeBallotsKeeps
<1>8. CASE UNCHANGED vars
    <2>1. TypeOK' /\ UNCHANGED <<table, cacheVote, cacheEnabled, refresh, historyVars>>
        BY <1>1, <1>8 DEF vars, processVars, historyVars, IInv, TypeOK
    <2>. QED BY <1>1, <2>1, RestKeeps
<1>. QED BY <1>1, <1>2, <1>3, <1>4, <1>5, <1>6, <1>7, <1>8 DEF Next, Everyone

LEMMA Invariant == Spec => []IInv
BY InitIInv, StepKeeps, PTL DEF Spec

-----------------------------------------------------------------------------
(* The theorems. *)

(* cacheAmendmentsVote - the variables of the cache have their types, and  *)
(* what it shows as enabled is in cacheEnabled, in every state, the ends   *)
(* and restarts of the process included.                                   *)
THEOREM TypeCorrect == Spec => []TypeOK
<1>1. IInv => TypeOK
    BY DEF IInv
<1>. QED BY <1>1, Invariant, PTL

(* getVotingAmendments - an amendment that was shown as enabled does not   *)
(* come back to those in voting, however many refreshes overlap.           *)
THEOREM ShownStaysOut == Spec => []NotBackInVoting
<1>1. IInv => NotBackInVoting
    BY DEF IInv
<1>. QED BY <1>1, Invariant, PTL

(* getEnabledAmendments and getVotingAmendments - what held all the time a *)
(* refresh took is in the lists it stored, but for overlapping refreshes.  *)
THEOREM NoneIsDropped == Spec => []NothingIsDropped
<1>1. IInv => NothingIsDropped
    BY DEF IInv
<1>. QED BY <1>1, Invariant, PTL
=============================================================================
