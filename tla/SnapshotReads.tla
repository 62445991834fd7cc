---------------------------- MODULE SnapshotReads ----------------------------
(***************************************************************************)
(* What a cached list of the API promises, without the cache: whoever asks *)
(* for the list is told what the table said at one moment of the last few  *)
(* ticks, and anything older only in the wake of a failed query.           *)
(***************************************************************************)
EXTENDS Naturals

CONSTANTS
    Key,        \* rows of the table
    Grace       \* ticks for which a failed query excuses an older answer

VARIABLES
    listing,    \* the rows the table lists now
    limit,      \* ticks an answer may lag behind
    recent,     \* <<age, listing>> for every listing of the last limit ticks
    outage,     \* ticks since a query failed, up to Grace + 1
    told        \* the answer given in the last step, if it was one

vars == <<listing, limit, recent, outage, told>>

Listing == SUBSET Key

(* Every listing of the last limit ticks, a tick later.                    *)
Aged(history, l) == {<<p[1] + 1, p[2]>> : p \in {q \in history : q[1] < limit}} \cup {<<0, l>>}

Init ==
    /\ listing \in Listing
    /\ limit \in Nat
    /\ recent = {<<0, {}>>, <<0, listing>>}
    /\ outage = Grace + 1
    /\ told = {}

Change ==
    /\ listing' \in Listing
    /\ recent' = recent \cup {<<0, listing'>>}
    /\ told' = {}
    /\ UNCHANGED <<limit, outage>>

Tick ==
    /\ recent' = Aged(recent, listing)
    /\ outage' = IF outage > Grace THEN outage ELSE outage + 1
    /\ told' = {}
    /\ UNCHANGED <<listing, limit>>

Fail ==
    /\ outage' = 0
    /\ told' = {}
    /\ UNCHANGED <<listing, limit, recent>>

Wait ==
    /\ told' = {}
    /\ UNCHANGED <<listing, limit, recent, outage>>

Read ==
    /\ \E p \in recent : told' = {p[2]}
    /\ UNCHANGED <<listing, limit, recent, outage>>

(* A query that fails may be the very one an answer waited for. *)
ReadInOutage ==
    /\ outage' \in {0, outage}
    /\ outage' <= Grace
    /\ \E rows \in Listing : told' = {rows}
    /\ UNCHANGED <<listing, limit, recent>>

Next == Change \/ Tick \/ Fail \/ Wait \/ Read \/ ReadInOutage

Spec == Init /\ [][Next]_vars
=============================================================================
