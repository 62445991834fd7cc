------------------------------ MODULE Amendments ------------------------------
(***************************************************************************)
(* The row of amendments_status of one amendment on one network: the       *)
(* EnableAmendment transactions found by the ledger stream and by the      *)
(* periodic backtrack, and the Amendments ledger entry, all of             *)
(* src/src/connection-manager/wsHandling.ts, with the queries of           *)
(* src/src/shared/database/{index,amendments}.ts.  Rows of other           *)
(* amendments and networks have nothing in common with this one.           *)
(*                                                                         *)
(* EnableAmendment transactions are in flag+1 ledgers only (every 256th).  *)
(* Time is counted in ledgers that close; flag and pos are the quotient    *)
(* and the remainder of the validated ledger's index, so that a flag+1     *)
(* ledger is one with pos = 1, and is named by its flag.                   *)
(*                                                                         *)
(* What a node answers depends on the version of its API.  The stream and  *)
(* the ledger entry ask for version 1, the backtrack for none, which makes *)
(* it version 2: it goes through its ledgers and finds no transaction.     *)
(***************************************************************************)
EXTENDS Integers, Sequences, FiniteSetsExt

CONSTANTS
    F,              \* ledgers from one flag ledger to the next: 256
    Interval,       \* BACKTRACK_INTERVAL, in ledgers
    Duration,       \* how long a backtrack of the network takes, in ledgers
    MajorityFlags,  \* AMENDMENT_MAJORITY_TIME, in flag ledgers
    NoRow,          \* the row does not exist
    MaxFlag,        \* bound on the flag ledgers
    MaxChanges      \* bound on the EnableAmendment transactions

ASSUME AmendmentsAssumption ==
    /\ {F, Interval, Duration, MajorityFlags, MaxFlag, MaxChanges} \subseteq Nat
    /\ F > 1 /\ Duration < F /\ Interval <= 3 * F
    /\ MajorityFlags > 4 /\ MaxFlag > 0
    /\ NoRow \notin [eta : Nat, date : Nat]

VARIABLES
    flag, pos,      \* the validated ledger
    events,         \* the transaction in each flag+1 ledger so far
    row,            \* of amendments_status
    lastSeen,       \* enableAmendmentLedgerIndexMap, as a flag; 0 for none
    processing,     \* flag+1 ledgers that the stream fetches
    toVisit,        \* flag+1 ledgers the backtrack has yet to fetch
    sinceStart,     \* ledgers since the backtrack started
    sinceChange,    \* history: ledgers since the last transaction, capped
    failed,         \* history: whether a backtrack was cut short
    captured        \* history: whether the stream has handled the last change

ledgerVars == <<flag, pos, events, sinceChange>>
backtrackVars == <<toVisit, sinceStart, failed>>
streamVars == <<lastSeen, processing>>
vars == <<ledgerVars, backtrackVars, streamVars, row, captured>>

-----------------------------------------------------------------------------
(* Data.  The columns eta and date of the row are the flags whose          *)
(* transactions they were taken from, 0 for null; ledger_index and tx_hash *)
(* are written with date.                                                  *)

Transaction == {"got", "lost", "enabled"}
Row == [eta : 0..MaxFlag, date : 0..MaxFlag]

EventOf(k) == IF k \in DOMAIN events THEN events[k] ELSE "none"
Changes == {k \in DOMAIN events : events[k] # "none"}
LastChange == IF Changes = {} THEN 0 ELSE Max(Changes)
EnabledByLedger == \E k \in Changes : events[k] = "enabled"

(* The newest flag+1 ledger.  A network knows of this many of them. *)
newest == Len(events)

(* What the network can do next: the majority, got at the last change, is  *)
(* lost, or the amendment is enabled once it was held long enough.         *)
Possible ==
    {"none"} \cup
    CASE EventOf(LastChange) = "got" ->
            {"lost"} \cup {e \in {"enabled"} : newest + 1 - LastChange >= MajorityFlags}
      [] EventOf(LastChange) \in {"none", "lost"} -> {"got"}
      [] OTHER -> {}

-----------------------------------------------------------------------------
(* handleWsMessageLedgerEnableAmendments: the transaction of flag k is     *)
(* written.  An insert that conflicts sets the columns it was given.       *)

RIPPLED_API_V1 == 1

(* The version of a client of xrpl that sets none. *)
DefaultVersion == 2

(* The handler reads the fields of a transaction where version 1 has them; *)
(* version 2 has them in tx_json.                                          *)
EnableAmendmentIn(k, version) ==
    IF version = RIPPLED_API_V1 THEN EventOf(k) ELSE "none"

(* Mutants: an enabling sets an eta; a conflict leaves the row as it is;   *)
(* an amendment that lost its majority only loses its eta.                 *)
SavedWithEta(k) == [eta |-> k, date |-> k]
SavedEnabled(k) == [eta |-> 0, date |-> k]
SavedIfNew(k) == IF row = NoRow THEN [eta |-> k, date |-> 0] ELSE row
SavedGot(k) == [eta |-> k, date |-> IF row = NoRow THEN 0 ELSE row.date]
ClearedEta == IF row = NoRow THEN NoRow ELSE [row EXCEPT !.eta = 0]
DeletedAmendmentStatus == NoRow

Handled(k, version) ==
    CASE EnableAmendmentIn(k, version) = "enabled" -> SavedEnabled(k)
      [] EnableAmendmentIn(k, version) = "got" -> SavedGot(k)
      [] EnableAmendmentIn(k, version) = "lost" -> DeletedAmendmentStatus
      [] OTHER -> row

-----------------------------------------------------------------------------
(* The stream. *)

(* A node streams the newest flag+1 ledger; another one may have done so   *)
(* before.  Nodes are never a flag behind (see CloseLedger).               *)
StreamLedger ==
    /\ newest > lastSeen
    /\ lastSeen' = newest
    /\ processing' = processing \cup {newest}
    /\ UNCHANGED <<ledgerVars, backtrackVars, row, captured>>

ProcessEnableAmendment(k) ==
    /\ k \in processing
    /\ row' = Handled(k, RIPPLED_API_V1)
    /\ processing' = processing \ {k}
    /\ captured' = (captured \/ k = LastChange)
    /\ UNCHANGED <<ledgerVars, backtrackVars, lastSeen>>

(* It cannot be fetched, or the query fails: it is not tried again. *)
ProcessFails(k) ==
    /\ k \in processing
    /\ processing' = processing \ {k}
    /\ UNCHANGED <<ledgerVars, backtrackVars, lastSeen, row, captured>>

-----------------------------------------------------------------------------
(* backtrackNetworkAmendmentStatus. *)

fourFlagPlusOneLedgers == (flag - 3)..flag

(* The flag+1 ledgers of the window that come before the current ledger.   *)
(* Mutant: the window with the one to come, or that has just come.         *)
WholeWindow == fourFlagPlusOneLedgers
Visited == {k \in fourFlagPlusOneLedgers : k < flag \/ pos > 1}

(* Interval is a time, and ledgers close slower or faster: at most so many *)
(* ledgers close before the next backtrack.  A flag+1 ledger comes in      *)
(* every 10 to 15 minutes (wsHandling.ts:338), three in Interval.          *)
StartBacktrack ==
    /\ toVisit = {}
    /\ toVisit' = Visited
    /\ sinceStart' = 0
    /\ UNCHANGED <<ledgerVars, streamVars, failed, row, captured>>

IsNext(k) == k \in toVisit /\ \A j \in toVisit : k <= j

BacktrackLedger(k) ==
    /\ IsNext(k)
    /\ row' = Handled(k, DefaultVersion)
    /\ toVisit' = toVisit \ {k}
    /\ UNCHANGED <<ledgerVars, streamVars, sinceStart, failed, captured>>

(* A request throws: the rest of the window is not visited.                *)
BacktrackFails(k) ==
    /\ IsNext(k)
    /\ toVisit' = {}
    /\ failed' = TRUE
    /\ UNCHANGED <<ledgerVars, streamVars, sinceStart, row, captured>>

-----------------------------------------------------------------------------
(* getAmendmentsFromLedgerEntry, every hour: a row is made for an enabled  *)
(* amendment that has none; a row that exists does not change.             *)
SaveAmendmentsStatus ==
    /\ EnabledByLedger
    /\ row = NoRow
    /\ row' = [eta |-> 0, date |-> 0]
    /\ UNCHANGED <<ledgerVars, backtrackVars, streamVars, captured>>

(* The process ends and starts again, with a backtrack. *)
Restart ==
    /\ lastSeen' = 0
    /\ processing' = {}
    /\ toVisit' = Visited
    /\ sinceStart' = 0
    /\ failed' = (failed \/ toVisit # {})
    /\ UNCHANGED <<ledgerVars, row, captured>>

-----------------------------------------------------------------------------
(* The network. *)

(* After so many ledgers no backtrack has a transaction in its window.     *)
Late == 4 * F + Duration

(* The next ledger closes.  It does not before a backtrack is started that *)
(* is due, nor before one has ended that takes Duration.  Stream and fetch *)
(* of a flag+1 ledger take less than the quarter of an hour to the next.   *)
CloseLedger(e) ==
    LET flagPlusOne == pos = 0 IN
    /\ sinceStart < Interval
    /\ toVisit # {} => sinceStart < Duration
    /\ flagPlusOne => processing = {}
    /\ IF flagPlusOne THEN e \in Possible ELSE e = "none"
    /\ e # "none" => Cardinality(Changes) < MaxChanges
    /\ pos = F - 1 => flag < MaxFlag
    /\ pos' = IF pos = F - 1 THEN 0 ELSE pos + 1
    /\ flag' = IF pos = F - 1 THEN flag + 1 ELSE flag
    /\ events' = IF flagPlusOne THEN Append(events, e) ELSE events
    /\ sinceChange' = IF e # "none" THEN 0
                      ELSE IF sinceChange < Late THEN sinceChange + 1 ELSE Late
    /\ sinceStart' = sinceStart + 1
    /\ captured' = (captured /\ e = "none")
    /\ UNCHANGED <<toVisit, failed, lastSeen, processing, row>>

(* The service starts before the first flag+1 ledger, with a backtrack. *)
Init ==
    /\ flag = 1 /\ pos = 0
    /\ events = <<>>
    /\ row = NoRow
    /\ lastSeen = 0
    /\ processing = {}
    /\ toVisit = Visited
    /\ sinceStart = 0
    /\ sinceChange = Late
    /\ failed = FALSE
    /\ captured = TRUE

Next ==
    \/ StreamLedger
    \/ \E k \in processing : ProcessEnableAmendment(k) \/ ProcessFails(k)
    \/ StartBacktrack
    \/ \E k \in toVisit : BacktrackLedger(k) \/ BacktrackFails(k)
    \/ SaveAmendmentsStatus
    \/ Restart
    \/ \E e \in Transaction \cup {"none"} : CloseLedger(e)

Spec == Init /\ [][Next]_vars

-----------------------------------------------------------------------------
(* Properties. *)

(* The types of the variables; the stream and the backtrack fetch only     *)
(* ledgers that have closed, of the last hour.                             *)
TypeOK ==
    /\ flag \in 1..MaxFlag /\ pos \in 0..(F - 1)
    /\ events \in Seq(Transaction \cup {"none"})
    /\ newest = IF pos = 0 THEN flag - 1 ELSE flag
    /\ row \in Row \cup {NoRow}
    /\ lastSeen \in 0..newest
    /\ processing \subseteq {newest} /\ 0 \notin processing
    /\ toVisit \subseteq (flag - 4)..newest
    /\ sinceStart \in 0..Interval
    /\ sinceChange \in 0..Late
    /\ failed \in BOOLEAN
    /\ captured \in BOOLEAN

(* getEnabledAmendments: the API shows the amendment as enabled. *)
ShownEnabled == row # NoRow /\ row.eta = 0

(* What the row must be according to the ledger. *)
RightRow ==
    CASE EventOf(LastChange) = "got" -> [eta |-> LastChange, date |-> 0]
      [] EventOf(LastChange) = "enabled" -> [eta |-> 0, date |-> LastChange]
      [] OTHER -> NoRow

(* An amendment is shown as enabled only if the ledger enabled it, however *)
(* majorities come and go, are missed or are handled again: rows without   *)
(* an eta are those of getEnabledAmendments.                               *)
ShownEnabledIsEnabled == ShownEnabled => EnabledByLedger

(* An amendment shown as enabled stays so, in whatever order the stream,   *)
(* the hourly ledger entry and a process that starts again write its row.  *)
EnabledStays == [][ShownEnabled => ShownEnabled']_vars

(* Once the stream has handled the ledger of the last change the row says  *)
(* what the ledger says, whatever it missed before: a loss that was not    *)
(* seen leaves nothing behind, and neither handling a ledger again nor the *)
(* ledger entry undoes it.                                                 *)
CapturedByStream == captured => row = RightRow

(* wsHandling.ts:373 - "Backtrack amendment status periodically to ensure  *)
(* changes are captured."  Whatever the stream delivers, the row says what *)
(* the ledger says once the last change has left the window of every       *)
(* backtrack, and none was cut short.                                      *)
CapturedByBacktrack == ~failed /\ sinceChange = Late => row = RightRow
=============================================================================
