-------------------------- MODULE AmendmentsProofs --------------------------
(***************************************************************************)
(* What holds of an amendment's row for any distance of flag ledgers, any  *)
(* time to majority of more than four of them, and any number of changes.  *)
(***************************************************************************)
EXTENDS Amendments, WellFoundedInduction, TLAPS

(* A nonempty set of naturals that are not above a bound has a maximum.    *)
LEMMA BoundedMax ==
    ASSUME NEW n \in Nat, NEW S \in SUBSET (0..n), S # {}
    PROVE  Max(S) \in S /\ \A k \in S : k <= Max(S)
<1>. DEFINE Less == {p \in Nat \X Nat : p[1] < p[2]}
            Room == {n - k : k \in S}
<1>1. IsWellFoundedOn(Less, Nat)
    BY NatLessThanWellFounded DEF OpToRel
<1>2. Room \in SUBSET Nat /\ Room # {}
  <2>1. \A k \in S : n - k \in Nat
      OBVIOUS
  <2>. QED BY <2>1
<1>3. PICK m \in Room : \A r \in Room : ~(<<r, m>> \in Less)
    BY <1>1, <1>2, WFMin, Zenon
<1>4. PICK top \in S : m = n - top
    OBVIOUS
<1>5. ASSUME NEW k \in S PROVE top >= k
  <2>1. n - k \in Room /\ n - k \in Nat /\ m \in Nat
      BY <1>2
  <2>2. ~(n - k < m)
      BY <1>3, <2>1
  <2>. QED BY <1>4, <2>2
<1>. QED BY <1>4, <1>5 DEF Max

-----------------------------------------------------------------------------
(* Type correctness.  A backtrack that is not over has started with this   *)
(* flag or with the one before, for it takes less than F ledgers.          *)

RecentWindow ==
    toVisit # {} =>
        /\ sinceStart <= Duration
        /\ \/ \A k \in toVisit : k >= flag - 3
           \/ sinceStart > pos /\ \A k \in toVisit : k >= flag - 4

Typed == TypeOK /\ RecentWindow

(* The assumption, constant by constant.                                   *)
LEMMA Constants ==
    /\ F \in Nat /\ Interval \in Nat /\ Duration \in Nat /\ MajorityFlags \in Nat
    /\ MaxFlag \in Nat /\ MaxFlag > 0
    /\ F > 1 /\ Duration < F /\ MajorityFlags > 4
    /\ Late \in Nat
BY AmendmentsAssumption DEF Late

LEMMA InitTyped == Init => Typed
<1>. SUFFICES ASSUME Init PROVE Typed
    OBVIOUS
<1>1. newest = 0 /\ events \in Seq(Transaction \cup {"none"})
    BY DEF Init, newest
<1>2. Visited \subseteq (-2)..0
    BY DEF Init, Visited, fourFlagPlusOneLedgers
<1>3. TypeOK
  <2>1. toVisit \subseteq (flag - 4)..newest
      BY <1>1, <1>2 DEF Init
  <2>2. flag \in 1..MaxFlag /\ pos \in 0..(F - 1) /\ sinceStart \in 0..Interval
      BY Constants DEF Init
  <2>3. sinceChange \in 0..Late
      BY Constants DEF Init
  <2>4. /\ newest = (IF pos = 0 THEN flag - 1 ELSE flag) /\ lastSeen \in 0..newest
        /\ processing \subseteq {newest} /\ 0 \notin processing
        /\ row \in Row \cup {NoRow}
      BY <1>1 DEF Init
  <2>5. failed \in BOOLEAN /\ captured \in BOOLEAN
      BY Zenon DEF Init
  <2>. QED BY <1>1, <2>1, <2>2, <2>3, <2>4, <2>5, Zenon DEF TypeOK
<1>4. RecentWindow
    BY <1>2, Constants DEF Init, RecentWindow
<1>. QED BY <1>3, <1>4 DEF Typed

(* The flag+1 ledgers are numbered, the newest is of this flag or the last. *)
LEMMA Numbered ==
    ASSUME TypeOK
    PROVE  /\ newest \in Nat /\ newest <= MaxFlag /\ DOMAIN events = 1..newest
           /\ flag \in Nat /\ pos \in Nat /\ flag - 1 <= newest /\ newest <= flag
<1>1. newest \in Nat /\ DOMAIN events = 1..newest
    BY DEF TypeOK, newest
<1>2. flag \in 1..MaxFlag /\ pos \in 0..(F - 1) /\ newest = IF pos = 0 THEN flag - 1 ELSE flag
    BY DEF TypeOK
<1>. QED BY <1>1, <1>2, Constants

(* What a handler reads, in any version, is what happened or nothing.      *)
LEMMA WhatIsRead ==
    ASSUME NEW k, NEW version
    PROVE  EnableAmendmentIn(k, version) \in {EventOf(k), "none"}
BY DEF EnableAmendmentIn

(* What is written has the type of a row.                                  *)
LEMMA HandledTyped ==
    ASSUME TypeOK, NEW k \in Int, NEW version
    PROVE  Handled(k, version) \in Row \cup {NoRow}
<1>1. row \in Row \cup {NoRow}
    BY DEF TypeOK
<1>2. CASE k \in 1..newest
  <2>1. k \in 0..MaxFlag /\ 0 \in 0..MaxFlag
      BY <1>2, Numbered, Constants
  <2>2. SavedEnabled(k) \in Row
      BY <2>1 DEF SavedEnabled, Row
  <2>3. SavedGot(k) \in Row
      BY <1>1, <2>1 DEF SavedGot, Row
  <2>. QED BY <1>1, <2>2, <2>3 DEF Handled, DeletedAmendmentStatus
<1>3. CASE k \notin 1..newest
  <2>1. EnableAmendmentIn(k, version) = "none"
      BY <1>3, Numbered DEF EnableAmendmentIn, EventOf
  <2>. QED BY <1>1, <2>1 DEF Handled
<1>. QED BY <1>2, <1>3

(* While no ledger closes, these are left to show.                         *)
LEMMA SameLedger ==
    ASSUME TypeOK, UNCHANGED ledgerVars,
           row' \in Row \cup {NoRow}, lastSeen' \in 0..newest,
           processing' \subseteq {newest}, 0 \notin processing',
           toVisit' \subseteq (flag - 4)..newest, sinceStart' \in 0..Interval,
           failed' \in BOOLEAN, captured' \in BOOLEAN
    PROVE  TypeOK'
BY DEF TypeOK, ledgerVars, newest, Late

(* A window that starts now is recent.                                     *)
LEMMA FreshWindow ==
    ASSUME TypeOK, UNCHANGED ledgerVars, toVisit' = Visited, sinceStart' = 0
    PROVE  /\ toVisit' \subseteq (flag - 4)..newest /\ sinceStart' \in 0..Interval
           /\ RecentWindow'
<1>1. \A k \in Visited : k \in Int /\ k >= flag - 3 /\ k <= newest
    BY Numbered DEF TypeOK, Visited, fourFlagPlusOneLedgers
<1>. QED BY <1>1, Numbered, Constants DEF RecentWindow, ledgerVars

(* A window of which a part is left is as recent as it was.                *)
LEMMA SameWindow ==
    ASSUME RecentWindow, UNCHANGED ledgerVars, toVisit' \subseteq toVisit,
           UNCHANGED sinceStart
    PROVE  RecentWindow'
BY DEF RecentWindow, ledgerVars

LEMMA CloseTyped ==
    ASSUME TypeOK, RecentWindow,
           NEW e \in Transaction \cup {"none"}, CloseLedger(e)
    PROVE  Typed'
<1>0. pos \in 0..(F - 1) /\ flag \in 1..MaxFlag
    BY DEF TypeOK
<1>1. flag' \in 1..MaxFlag /\ pos' \in 0..(F - 1)
    BY <1>0, Constants DEF CloseLedger
<1>2. /\ events' \in Seq(Transaction \cup {"none"})
      /\ newest' = IF pos = 0 THEN newest + 1 ELSE newest
    BY DEF CloseLedger, TypeOK, newest
<1>3. newest' = (IF pos' = 0 THEN flag' - 1 ELSE flag') /\ newest <= newest'
  <2>1. newest = IF pos = 0 THEN flag - 1 ELSE flag
      BY DEF TypeOK
  <2>. QED BY <1>0, <1>2, <2>1, Constants, Numbered DEF CloseLedger
<1>4. row' \in Row \cup {NoRow} /\ failed' \in BOOLEAN /\ captured' \in BOOLEAN
    BY Zenon DEF CloseLedger, TypeOK
<1>5. sinceStart' \in 0..Interval /\ sinceChange' \in 0..Late'
    BY Constants DEF CloseLedger, TypeOK, Late
<1>6. processing' \subseteq {newest'} /\ 0 \notin processing' /\ lastSeen' \in 0..newest'
    BY <1>2, <1>3, Numbered DEF CloseLedger, TypeOK
<1>7. RecentWindow'
  <2>. SUFFICES ASSUME toVisit # {}
       PROVE  /\ sinceStart' <= Duration
              /\ \/ \A k \in toVisit : k >= flag' - 3
                 \/ sinceStart' > pos' /\ \A k \in toVisit : k >= flag' - 4
      BY DEF CloseLedger, RecentWindow
  <2>1. /\ sinceStart \in Nat /\ sinceStart < Duration /\ sinceStart' = sinceStart + 1
        /\ \A k \in toVisit : k \in Int
      BY DEF CloseLedger, TypeOK
  <2>2. CASE pos = F - 1
    <3>1. pos' = 0 /\ flag' = flag + 1
        BY <2>2 DEF CloseLedger
    <3>2. ~(sinceStart > pos)
        BY <2>1, <2>2, Constants
    <3>. QED BY <1>0, <2>1, <3>1, <3>2, Constants DEF RecentWindow
  <2>3. CASE pos # F - 1
    <3>1. pos' = pos + 1 /\ flag' = flag
        BY <2>3 DEF CloseLedger
    <3>. QED BY <1>0, <2>1, <3>1, Constants DEF RecentWindow
  <2>. QED BY <2>2, <2>3
<1>8. toVisit' \subseteq (flag' - 4)..newest'
  <2>1. \A k \in toVisit : k \in Int /\ k <= newest
      BY Numbered DEF TypeOK
  <2>2. \A k \in toVisit' : k \in toVisit /\ k >= flag' - 4
      BY <1>0, <1>1, <1>7, <2>1 DEF CloseLedger, RecentWindow
  <2>. QED BY <1>1, <1>3, <2>1, <2>2, Numbered
<1>. QED BY <1>1, <1>2, <1>3, <1>4, <1>5, <1>6, <1>7, <1>8 DEF Typed, TypeOK

LEMMA NextTyped == Typed /\ [Next]_vars => Typed'
<1>. SUFFICES ASSUME TypeOK, RecentWindow, [Next]_vars PROVE Typed'
    BY DEF Typed
<1>0. /\ row \in Row \cup {NoRow} /\ lastSeen \in 0..newest
      /\ processing \subseteq {newest} /\ 0 \notin processing
      /\ toVisit \subseteq (flag - 4)..newest /\ sinceStart \in 0..Interval
      /\ failed \in BOOLEAN /\ captured \in BOOLEAN
    BY DEF TypeOK
<1>. USE DEF Typed
<1>1. CASE StreamLedger
  <2>1. lastSeen' \in 0..newest /\ processing' \subseteq {newest} /\ 0 \notin processing'
      BY <1>0, <1>1, Numbered DEF StreamLedger
  <2>. QED BY <1>0, <1>1, <2>1, SameLedger, SameWindow DEF StreamLedger, backtrackVars
<1>2. ASSUME NEW k \in processing, ProcessEnableAmendment(k) PROVE Typed'
  <2>1. row' \in Row \cup {NoRow}
      BY <1>0, <1>2, HandledTyped, Numbered DEF ProcessEnableAmendment
  <2>2. captured' \in BOOLEAN
      BY <1>0, <1>2, Zenon DEF ProcessEnableAmendment
  <2>. QED BY <1>0, <1>2, <2>1, <2>2, SameLedger, SameWindow DEF ProcessEnableAmendment, backtrackVars
<1>3. ASSUME NEW k \in processing, ProcessFails(k) PROVE Typed'
    BY <1>0, <1>3, SameLedger, SameWindow DEF ProcessFails, backtrackVars
<1>4. CASE StartBacktrack
    BY <1>0, <1>4, SameLedger, FreshWindow DEF StartBacktrack, streamVars
<1>5. ASSUME NEW k \in toVisit, BacktrackLedger(k) PROVE Typed'
  <2>1. row' \in Row \cup {NoRow}
      BY <1>0, <1>5, HandledTyped, Numbered DEF BacktrackLedger, IsNext
  <2>. QED BY <1>0, <1>5, <2>1, SameLedger, SameWindow DEF BacktrackLedger, IsNext, streamVars
<1>6. ASSUME NEW k \in toVisit, BacktrackFails(k) PROVE Typed'
    BY <1>0, <1>6, SameLedger, SameWindow DEF BacktrackFails, IsNext, streamVars
<1>7. CASE SaveAmendmentsStatus
  <2>1. row' \in Row \cup {NoRow}
      BY <1>7, Constants DEF SaveAmendmentsStatus, Row
  <2>. QED BY <1>0, <1>7, <2>1, SameLedger, SameWindow DEF SaveAmendmentsStatus, backtrackVars, streamVars
<1>8. CASE Restart
  <2>1. lastSeen' \in 0..newest /\ processing' \subseteq {newest} /\ 0 \notin processing'
      BY <1>8, Numbered DEF Restart
  <2>. QED BY <1>0, <1>8, <2>1, SameLedger, FreshWindow DEF Restart
<1>9. CASE UNCHANGED vars
    BY <1>0, <1>9, SameLedger, SameWindow DEF vars, backtrackVars, streamVars
<1>. QED BY <1>1, <1>2, <1>3, <1>4, <1>5, <1>6, <1>7, <1>8, <1>9, CloseTyped DEF Next

(* The variables have their types, and nothing is fetched that has not     *)
(* closed or that is older than four flag ledgers, in every reachable      *)
(* state of handlers and backtracks.                                       *)
THEOREM TypeCorrect == Spec => []TypeOK
<1>1. Typed => TypeOK
    BY DEF Typed
<1>. QED BY InitTyped, NextTyped, <1>1, PTL DEF Spec
-----------------------------------------------------------------------------
(* An amendment that is shown as enabled.                                  *)

(* A majority is held for MajorityFlags before it enables the amendment,   *)
(* and nothing happens afterwards.                                         *)
EnabledLast ==
    \A k \in Changes : events[k] = "enabled" =>
        \A j \in Changes : j = k \/ j <= k - MajorityFlags

(* The last change is one, and no other comes after it.                    *)
LEMMA LastIsLast ==
    ASSUME TypeOK
    PROVE  \/ Changes = {} /\ LastChange = 0
           \/ LastChange \in Changes /\ \A k \in Changes : k <= LastChange
<1>1. Changes \in SUBSET (0..newest) /\ newest \in Nat
    BY Numbered DEF Changes
<1>2. Changes # {} => Max(Changes) \in Changes /\ \A k \in Changes : k <= Max(Changes)
    BY <1>1, BoundedMax
<1>. QED BY <1>2 DEF LastChange

(* A closed ledger changes no transaction of an earlier one.               *)
LEMMA CloseAppends ==
    ASSUME TypeOK, NEW e \in Transaction \cup {"none"}, CloseLedger(e)
    PROVE  \/ UNCHANGED events
           \/ /\ DOMAIN events' = 1..(newest + 1) /\ DOMAIN events = 1..newest
              /\ events'[newest + 1] = e /\ e \in Possible
              /\ \A k \in 1..newest : events'[k] = events[k]
BY Numbered DEF CloseLedger, TypeOK, newest

(* EnabledLast follows from what the network can do next.                  *)
LEMMA CloseKeepsLast ==
    ASSUME TypeOK, EnabledLast, NEW e \in Transaction \cup {"none"}, CloseLedger(e)
    PROVE  EnabledLast'
<1>1. CASE UNCHANGED events
    BY <1>1 DEF EnabledLast, Changes
<1>2. CASE /\ DOMAIN events' = 1..(newest + 1) /\ DOMAIN events = 1..newest
           /\ events'[newest + 1] = e /\ e \in Possible
           /\ \A k \in 1..newest : events'[k] = events[k]
  <2>. SUFFICES ASSUME NEW k \in Changes', events'[k] = "enabled",
                       NEW j \in Changes', j # k
                PROVE  j <= k - MajorityFlags
      BY DEF EnabledLast
  <2>0. newest \in Nat /\ MajorityFlags \in Nat
      BY Numbered, Constants
  <2>1. \A i \in Changes' : i \in Changes \/ (i = newest + 1 /\ e # "none")
      BY <1>2, <2>0 DEF Changes
  <2>2. \A i \in Changes : i \in 1..newest /\ events[i] = EventOf(i) /\ events'[i] = events[i]
      BY <1>2 DEF Changes, EventOf
  <2>3. CASE k \in Changes /\ j \in Changes
      BY <2>2, <2>3 DEF EnabledLast
  <2>4. CASE k \in Changes /\ j = newest + 1 /\ e # "none"
    <3>1. LastChange \in Changes /\ k <= LastChange
        BY <2>4, LastIsLast
    <3>2. LastChange = k
        BY <2>0, <2>2, <2>4, <3>1 DEF EnabledLast
    <3>3. EventOf(LastChange) = "enabled"
        BY <2>2, <2>4, <3>2
    <3>. QED BY <1>2, <2>4, <3>3 DEF Possible
  <2>5. CASE k = newest + 1 /\ j \in Changes
    <3>1. LastChange \in Changes /\ j <= LastChange
        BY <2>5, LastIsLast
    <3>2. e = "enabled"
        BY <1>2, <2>5
    <3>3. newest + 1 - LastChange >= MajorityFlags
        BY <1>2, <3>2 DEF Possible
    <3>. QED BY <2>0, <2>2, <2>5, <3>1, <3>3
  <2>. QED BY <2>1, <2>3, <2>4, <2>5
<1>. QED BY <1>1, <1>2, CloseAppends

EnabledInv == Typed /\ EnabledLast /\ ShownEnabledIsEnabled

(* No ledger that is still fetched, by the stream or by a backtrack, is    *)
(* before the change that enabled the amendment: in any version, what is   *)
(* written leaves it enabled.                                              *)
LEMMA NothingOlderIsWritten ==
    ASSUME TypeOK, EnabledLast, ShownEnabledIsEnabled, ShownEnabled,
           NEW k \in processing \cup toVisit, NEW version
    PROVE  Handled(k, version) # NoRow /\ Handled(k, version).eta = 0
<1>1. PICK m \in Changes : events[m] = "enabled"
    BY DEF ShownEnabledIsEnabled, EnabledByLedger
<1>2. k \in Int /\ k >= flag - 4
    BY Numbered DEF TypeOK
<1>3. m \in 1..newest
    BY Numbered DEF Changes
<1>4. EventOf(k) \in {"none", "enabled"}
  <2>1. SUFFICES ASSUME k \in Changes PROVE EventOf(k) = "enabled"
      BY DEF EventOf, Changes
  <2>2. k = m \/ k <= m - MajorityFlags
      BY <1>1, <2>1 DEF EnabledLast
  <2>3. k = m
      BY <1>2, <1>3, <2>2, Numbered, Constants
  <2>. QED BY <1>1, <2>1, <2>3 DEF EventOf, Changes
<1>5. ASSUME EnableAmendmentIn(k, version) = "enabled"
      PROVE  Handled(k, version) = SavedEnabled(k) /\ SavedEnabled(k) # NoRow
  <2>1. k \in Nat
      BY <1>5, WhatIsRead, Numbered DEF EventOf
  <2>. QED BY <1>5, <2>1, AmendmentsAssumption DEF Handled, SavedEnabled
<1>6. SavedEnabled(k).eta = 0
    BY DEF SavedEnabled
<1>7. ASSUME EnableAmendmentIn(k, version) = "none" PROVE Handled(k, version) = row
    BY <1>7 DEF Handled
<1>. QED BY <1>4, <1>5, <1>6, <1>7, WhatIsRead DEF ShownEnabled

(* What is shown as enabled after a transaction was handled was enabled.   *)
LEMMA HandledIsTrue ==
    ASSUME TypeOK, ShownEnabledIsEnabled, NEW k \in Int, NEW version,
           UNCHANGED ledgerVars, row' = Handled(k, version)
    PROVE  ShownEnabledIsEnabled'
<1>. SUFFICES ASSUME row' # NoRow, row'.eta = 0 PROVE EnabledByLedger
    BY DEF ShownEnabledIsEnabled, ShownEnabled, EnabledByLedger, Changes, ledgerVars
<1>. DEFINE read == EnableAmendmentIn(k, version)
<1>0. read = EventOf(k) \/ read = "none"
    BY WhatIsRead
<1>1. CASE read = "enabled"
    BY <1>0, <1>1 DEF EventOf, EnabledByLedger, Changes
<1>2. CASE read = "got"
  <2>1. k \in 1..newest
      BY <1>0, <1>2, Numbered DEF EventOf
  <2>2. Handled(k, version) = SavedGot(k) /\ SavedGot(k).eta = k
      BY <1>2 DEF Handled, SavedGot
  <2>. QED BY <2>1, <2>2, Numbered
<1>3. CASE read = "lost"
    BY <1>3 DEF Handled, DeletedAmendmentStatus
<1>4. CASE read \notin {"enabled", "got", "lost"}
    BY <1>4 DEF Handled, ShownEnabledIsEnabled, ShownEnabled
<1>. QED BY <1>1, <1>2, <1>3, <1>4

LEMMA InitEnabled == Init => EnabledInv
<1>. SUFFICES ASSUME Init PROVE EnabledInv
    OBVIOUS
<1>1. Changes = {}
    BY DEF Init, Changes
<1>. QED BY <1>1, InitTyped DEF EnabledInv, EnabledLast, ShownEnabledIsEnabled, ShownEnabled, Init

LEMMA NextEnabled == EnabledInv /\ [Next]_vars => EnabledInv'
<1>. SUFFICES ASSUME Typed, TypeOK, EnabledLast, ShownEnabledIsEnabled, [Next]_vars
              PROVE  EnabledLast' /\ ShownEnabledIsEnabled'
    BY NextTyped DEF EnabledInv, Typed
<1>1. ASSUME UNCHANGED events PROVE EnabledLast'
    BY <1>1 DEF EnabledLast, Changes
<1>2. ASSUME UNCHANGED <<events, row>> PROVE ShownEnabledIsEnabled'
    BY <1>2 DEF ShownEnabledIsEnabled, ShownEnabled, EnabledByLedger, Changes
<1>3. CASE StreamLedger \/ StartBacktrack \/ Restart \/ UNCHANGED vars
    BY <1>1, <1>2, <1>3 DEF StreamLedger, StartBacktrack, Restart, vars, ledgerVars
<1>4. ASSUME NEW k \in processing, ProcessEnableAmendment(k)
      PROVE  EnabledLast' /\ ShownEnabledIsEnabled'
    BY <1>1, <1>4, HandledIsTrue, Numbered DEF ProcessEnableAmendment, ledgerVars, TypeOK
<1>5. ASSUME NEW k \in processing, ProcessFails(k)
      PROVE  EnabledLast' /\ ShownEnabledIsEnabled'
    BY <1>1, <1>2, <1>5 DEF ProcessFails, ledgerVars
<1>6. ASSUME NEW k \in toVisit, BacktrackLedger(k)
      PROVE  EnabledLast' /\ ShownEnabledIsEnabled'
    BY <1>1, <1>6, HandledIsTrue, Numbered DEF BacktrackLedger, IsNext, ledgerVars, TypeOK
<1>7. ASSUME NEW k \in toVisit, BacktrackFails(k)
      PROVE  EnabledLast' /\ ShownEnabledIsEnabled'
    BY <1>1, <1>2, <1>7 DEF BacktrackFails, ledgerVars
<1>8. CASE SaveAmendmentsStatus
    BY <1>1, <1>8 DEF SaveAmendmentsStatus, ledgerVars, ShownEnabledIsEnabled, EnabledByLedger, Changes
<1>9. ASSUME NEW e \in Transaction \cup {"none"}, CloseLedger(e)
      PROVE  EnabledLast' /\ ShownEnabledIsEnabled'
  <2>1. EnabledByLedger => EnabledByLedger'
    <3>1. CASE UNCHANGED events
        BY <3>1 DEF EnabledByLedger, Changes
    <3>2. CASE /\ DOMAIN events' = 1..(newest + 1) /\ DOMAIN events = 1..newest
               /\ \A k \in 1..newest : events'[k] = events[k]
        BY <3>2, Numbered DEF EnabledByLedger, Changes
    <3>. QED BY <1>9, <3>1, <3>2, CloseAppends
  <2>2. ShownEnabledIsEnabled'
      BY <1>9, <2>1 DEF CloseLedger, ShownEnabledIsEnabled, ShownEnabled
  <2>. QED BY <1>9, <2>2, CloseKeepsLast
<1>. QED BY <1>3, <1>4, <1>5, <1>6, <1>7, <1>8, <1>9 DEF Next

(* An amendment is shown as enabled only if the ledger has enabled it,     *)
(* whatever the stream, the backtracks and the restarts do in between.     *)
THEOREM OnlyEnabledIsShown == Spec => []ShownEnabledIsEnabled
<1>1. EnabledInv => ShownEnabledIsEnabled
    BY DEF EnabledInv
<1>. QED BY InitEnabled, NextEnabled, <1>1, PTL DEF Spec

(* An amendment that is shown as enabled stays so: nothing that may still  *)
(* be written is older than the change that enabled it, and what enabled   *)
(* it may be written again, over the row of the ledger entry too.          *)
THEOREM EnabledForGood == Spec => EnabledStays
<1>1. EnabledInv /\ [Next]_vars => [ShownEnabled => ShownEnabled']_vars
  <2>. SUFFICES ASSUME TypeOK, EnabledLast, ShownEnabledIsEnabled, ShownEnabled, Next
                PROVE  ShownEnabled'
      BY DEF EnabledInv, Typed
  <2>1. CASE StreamLedger \/ StartBacktrack \/ Restart
      BY <2>1 DEF StreamLedger, StartBacktrack, Restart, ShownEnabled
  <2>2. ASSUME NEW k \in processing, ProcessEnableAmendment(k) \/ ProcessFails(k) PROVE ShownEnabled'
      BY <2>2, NothingOlderIsWritten DEF ProcessEnableAmendment, ProcessFails, ShownEnabled
  <2>3. ASSUME NEW k \in toVisit, BacktrackLedger(k) \/ BacktrackFails(k) PROVE ShownEnabled'
      BY <2>3, NothingOlderIsWritten DEF BacktrackLedger, BacktrackFails, ShownEnabled
  <2>4. ASSUME NEW e \in Transaction \cup {"none"}, CloseLedger(e) PROVE ShownEnabled'
      BY <2>4 DEF CloseLedger, ShownEnabled
  <2>5. CASE SaveAmendmentsStatus
      BY <2>5 DEF SaveAmendmentsStatus, ShownEnabled
  <2>. QED BY <2>1, <2>2, <2>3, <2>4, <2>5 DEF Next
<1>. QED BY InitEnabled, NextEnabled, <1>1, PTL DEF Spec, EnabledStays
-----------------------------------------------------------------------------
(* The row after the last change.                                          *)

(* date is written by the transaction that enables, and by no other.       *)
DatesEnabled ==
    row # NoRow /\ row.date # 0 => row.date \in Changes /\ events[row.date] = "enabled"

CapturedInv == EnabledInv /\ DatesEnabled /\ CapturedByStream

(* The operators on events do not change while the events do not.          *)
LEMMA SameEvents ==
    ASSUME UNCHANGED events
    PROVE  /\ Changes' = Changes /\ LastChange' = LastChange /\ RightRow' = RightRow
           /\ \A k : EventOf(k)' = EventOf(k)
<1>1. Changes' = Changes
    BY DEF Changes
<1>2. LastChange' = LastChange
    BY <1>1 DEF LastChange
<1>. QED BY <1>1, <1>2 DEF EventOf, RightRow

(* The last change as a flag, and what is known of the flags after it.     *)
LEMMA LastIsChange ==
    ASSUME TypeOK, Changes # {}
    PROVE  /\ LastChange \in Changes /\ LastChange \in 1..newest
           /\ EventOf(LastChange) = events[LastChange]
           /\ \A k \in Int : k > LastChange => EventOf(k) = "none"
<1>1. LastChange \in Changes /\ \A k \in Changes : k <= LastChange
    BY LastIsLast
<1>2. LastChange \in 1..newest
    BY <1>1, Numbered DEF Changes
<1>3. ASSUME NEW k \in Int, k > LastChange PROVE EventOf(k) = "none"
  <2>1. k \notin Changes
      BY <1>1, <1>2, <1>3
  <2>. QED BY <2>1 DEF Changes, EventOf
<1>. QED BY <1>1, <1>2, <1>3 DEF EventOf, Changes

(* With an enabled amendment, that was the last change.                    *)
LEMMA EnabledIsLast ==
    ASSUME TypeOK, EnabledLast, NEW k \in Changes, events[k] = "enabled"
    PROVE  LastChange = k
<1>1. LastChange \in Changes /\ k <= LastChange
    BY LastIsLast
<1>2. k \in 1..newest /\ LastChange \in 1..newest
    BY <1>1, Numbered DEF Changes
<1>. QED BY <1>1, <1>2, Numbered, Constants DEF EnabledLast

(* The last change makes the row right, and what is after it keeps it so.  *)
LEMMA HandledRight ==
    ASSUME TypeOK, EnabledLast, DatesEnabled,
           NEW k \in 1..newest, k = LastChange \/ row = RightRow, k >= LastChange
    PROVE  Handled(k, RIPPLED_API_V1) = RightRow
<1>0. EnableAmendmentIn(k, RIPPLED_API_V1) = EventOf(k)
    BY DEF EnableAmendmentIn
<1>1. CASE EventOf(k) = "none"
  <2>1. k # LastChange
    <3>1. Changes = {} => LastChange = 0
        BY DEF LastChange
    <3>. QED BY <1>1, <3>1, LastIsChange DEF Changes
  <2>. QED BY <1>0, <1>1, <2>1 DEF Handled
<1>2. CASE EventOf(k) # "none"
  <2>1. k \in Changes /\ EventOf(k) \in Transaction
      BY <1>2, Numbered DEF EventOf, Changes, TypeOK
  <2>2. k = LastChange
    <3>1. LastChange \in 1..newest /\ ~(k > LastChange) /\ newest \in Nat
        BY <1>2, <2>1, LastIsChange, Numbered
    <3>. QED BY <3>1
  <2>3. CASE EventOf(k) = "enabled"
      BY <1>0, <2>2, <2>3 DEF Handled, RightRow, SavedEnabled
  <2>4. CASE EventOf(k) = "lost"
      BY <1>0, <2>2, <2>4 DEF Handled, RightRow, DeletedAmendmentStatus
  <2>5. CASE EventOf(k) = "got"
    <3>1. row = NoRow \/ row.date = 0
      <4>1. SUFFICES ASSUME row # NoRow, row.date # 0 PROVE FALSE
          OBVIOUS
      <4>2. row.date \in Changes /\ events[row.date] = "enabled"
          BY <4>1 DEF DatesEnabled
      <4>3. LastChange = row.date
          BY <4>2, EnabledIsLast
      <4>. QED BY <2>1, <2>2, <2>5, <4>2, <4>3, LastIsChange
    <3>2. SavedGot(k) = [eta |-> k, date |-> 0]
        BY <3>1 DEF SavedGot
    <3>. QED BY <1>0, <2>2, <2>5, <3>2 DEF Handled, RightRow
  <2>. QED BY <2>1, <2>3, <2>4, <2>5 DEF Transaction
<1>. QED BY <1>1, <1>2

(* A handled transaction keeps the other fact about the row.               *)
LEMMA HandledDates ==
    ASSUME DatesEnabled, NEW k, NEW version,
           UNCHANGED ledgerVars, row' = Handled(k, version)
    PROVE  DatesEnabled'
<1>. DEFINE read == EnableAmendmentIn(k, version)
<1>0. UNCHANGED events /\ Changes' = Changes
    BY DEF ledgerVars, Changes
<1>1. CASE read = "enabled"
  <2>1. k \in Changes /\ events[k] = "enabled"
      BY <1>1, WhatIsRead DEF EventOf, Changes
  <2>2. row' = [eta |-> 0, date |-> k]
      BY <1>1 DEF Handled, SavedEnabled
  <2>. QED BY <1>0, <2>1, <2>2 DEF DatesEnabled
<1>2. CASE read = "got"
  <2>1. row' = [eta |-> k, date |-> IF row = NoRow THEN 0 ELSE row.date]
      BY <1>2 DEF Handled, SavedGot
  <2>. QED BY <1>0, <2>1 DEF DatesEnabled
<1>3. CASE read \notin {"enabled", "got"}
    BY <1>0, <1>3 DEF Handled, DeletedAmendmentStatus, DatesEnabled
<1>. QED BY <1>1, <1>2, <1>3

(* In the version it asks for, a backtrack writes nothing.                 *)
LEMMA BacktrackWritesNothing ==
    ASSUME NEW k, BacktrackLedger(k)
    PROVE  row' = row
<1>1. EnableAmendmentIn(k, DefaultVersion) = "none"
    BY DEF EnableAmendmentIn, DefaultVersion, RIPPLED_API_V1
<1>. QED BY <1>1 DEF BacktrackLedger, Handled

(* A ledger without a change leaves the last one where it was.             *)
LEMMA CloseKeepsChange ==
    ASSUME TypeOK, CloseLedger("none")
    PROVE  Changes' = Changes /\ RightRow' = RightRow
<1>1. CASE UNCHANGED events
    BY <1>1, SameEvents
<1>2. CASE /\ DOMAIN events' = 1..(newest + 1) /\ DOMAIN events = 1..newest
           /\ events'[newest + 1] = "none"
           /\ \A k \in 1..newest : events'[k] = events[k]
  <2>0. newest \in Nat
      BY Numbered
  <2>1. Changes' = Changes
    <3>1. \A k \in Changes' : k \in Changes
        BY <1>2, <2>0 DEF Changes
    <3>2. \A k \in Changes : k \in Changes'
        BY <1>2, <2>0 DEF Changes
    <3>. QED BY <3>1, <3>2
  <2>2. LastChange' = LastChange
      BY <2>1 DEF LastChange
  <2>3. EventOf(LastChange)' = EventOf(LastChange)
    <3>1. CASE Changes = {}
      <4>1. LastChange = 0
          BY <3>1 DEF LastChange
      <4>. QED BY <1>2, <2>0, <2>2, <4>1 DEF EventOf
    <3>2. CASE Changes # {}
      <4>1. LastChange \in 1..newest
          BY <3>2, LastIsChange
      <4>. QED BY <1>2, <2>0, <2>2, <4>1 DEF EventOf
    <3>. QED BY <3>1, <3>2
  <2>. QED BY <2>1, <2>2, <2>3 DEF RightRow
<1>. QED BY <1>1, <1>2, CloseAppends

LEMMA InitCaptured == Init => CapturedInv
<1>. SUFFICES ASSUME Init PROVE CapturedInv
    OBVIOUS
<1>1. Changes = {} /\ row = NoRow /\ events = <<>>
    BY DEF Init, Changes
<1>2. EventOf(LastChange) = "none"
    BY <1>1 DEF LastChange, EventOf
<1>3. row = RightRow
    BY <1>1, <1>2 DEF RightRow
<1>. QED BY <1>1, <1>3, InitEnabled DEF CapturedInv, DatesEnabled, CapturedByStream

(* Nothing but the stream, the ledger entry and a change bears on either.  *)
LEMMA SameCaptured ==
    ASSUME DatesEnabled, CapturedByStream, UNCHANGED <<ledgerVars, row, captured>>
    PROVE  DatesEnabled' /\ CapturedByStream'
<1>1. UNCHANGED events
    BY DEF ledgerVars
<1>2. Changes' = Changes /\ RightRow' = RightRow
    BY <1>1, SameEvents
<1>. QED BY <1>1, <1>2 DEF DatesEnabled, CapturedByStream

LEMMA NextCaptured == CapturedInv /\ [Next]_vars => CapturedInv'
<1>. SUFFICES ASSUME CapturedInv, [Next]_vars
              PROVE  DatesEnabled' /\ CapturedByStream'
    BY NextEnabled DEF CapturedInv
<1>0. TypeOK /\ EnabledLast /\ DatesEnabled /\ CapturedByStream
    BY DEF CapturedInv, EnabledInv, Typed
<1>1. CASE StreamLedger
    BY <1>0, <1>1, SameCaptured DEF StreamLedger
<1>2. ASSUME NEW k \in processing, ProcessFails(k) PROVE DatesEnabled' /\ CapturedByStream'
    BY <1>0, <1>2, SameCaptured DEF ProcessFails
<1>3. ASSUME NEW k \in toVisit, BacktrackLedger(k) \/ BacktrackFails(k)
      PROVE  DatesEnabled' /\ CapturedByStream'
    BY <1>0, <1>3, BacktrackWritesNothing, SameCaptured DEF BacktrackLedger, BacktrackFails
<1>4. CASE StartBacktrack \/ Restart \/ UNCHANGED vars
    BY <1>0, <1>4, SameCaptured DEF StartBacktrack, Restart, vars
<1>5. ASSUME NEW k \in processing, ProcessEnableAmendment(k)
      PROVE  DatesEnabled' /\ CapturedByStream'
  <2>1. /\ row' = Handled(k, RIPPLED_API_V1) /\ UNCHANGED ledgerVars
        /\ captured' = (captured \/ k = LastChange)
      BY <1>5 DEF ProcessEnableAmendment
  <2>2. k \in 1..newest /\ k >= LastChange
    <3>1. k = newest /\ k # 0 /\ newest \in Nat
        BY <1>0, Numbered DEF TypeOK
    <3>2. LastChange \in 0..newest
      <4>1. Changes = {} => LastChange = 0
          BY DEF LastChange
      <4>. QED BY <1>0, <3>1, <4>1, LastIsChange
    <3>. QED BY <3>1, <3>2
  <2>3. ASSUME captured' PROVE row' = RightRow
      BY <1>0, <2>1, <2>2, <2>3, HandledRight DEF CapturedByStream
  <2>4. RightRow' = RightRow
      BY <2>1, SameEvents DEF ledgerVars
  <2>. QED BY <1>0, <2>1, <2>3, <2>4, HandledDates DEF CapturedByStream
<1>6. CASE SaveAmendmentsStatus
  <2>1. /\ UNCHANGED ledgerVars /\ captured' = captured
        /\ row = NoRow /\ row' = [eta |-> 0, date |-> 0]
      BY <1>6 DEF SaveAmendmentsStatus
  <2>2. PICK k \in Changes : events[k] = "enabled"
      BY <1>6 DEF SaveAmendmentsStatus, EnabledByLedger
  <2>3. LastChange = k /\ EventOf(LastChange) = "enabled"
      BY <1>0, <2>2, EnabledIsLast, LastIsChange
  <2>4. RightRow # NoRow
    <3>1. RightRow = [eta |-> 0, date |-> LastChange] /\ LastChange \in Nat
        BY <1>0, <2>2, <2>3, LastIsChange, Numbered DEF RightRow
    <3>. QED BY <3>1, AmendmentsAssumption
  <2>5. ~captured'
      BY <1>0, <2>1, <2>4 DEF CapturedByStream
  <2>. QED BY <2>1, <2>5 DEF DatesEnabled, CapturedByStream
<1>7. ASSUME NEW e \in Transaction \cup {"none"}, CloseLedger(e)
      PROVE  DatesEnabled' /\ CapturedByStream'
  <2>1. row' = row /\ captured' = (captured /\ e = "none")
      BY <1>7 DEF CloseLedger
  <2>2. DatesEnabled'
    <3>1. CASE UNCHANGED events
        BY <1>0, <2>1, <3>1 DEF DatesEnabled, Changes
    <3>2. CASE /\ DOMAIN events' = 1..(newest + 1) /\ DOMAIN events = 1..newest
               /\ \A k \in 1..newest : events'[k] = events[k]
        BY <1>0, <2>1, <3>2, Numbered DEF DatesEnabled, Changes
    <3>. QED BY <1>0, <1>7, <3>1, <3>2, CloseAppends
  <2>3. CapturedByStream'
    <3>1. CASE e = "none"
        BY <1>0, <1>7, <2>1, <3>1, CloseKeepsChange DEF CapturedByStream
    <3>2. CASE e # "none"
        BY <2>1, <3>2 DEF CapturedByStream
    <3>. QED BY <3>1, <3>2
  <2>. QED BY <2>2, <2>3
<1>. QED BY <1>1, <1>2, <1>3, <1>4, <1>5, <1>6, <1>7 DEF Next

(* Whatever it missed before, once the stream has handled the ledger of    *)
(* the last change the row says what the ledger says, and goes on to do so *)
(* through restarts, ledgers that are handled again, ledger entries and    *)
(* backtracks, until the next change.                                      *)
THEOREM StreamCaptures == Spec => []CapturedByStream
<1>1. CapturedInv => CapturedByStream
    BY DEF CapturedInv
<1>. QED BY InitCaptured, NextCaptured, <1>1, PTL DEF Spec
=============================================================================
