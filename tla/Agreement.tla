------------------------------ MODULE Agreement ------------------------------
(***************************************************************************)
(* Agreement scores: src/src/connection-manager/agreement.ts on top of the *)
(* chain tracker (Chains) and of the tables hourly_agreement, validators   *)
(* and ballot (src/src/shared/database/agreement.ts and index.ts).         *)
(*                                                                         *)
(* handleValidation runs for every validation of every entry node and      *)
(* awaits the database; calculateAgreement runs once per hour and awaits   *)
(* it many times; the two interleave at every await.  An action is what    *)
(* runs between two awaits, with the query that the next await is for.     *)
(* The hours of Chains are this module's clock too.                        *)
(***************************************************************************)
EXTENDS Chains, Integers

CONSTANTS
    MainKey,        \* the master key of a signing key, or itself if it has none
    Rotations,      \* pairs of an old and a new signing key of one master
    Orderly,        \* whether a new key votes only when the old one is revoked
    BadVersion,     \* validators whose server_version makes decodeServerVersion throw
    FlagInterval,   \* 256
    LedgerRange,    \* VALIDATION_LEDGER_RANGE
    Window,         \* hours in the longer score windows (24, 720)
    Retention,      \* hours an hourly row is kept (720)
    MaxInFlight     \* bound on the validations being handled at once

ASSUME AgreementAssumption ==
    /\ DOMAIN MainKey = Validator
    /\ \A r \in Rotations :
          r \in Validator \X Validator /\ MainKey[r[1]] = MainKey[r[2]] /\ MainKey[r[1]] \notin Validator
    /\ Orderly \in BOOLEAN
    /\ BadVersion \subseteq Validator
    /\ {FlagInterval, Window} \subseteq Nat \ {0}
    /\ {LedgerRange, Retention, MaxInFlight} \subseteq Nat

VARIABLES
    validationsByPublicKey, \* <<key, hash>> of a recorded validation -> when
    lastKnownLedgerIndex,
    handling,       \* <<key, hash>> of a handleValidation -> what it awaits
    ballot,         \* table ballot: signing key -> ledger of its voting data
    lastLedger,     \* table validators: signing key -> ledger_hash, current_index
    revoked,        \* table validators: signing keys with revoked = true
    reported_at,    \* start of the hourly rows being written
    step,           \* where calculateAgreement is
    agreementChains,    \* chains whose network name is still to be looked up
    activeSigningKeys,
    toScore,        \* promises that have not written their hourly row
    scored,         \* promises that have, with their key and score
    hourly,         \* table hourly_agreement: <<main key, start>> -> row
    agreement_1hour,    \* table validators, per main key
    agreement_window,   \* agreement_24hour, agreement_30day, daily: per main key
    heard,          \* history: every recorded validation -> when
    handed          \* history: the hour each was handed to the chain tracker in

historyVars == <<heard, handed>>
memoryVars == <<validationsByPublicKey, lastKnownLedgerIndex, handling, historyVars>>
calcVars == <<reported_at, step, agreementChains, activeSigningKeys, toScore, scored>>
scoreVars == <<hourly, agreement_1hour, agreement_window>>
tableVars == <<ballot, lastLedger, revoked>>
vars == <<chainVars, memoryVars, calcVars, scoreVars, tableVars>>

-----------------------------------------------------------------------------
(* Data. *)

Vote == Validator \X Ledger
MainKeys == {MainKey[v] : v \in Validator} \cup Validator

(* A promise scores one validator for a chain, or as absent from all; it   *)
(* writes the hourly row first, then the columns computed from the rows.   *)
Absent == -1
Promise == Validator \X (Nat \cup {Absent})

(* A row of hourly_agreement.  The table has the sizes of the two sets; by *)
(* is history: the promise that wrote the row.                             *)
Row == [validated : SUBSET Ledger, missed : SUBSET Ledger, incomplete : BOOLEAN, by : Promise]

distance(i, j) == IF i > j THEN i - j ELSE j - i

isPreceedingFlagLedger(i) == i % FlagInterval = FlagInterval - 1

setIntersection(ledgers, validations) == ledgers \cap validations
setDifference(ledgers, validations) == ledgers \ validations

Put(f, x, y) == [z \in DOMAIN f \cup {x} |-> IF z = x THEN y ELSE f[z]]
Drop(f, x) == [z \in DOMAIN f \ {x} |-> f[z]]

-----------------------------------------------------------------------------
(* handleValidation. *)

InRange(h) ==
    lastKnownLedgerIndex = 0 \/ distance(IndexOf[h], lastKnownLedgerIndex) <= LedgerRange

(* Recorded before anything is awaited: the other entry nodes deliver the  *)
(* same validation meanwhile.  Mutant: they are handled too.               *)
RecordAgain(v, h) ==
    /\ InRange(h)
    /\ validationsByPublicKey' = Put(validationsByPublicKey, <<v, h>>, hour)
    /\ heard' = Put(heard, <<v, h>>, hour)

Record(v, h) ==
    /\ <<v, h>> \notin DOMAIN validationsByPublicKey
    /\ InRange(h)
    /\ validationsByPublicKey' = Put(validationsByPublicKey, <<v, h>>, hour)
    /\ heard' = Put(heard, <<v, h>>, hour)

(* Handed to the chain tracker; the row of the validator is awaited next.  *)
CountAndSave(v, h) ==
    /\ UpdateLedgers(v, h)
    /\ lastKnownLedgerIndex' = IndexOf[h]
    /\ handling' = Put(handling, <<v, h>>, "saveValidator")
    /\ handed' = Put(handed, <<v, h>>, hour)

(* On most ledgers nothing is awaited before the validation is counted.    *)
HandleValidation(v, h) ==
    /\ ~isPreceedingFlagLedger(IndexOf[h])
    /\ Record(v, h)
    /\ CountAndSave(v, h)
    /\ UNCHANGED <<calcVars, scoreVars, tableVars>>

(* On the ledger before a flag ledger the ballot is saved first.           *)
HandleFlagValidation(v, h) ==
    /\ isPreceedingFlagLedger(IndexOf[h])
    /\ v \notin BadVersion
    /\ phase # "updating"
    /\ Record(v, h)
    /\ handling' = Put(handling, <<v, h>>, "saveBallot")
    /\ UNCHANGED <<chainVars, lastKnownLedgerIndex, handed, calcVars, scoreVars, tableVars>>

(* decodeServerVersion throws: the validation stays recorded, and neither  *)
(* its ballot nor its ledger nor its row is ever written.                  *)
FlagValidationThrows(v, h) ==
    /\ isPreceedingFlagLedger(IndexOf[h])
    /\ v \in BadVersion
    /\ phase # "updating"
    /\ Record(v, h)
    /\ UNCHANGED <<chainVars, lastKnownLedgerIndex, handling, handed, calcVars, scoreVars, tableVars>>

BallotSaved(v, h) ==
    /\ <<v, h>> \in DOMAIN handling
    /\ handling[<<v, h>>] = "saveBallot"
    /\ ballot' = Put(ballot, v, h)
    /\ CountAndSave(v, h)
    /\ UNCHANGED <<validationsByPublicKey, heard, calcVars, scoreVars, lastLedger, revoked>>

(* The upsert of saveValidator; the row's revoked column is kept, and made *)
(* false on a new row.                                                     *)
ValidatorSaved(v, h) ==
    /\ phase # "updating"
    /\ <<v, h>> \in DOMAIN handling
    /\ handling[<<v, h>>] = "saveValidator"
    /\ lastLedger' = Put(lastLedger, v, h)
    /\ handling' = Drop(handling, <<v, h>>)
    /\ UNCHANGED <<chainVars, validationsByPublicKey, lastKnownLedgerIndex, historyVars,
                   calcVars, scoreVars, ballot, revoked>>

(* purge: a validation is forgotten two hours after it was recorded.  In   *)
(* the minutes of scoring no validation of the hour before the last gets   *)
(* that old, but those its very first minutes brought.  Mutant: one hour.  *)
OneHour(p) == validationsByPublicKey[p] + (IF step = "off" THEN 1 ELSE 2) <= hour
TwoHours(p) == validationsByPublicKey[p] + (IF step = "off" THEN 2 ELSE 3) <= hour

Purge(p) ==
    /\ phase # "updating"
    /\ TwoHours(p)
    /\ validationsByPublicKey' = Drop(validationsByPublicKey, p)
    /\ UNCHANGED <<chainVars, lastKnownLedgerIndex, handling, historyVars, calcVars, scoreVars, tableVars>>

-----------------------------------------------------------------------------
(* calculateAgreement. *)

(* A ledger first voted for before the last calculation has been waiting   *)
(* since that calculation at least, and the last await of its handlers is  *)
(* over: they do not take an hour.                                         *)
Old(h) == \E v \in Validator : <<v, h>> \in DOMAIN heard /\ heard[<<v, h>>] < hour
Lingering == {h \in DOMAIN ledgersByHash : Old(h)}
Prompt == \A p \in DOMAIN handling : ~Old(p[2])

StartCalculation(settled) ==
    /\ step = "off"
    /\ Lingering \subseteq settled
    /\ Prompt
    /\ CalculateChainsFromLedgers(settled)
    /\ step' = "chains"
    /\ activeSigningKeys' = {}
    /\ UNCHANGED <<reported_at, agreementChains, toScore, scored, memoryVars, scoreVars, tableVars>>

LayLedger(h) == UpdateChains(h) /\ UNCHANGED <<memoryVars, calcVars, scoreVars, tableVars>>

ChainsReturned ==
    /\ ReturnChains
    /\ agreementChains' = DOMAIN chains
    /\ UNCHANGED <<reported_at, step, activeSigningKeys, toScore, scored,
                   memoryVars, scoreVars, tableVars>>

(* The name of the first chain is there: a promise for each validator.     *)
LookUpChain(c) ==
    /\ phase = "scoring"
    /\ c \in agreementChains
    /\ \A d \in agreementChains : c <= d
    /\ agreementChains' = agreementChains \ {c}
    /\ activeSigningKeys' = activeSigningKeys \cup chains[c].validators
    /\ toScore' = toScore \cup (chains[c].validators \X {c})
    /\ UNCHANGED <<chainVars, reported_at, step, scored, memoryVars, scoreVars, tableVars>>

(* signingToMaster finds the master key of a saved, unrevoked key only.    *)
(* Mutant: no fallback to the signing key.                                 *)
Active(v) == v \in DOMAIN lastLedger /\ v \notin revoked
UndefinedIfRevoked(v) == IF Active(v) THEN MainKey[v] ELSE "undefined"
main_key(v) == IF Active(v) THEN MainKey[v] ELSE v

recordedBy(v) == {h \in Ledger : <<v, h>> \in DOMAIN validationsByPublicKey}

(* The score counts what the validations map holds when the master key has *)
(* come, over the ledgers of the chain.                                    *)
Score(v, c) ==
    [validated |-> setIntersection(chains[c].ledgers, recordedBy(v)),
     missed |-> setDifference(chains[c].ledgers, recordedBy(v)),
     incomplete |-> chains[c].incomplete,
     by |-> <<v, c>>]

SaveRow(p, main, row) ==
    /\ hourly' = Put(hourly, <<main, reported_at>>, row)
    /\ toScore' = toScore \ {p}
    /\ scored' = Put(scored, p, [main |-> main, agreement |-> row])
    /\ UNCHANGED <<chainVars, reported_at, step, agreementChains, activeSigningKeys,
                   agreement_1hour, agreement_window, memoryVars, tableVars>>

ScoreValidator(v, c) ==
    /\ <<v, c>> \in toScore
    /\ c # Absent
    /\ SaveRow(<<v, c>>, main_key(v), Score(v, c))

(* The longer scores are computed from the hourly rows of the main key in  *)
(* a window that ends now.  reported_at was set at the end of a            *)
(* calculation, so the row one whole window back is still inside.  What a  *)
(* score says follows from these rows; they stand for it.  Mutant: the     *)
(* last hour's row is not read back.                                       *)
MissesLastRow(main) ==
    [s \in {t \in 0..hour : <<main, t>> \in DOMAIN hourly /\ t # reported_at} |-> hourly[<<main, s>>]]
getAgreementScores(main) ==
    [s \in {t \in 0..hour : <<main, t>> \in DOMAIN hourly /\ t + Window >= hour} |-> hourly[<<main, s>>]]

UpdateScores(p) ==
    /\ phase # "updating"
    /\ p \in DOMAIN scored
    /\ LET main == scored[p].main
       IN  /\ agreement_1hour' = Put(agreement_1hour, main, scored[p].agreement)
           /\ agreement_window' = Put(agreement_window, main, getAgreementScores(main))
    /\ scored' = Drop(scored, p)
    /\ UNCHANGED <<chainVars, reported_at, step, agreementChains, activeSigningKeys, toScore,
                   hourly, memoryVars, tableVars>>

AllScored == agreementChains = {} /\ toScore = {} /\ DOMAIN scored = {}

(* The largest number of ledgers on a chain; the ledgers stand for it.     *)
networkLedgers ==
    LET sets == {chains[c].ledgers : c \in DOMAIN chains} \cup {{}}
    IN  CHOOSE L \in sets : \A M \in sets : Cardinality(M) <= Cardinality(L)

(* Mutant: the keys on the chains are not taken out. *)
EveryActive == {v \in Validator : Active(v)}
absentValidators == {v \in Validator : Active(v)} \ activeSigningKeys

(* Every promise is kept: the active keys of the validators table that are *)
(* on no chain are scored.  They are on this network: the table keeps one. *)
QueryAbsent ==
    /\ step = "chains"
    /\ phase = "scoring"
    /\ AllScored
    /\ step' = "absent"
    /\ toScore' = IF networkLedgers = {} THEN {} ELSE absentValidators \X {Absent}
    /\ UNCHANGED <<chainVars, reported_at, agreementChains, activeSigningKeys, scored,
                   memoryVars, scoreVars, tableVars>>

ScoreAbsent(v) ==
    /\ <<v, Absent>> \in toScore
    /\ SaveRow(<<v, Absent>>, MainKey[v],
               [validated |-> {}, missed |-> networkLedgers, incomplete |-> FALSE,
                by |-> <<v, Absent>>])

(* purgeHourlyAgreementScores, then the chains, then the new start.        *)
EndCalculation(kept) ==
    /\ step = "absent"
    /\ AllScored
    /\ PurgeChains(kept)
    /\ hourly' = [r \in {q \in DOMAIN hourly : q[2] + Retention >= hour} |-> hourly[r]]
    /\ reported_at' = hour
    /\ step' = "off"
    /\ UNCHANGED <<agreementChains, activeSigningKeys, toScore, scored,
                   agreement_1hour, agreement_window, memoryVars, tableVars>>

-----------------------------------------------------------------------------
(* The environment. *)

(* The validations of one ledger come within seconds of each other: after  *)
(* the first of them at most one calculation has started, and has not      *)
(* ended.                                                                  *)
InTime(h) ==
    \A v \in Validator : <<v, h>> \in DOMAIN heard =>
        \/ heard[<<v, h>>] = hour
        \/ heard[<<v, h>>] + 1 = hour /\ phase = "scoring"

Deliver(v, h) ==
    /\ <<v, h>> \in Votes
    /\ InTime(h)
    /\ Cardinality(DOMAIN handling) < MaxInFlight
    /\ Orderly => \A r \in Rotations : r[2] = v => r[1] \in revoked
    /\ \/ HandleValidation(v, h)
       \/ HandleFlagValidation(v, h)
       \/ FlagValidationThrows(v, h)

(* handleRevocations of the manifest jobs marks an older key of a master.  *)
Revoke(v) ==
    /\ phase # "updating"
    /\ Active(v)
    /\ \E r \in Rotations : r[1] = v
    /\ revoked' = revoked \cup {v}
    /\ UNCHANGED <<chainVars, memoryVars, calcVars, scoreVars, ballot, lastLedger>>

AgreementInit ==
    /\ Init
    /\ validationsByPublicKey = [p \in {} |-> 0]
    /\ lastKnownLedgerIndex = 0
    /\ handling = [p \in {} |-> {}]
    /\ heard = [p \in {} |-> 0]
    /\ handed = [p \in {} |-> 0]
    /\ reported_at = 0
    /\ step = "off"
    /\ agreementChains = {}
    /\ activeSigningKeys = {}
    /\ toScore = {}
    /\ scored = [p \in {} |-> {}]
    /\ hourly = [r \in {} |-> {}]
    /\ agreement_1hour = [m \in {} |-> {}]
    /\ agreement_window = [m \in {} |-> {}]
    /\ ballot = [v \in {} |-> {}]
    /\ lastLedger = [v \in {} |-> {}]
    /\ revoked = {}

Calculate ==
    \/ \E settled \in SUBSET DOMAIN ledgersByHash : StartCalculation(settled)
    \/ \E h \in Ledger : LayLedger(h)
    \/ ChainsReturned
    \/ \E c \in DOMAIN chains : LookUpChain(c)
    \/ \E p \in toScore : ScoreValidator(p[1], p[2]) \/ ScoreAbsent(p[1])
    \/ \E p \in DOMAIN scored : UpdateScores(p)
    \/ QueryAbsent
    \/ \E kept \in SUBSET DOMAIN chains : EndCalculation(kept)

HandlersResume == \E v \in Validator, h \in Ledger : BallotSaved(v, h) \/ ValidatorSaved(v, h)

AgreementEnd == EndOfRun /\ UNCHANGED vars

AgreementNext ==
    \/ \E v \in Validator, h \in Ledger : Deliver(v, h)
    \/ HandlersResume
    \/ Calculate
    \/ \E p \in DOMAIN validationsByPublicKey : Purge(p)
    \/ \E v \in Validator : Revoke(v)
    \/ AgreementEnd

AgreementSpec == AgreementInit /\ [][AgreementNext]_vars

-----------------------------------------------------------------------------
(* Properties. *)

AgreementTypeOK ==
    /\ DOMAIN validationsByPublicKey \subseteq DOMAIN heard
    /\ DOMAIN heard \subseteq Vote
    /\ \A p \in DOMAIN heard : heard[p] \in 0..hour
    /\ handed \in [cast -> 0..hour]
    /\ lastKnownLedgerIndex \in Nat
    /\ handling \in [DOMAIN handling -> {"saveBallot", "saveValidator"}]
    /\ DOMAIN handling \subseteq DOMAIN heard
    /\ reported_at \in 0..hour
    /\ step \in {"off", "chains", "absent"}
    /\ agreementChains \subseteq DOMAIN chains
    /\ activeSigningKeys \subseteq Validator
    /\ toScore \subseteq Promise
    /\ DOMAIN scored \subseteq Promise
    /\ scored \in [DOMAIN scored -> [main : MainKeys, agreement : Row]]
    /\ DOMAIN hourly \subseteq MainKeys \X Nat
    /\ hourly \in [DOMAIN hourly -> Row]
    /\ DOMAIN lastLedger \subseteq Validator
    /\ revoked \subseteq DOMAIN lastLedger

(* The chain tracker is handed each validation once and in no other phase  *)
(* than it expects, whatever the other entry nodes deliver again, handlers *)
(* wait for and calculations hold back: Chains is what it promises here.   *)
TrackerSpec == Spec

(* A validation that had been recorded when the calculation of an hour     *)
(* started is never counted as missed in a row that scores its key for a   *)
(* chain: not when the calculation held the ledger back to the next hour,  *)
(* nor when the ledger was dropped and came back, while purge runs between *)
(* and new validations arrive.                                             *)
NoVoteForgotten ==
    \A r \in DOMAIN hourly : hourly[r].by[2] # Absent =>
        \A h \in hourly[r].missed :
            LET vote == <<hourly[r].by[1], h>>
            IN  vote \in DOMAIN heard => heard[vote] > r[2]

(* A ledger that is counted in two hours, of one validator or of two, was  *)
(* voted for by two validators after the first of these calculations had   *)
(* begun: being held back, waiting for the names of chains, late votes of  *)
(* one validator and chains that go on never count a ledger again.         *)
ledgersOf(row) == row.validated \cup row.missed
HandedLate(v, h, start) == <<v, h>> \in cast /\ handed[<<v, h>>] > start
NoLedgerCountedTwice ==
    \A r, q \in DOMAIN hourly : r[2] < q[2] =>
        \A h \in ledgersOf(hourly[r]) \cap ledgersOf(hourly[q]) :
            \E v, w \in Validator : v # w /\ HandedLate(v, h, r[2]) /\ HandedLate(w, h, r[2])

(* When a calculation is about to close the hour, every validator that is  *)
(* on a chain has a row for it.  If it is on no other chain and shares its *)
(* main key with no other key, the row says of each ledger of its chain    *)
(* that it signed before the calculation that it validated it.  The score  *)
(* columns of a main key say what its hourly rows say, if none of its keys *)
(* is on two chains, and its keys follow each other in order.              *)
KeysOf(main) == {v \in Validator : main \in {v, MainKey[v]}}
OnOneChain(v) ==
    \A c, d \in DOMAIN chains : v \in chains[c].validators \cap chains[d].validators => c = d
Alone(v) ==
    /\ OnOneChain(v)
    /\ \A w \in Validator \ {v} : {w, MainKey[w]} \cap {v, MainKey[v]} = {}
OneWriter(main) ==
    /\ \A v \in KeysOf(main) : OnOneChain(v)
    /\ \A v, w \in KeysOf(main) :
          v # w => Orderly /\ (<<v, w>> \in Rotations \/ <<w, v>> \in Rotations)
Signed(v, h) == <<v, h>> \in DOMAIN heard /\ heard[<<v, h>>] < hour
ColumnsSayTheRow(r) ==
    /\ r[1] \in DOMAIN agreement_1hour \cap DOMAIN agreement_window
    /\ agreement_1hour[r[1]] = hourly[r]
    /\ r[2] \in DOMAIN agreement_window[r[1]]
    /\ agreement_window[r[1]][r[2]] = hourly[r]
EveryoneIsScored ==
    step = "absent" /\ AllScored =>
        /\ \A c \in DOMAIN chains : \A v \in chains[c].validators :
              \E main \in {v, MainKey[v]} :
                 /\ <<main, reported_at>> \in DOMAIN hourly
                 /\ Alone(v) => \A h \in chains[c].ledgers :
                        Signed(v, h) => h \in hourly[<<main, reported_at>>].validated
        /\ \A r \in DOMAIN hourly : r[2] = reported_at /\ OneWriter(r[1]) => ColumnsSayTheRow(r)

(* docs/VERIFYING_AGREEMENT_SCORES.md:24 - validated are the ledgers the   *)
(* network agreed on that this validator also signed.  Here: when an hour  *)
(* is about to close, a ledger a chain counts, and that a validator of the *)
(* chain had signed before the calculation, is among those validated in    *)
(* the validator's row.                                                    *)
SignedIsValidated ==
    step = "absent" /\ AllScored =>
        \A c \in DOMAIN chains : \A v \in chains[c].validators, h \in chains[c].ledgers :
            Signed(v, h) =>
                \E main \in {v, MainKey[v]} :
                    /\ <<main, reported_at>> \in DOMAIN hourly
                    /\ h \in hourly[<<main, reported_at>>].validated
=============================================================================
