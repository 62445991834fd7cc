----------------------------- MODULE Revocations -----------------------------
(***************************************************************************)
(* Key rotation: the revoked columns of the tables manifests and           *)
(* validators.  saveManifest and saveValidator                             *)
(* (src/src/shared/database/index.ts) run for every manifest and           *)
(* validation that comes in; the jobs of                                   *)
(* src/src/connection-manager/manifests.ts run every five minutes, whether *)
(* or not the last ones are done.  Every query is a step; steps of         *)
(* different calls interleave.                                             *)
(*                                                                         *)
(* What domain verification adds to a row of manifests is in module        *)
(* DomainVerification; here a manifest that comes in is saved or not.      *)
(***************************************************************************)
EXTENDS Naturals, FiniteSets

CONSTANTS
    Manifest,       \* manifests, by master_signature
    Key,            \* signing keys
    Master,
    NoKey,          \* the signing key of a manifest that revokes its master key
    Null,           \* SQL's null, and undefined
    MasterOf, SigningOf, SeqOf,     \* what a manifest says
    OwnerOf,        \* the master key of a signing key
    Job,            \* the runs of jobs() that may overlap
    MaxValidations, \* bound on the validations
    MaxFailures     \* bound on the queries that fail

ASSUME RevocationsAssumption ==
    /\ MasterOf \in [Manifest -> Master]
    /\ SigningOf \in [Manifest -> Key \cup {NoKey}]
    /\ SeqOf \in [Manifest -> Nat]
    /\ OwnerOf \in [Key -> Master]
    /\ \A m \in Manifest : SigningOf[m] \in Key => OwnerOf[SigningOf[m]] = MasterOf[m]
    /\ \A m, n \in Manifest : SigningOf[m] = SigningOf[n] /\ SigningOf[m] # NoKey => m = n
    /\ NoKey \notin Key /\ Null \notin Master \cup BOOLEAN
    /\ MaxValidations \in Nat /\ MaxFailures \in Nat

VARIABLES
    manifests,      \* table: manifest -> revoked
    validators,     \* table: signing key -> [master_key, revoked]
    saving,         \* manifest -> its saveManifest: next query and what it found
    initializing,   \* keys whose saveValidator is before its second query
    jobs,           \* next query of each run of jobs()
    validations, failures,
    wasRevoked      \* history: keys whose row was revoked

revocationVars == <<manifests, validators, saving, initializing, jobs, validations, failures, wasRevoked>>

-----------------------------------------------------------------------------
(* Data. *)

Saved == DOMAIN manifests
Newer(m) == {n \in Saved : MasterOf[n] = MasterOf[m] /\ SeqOf[n] > SeqOf[m]}
Earlier(m) == {n \in Saved : MasterOf[n] = MasterOf[m] /\ SeqOf[n] < SeqOf[m]}

(* An UPDATE of the rows of some keys. *)
Revoking(K) ==
    /\ validators' = [k \in DOMAIN validators |->
                        IF k \in K THEN [validators[k] EXCEPT !.revoked = TRUE] ELSE validators[k]]
    /\ wasRevoked' = wasRevoked \cup (K \cap DOMAIN validators)

-----------------------------------------------------------------------------
(* saveManifest; manifestsInFlight keeps out a second copy. *)

SaveManifest(m) ==
    /\ m \notin DOMAIN saving
    /\ saving' = [n \in DOMAIN saving \cup {m} |->
                    IF n = m THEN [query |-> "older", revoke |-> {}, revoked |-> FALSE] ELSE saving[n]]
    /\ UNCHANGED <<manifests, validators, initializing, jobs, validations, failures, wasRevoked>>

At(m, query) == m \in DOMAIN saving /\ saving[m].query = query

RevokeOlder(m) ==
    /\ At(m, "older")
    /\ manifests' = [n \in Saved |-> manifests[n] \/ n \in Earlier(m)]
    /\ saving' = [saving EXCEPT ![m] =
                    [query |-> "newer", revoke |-> {SigningOf[n] : n \in Earlier(m)} \ {NoKey},
                     revoked |-> FALSE]]
    /\ UNCHANGED <<validators, initializing, jobs, validations, failures, wasRevoked>>

FindNewer(m) ==
    /\ At(m, "newer")
    /\ saving' = [saving EXCEPT ![m] =
                    [query |-> "validators", revoked |-> Newer(m) # {},
                     revoke |-> saving[m].revoke \cup
                                  (IF Newer(m) # {} THEN {SigningOf[m]} \ {NoKey} ELSE {})]]
    /\ UNCHANGED <<manifests, validators, initializing, jobs, validations, failures, wasRevoked>>

RevokeValidators(m) ==
    /\ At(m, "validators")
    /\ Revoking(saving[m].revoke)
    /\ saving' = [saving EXCEPT ![m].query = "insert"]
    /\ UNCHANGED <<manifests, initializing, jobs, validations, failures>>

InsertManifest(m) ==
    /\ At(m, "insert")
    /\ manifests' = [n \in Saved \cup {m} |-> IF n = m THEN saving[m].revoked ELSE manifests[n]]
    /\ saving' = [n \in DOMAIN saving \ {m} |-> saving[n]]
    /\ UNCHANGED <<validators, initializing, jobs, validations, failures, wasRevoked>>

(* Each query's error is caught, and the next one is made all the same.    *)
SaveQueryFails(m) ==
    /\ m \in DOMAIN saving
    /\ failures < MaxFailures
    /\ failures' = failures + 1
    /\ saving' = CASE At(m, "older") -> [saving EXCEPT ![m].query = "newer"]
                   [] At(m, "newer") -> [saving EXCEPT ![m].query = "validators"]
                   [] At(m, "validators") -> [saving EXCEPT ![m].query = "insert"]
                   [] At(m, "insert") -> [n \in DOMAIN saving \ {m} |-> saving[n]]
    /\ UNCHANGED <<manifests, validators, initializing, jobs, validations, wasRevoked>>

-----------------------------------------------------------------------------
(* saveValidator, for a validation that names its master key or does not.  *)
(* The merge overwrites master_key and leaves revoked alone.               *)

SaveValidator(k, master) ==
    /\ validations < MaxValidations
    /\ validations' = validations + 1
    /\ k \notin initializing
    /\ validators' = [i \in DOMAIN validators \cup {k} |->
                        IF i # k THEN validators[i]
                        ELSE [master_key |-> master,
                              revoked |-> IF k \in DOMAIN validators THEN validators[k].revoked ELSE Null]]
    /\ initializing' = initializing \cup {k}
    /\ UNCHANGED <<manifests, saving, jobs, failures, wasRevoked>>

(* Mutant: the column is left null.                                        *)
LeftNull(row) == row
Initialized(row) == IF row.revoked = Null THEN [row EXCEPT !.revoked = FALSE] ELSE row

InitializeRevoked(k) ==
    /\ k \in initializing
    /\ validators' = [i \in DOMAIN validators |->
                        IF i = k THEN Initialized(validators[i]) ELSE validators[i]]
    /\ initializing' = initializing \ {k}
    /\ UNCHANGED <<manifests, saving, jobs, validations, failures, wasRevoked>>

(* Each query's error is caught here too.                                  *)
ValidatorQueryFails(k) ==
    /\ failures < MaxFailures
    /\ failures' = failures + 1
    /\ \/ /\ k \notin initializing
          /\ validations < MaxValidations
          /\ validations' = validations + 1
          /\ initializing' = initializing \cup {k}
       \/ /\ k \in initializing
          /\ initializing' = initializing \ {k}
          /\ UNCHANGED validations
    /\ UNCHANGED <<manifests, validators, saving, jobs, wasRevoked>>

-----------------------------------------------------------------------------
(* jobs(): each run makes its queries one after the other. *)

Turn(j, query, next) == jobs[j] = query /\ jobs' = [jobs EXCEPT ![j] = next]

StartJobs(j) ==
    /\ Turn(j, "idle", "masterKeys")
    /\ UNCHANGED <<manifests, validators, saving, initializing, validations, failures, wasRevoked>>

updateValidatorMasterKeys(j) ==
    /\ Turn(j, "masterKeys", "markRevoked")
    /\ validators' = [k \in DOMAIN validators |->
                        IF \E m \in Saved : SigningOf[m] = k
                        THEN [validators[k] EXCEPT !.master_key = OwnerOf[k]] ELSE validators[k]]
    /\ UNCHANGED <<manifests, saving, initializing, validations, failures, wasRevoked>>

(* updateManifestRevocations.  Mutant: it trusts what saveManifest found.  *)
AsFound == manifests
WithNewerRevoked == [m \in Saved |-> manifests[m] \/ Newer(m) # {}]

MarkOldRevoked(j) ==
    /\ Turn(j, "markRevoked", "markCurrent")
    /\ manifests' = WithNewerRevoked
    /\ UNCHANGED <<validators, saving, initializing, validations, failures, wasRevoked>>

MarkLatestCurrent(j) ==
    /\ Turn(j, "markCurrent", "copy")
    /\ manifests' = [m \in Saved |-> manifests[m] /\ Newer(m) # {}]
    /\ UNCHANGED <<validators, saving, initializing, validations, failures, wasRevoked>>

(* updateRevocations: a validators row gets the revoked of the manifest of *)
(* its signing key.  No two manifests share one (RevocationsAssumption).   *)
ManifestOf(k) == {m \in Saved : SigningOf[m] = k}

CopyRevoked(j) ==
    /\ Turn(j, "copy", "others")
    /\ validators' = [k \in DOMAIN validators |->
                        IF ManifestOf(k) = {} THEN validators[k]
                        ELSE [validators[k] EXCEPT !.revoked = \E m \in ManifestOf(k) : manifests[m]]]
    /\ wasRevoked' = wasRevoked \cup
                       {k \in DOMAIN validators : \E m \in ManifestOf(k) : manifests[m]}
    /\ UNCHANGED <<manifests, saving, initializing, validations, failures>>

(* ... and is revoked if another key has a current manifest of its master. *)
(* Mutant: none is.                                                        *)
NoneSuperseded == {}
Superseded ==
    {k \in DOMAIN validators : \E m \in Saved :
        MasterOf[m] = validators[k].master_key /\ SigningOf[m] \notin {k, NoKey} /\ ~manifests[m]}

RevokeSuperseded(j) ==
    /\ Turn(j, "others", "purgeRevoked")
    /\ Revoking(Superseded)
    /\ UNCHANGED <<manifests, saving, initializing, validations, failures>>

purgeRevokedValidators(j) ==
    /\ Turn(j, "purgeRevoked", "purgeOld")
    /\ validators' = [k \in {i \in DOMAIN validators : validators[i].revoked # TRUE} |-> validators[k]]
    /\ UNCHANGED <<manifests, saving, initializing, validations, failures, wasRevoked>>

(* Rows of validators that were silent for a week. *)
purgeOldValidators(j) ==
    /\ Turn(j, "purgeOld", "idle")
    /\ \E K \in SUBSET DOMAIN validators :
          validators' = [k \in DOMAIN validators \ K |-> validators[k]]
    /\ UNCHANGED <<manifests, saving, initializing, validations, failures, wasRevoked>>

(* Each function catches its own error: the rest of its queries are not    *)
(* made.                                                                   *)
JobQueryFails(j) ==
    /\ failures < MaxFailures
    /\ failures' = failures + 1
    /\ \/ Turn(j, "masterKeys", "markRevoked")
       \/ Turn(j, "markRevoked", "copy")
       \/ Turn(j, "markCurrent", "copy")
       \/ Turn(j, "copy", "purgeRevoked")
       \/ Turn(j, "others", "purgeRevoked")
       \/ Turn(j, "purgeRevoked", "purgeOld")
    /\ UNCHANGED <<manifests, validators, saving, initializing, validations, wasRevoked>>

-----------------------------------------------------------------------------

RevocationsInit ==
    /\ manifests = [m \in {} |-> FALSE]
    /\ validators = [k \in {} |-> {}]
    /\ saving = [m \in {} |-> {}]
    /\ initializing = {}
    /\ jobs = [j \in Job |-> "idle"]
    /\ validations = 0 /\ failures = 0
    /\ wasRevoked = {}

SaveQuery(m) == RevokeOlder(m) \/ FindNewer(m) \/ RevokeValidators(m) \/ InsertManifest(m)

JobQuery(j) ==
    \/ StartJobs(j) \/ updateValidatorMasterKeys(j)
    \/ MarkOldRevoked(j) \/ MarkLatestCurrent(j)
    \/ CopyRevoked(j) \/ RevokeSuperseded(j)
    \/ purgeRevokedValidators(j) \/ purgeOldValidators(j)

RevocationsNext ==
    \/ \E m \in Manifest : SaveManifest(m) \/ SaveQuery(m) \/ SaveQueryFails(m)
    \/ \E k \in Key : \/ InitializeRevoked(k) \/ ValidatorQueryFails(k)
                     \/ \E master \in {OwnerOf[k], Null} : SaveValidator(k, master)
    \/ \E j \in Job : JobQuery(j) \/ JobQueryFails(j)

RevocationsSpec == RevocationsInit /\ [][RevocationsNext]_revocationVars

(* Queries are answered, and the jobs recur. *)
RevocationsFairSpec ==
    /\ RevocationsSpec
    /\ \A m \in Manifest : WF_revocationVars(SaveQuery(m))
    /\ \A k \in Key : WF_revocationVars(InitializeRevoked(k))
    /\ \A j \in Job : WF_revocationVars(JobQuery(j))

-----------------------------------------------------------------------------
(* Properties. *)

RevocationsTypeOK ==
    /\ Saved \subseteq Manifest /\ manifests \in [Saved -> BOOLEAN]
    /\ DOMAIN validators \subseteq Key
    /\ validators \in [DOMAIN validators ->
                         [master_key : Master \cup {Null}, revoked : BOOLEAN \cup {Null}]]
    /\ DOMAIN saving \subseteq Manifest
    /\ saving \in [DOMAIN saving -> [query : {"older", "newer", "validators", "insert"},
                                     revoke : SUBSET Key, revoked : BOOLEAN]]
    /\ initializing \subseteq Key
    /\ \A k \in DOMAIN validators : validators[k].revoked = Null => k \in initializing \/ failures > 0
    /\ jobs \in [Job -> {"idle", "masterKeys", "markRevoked", "markCurrent", "copy", "others",
                         "purgeRevoked", "purgeOld"}]
    /\ validations \in 0..MaxValidations /\ failures \in 0..MaxFailures
    /\ wasRevoked \subseteq Key

(* index.ts:99-101 - what concurrent saves and failed queries get wrong is *)
(* repaired by the jobs.  Whatever manifests keep being saved, the table   *)
(* comes to mark as revoked exactly the manifests with a newer one, and    *)
(* stays so.                                                               *)
Settled == \A m \in Saved : manifests[m] <=> Newer(m) # {}
RevocationsSettle == <>[]Settled

(* Once the validations of the old keys have stopped, every row of a key   *)
(* that the saved manifests or its own master key show to be old goes      *)
(* away, and no late save brings it back.                                  *)
Outdated(k) ==
    \E n \in Saved : /\ Newer(n) = {} /\ SigningOf[n] \notin {k, NoKey}
                     /\ \/ \E m \in ManifestOf(k) : MasterOf[m] = MasterOf[n]
                        \/ k \in DOMAIN validators /\ validators[k].master_key = MasterOf[n]
NoneOutdated == \A k \in DOMAIN validators : ~Outdated(k)
OldKeysLeave == <>[]NoneOutdated

(* The comment in saveValidator (src/src/shared/database/index.ts:284-286) *)
(* - revoked is set to false only if it does not exist, so that nobody     *)
(* submits validations with an old signing key.  Here: no query of         *)
(* saveValidator makes the row of a key unrevoked that was revoked before, *)
(* and whose manifest has a newer one.                                     *)
ValidationsRestoreNoKey ==
    [][initializing' # initializing =>
         \A k \in wasRevoked \cap DOMAIN validators' :
            /\ validators'[k].revoked = FALSE
            /\ \E m \in ManifestOf(k) : Newer(m) # {}
            => k \in DOMAIN validators /\ validators[k].revoked = FALSE]_revocationVars

(* index.ts:97-131 - a manifest is revoked by a newer one of its master,   *)
(* which is saved or about to be: however saves and jobs interleave, the   *)
(* latest manifest that was received stays current.  Only a save that      *)
(* fails after it revoked the older ones loses the newer one.              *)
Received == Saved \cup DOMAIN saving
HasSuccessor(m) ==
    \E n \in Manifest : /\ MasterOf[n] = MasterOf[m] /\ SeqOf[n] > SeqOf[m]
                        /\ failures = 0 => n \in Received
RevokedBySuccessor == \A m \in Saved : manifests[m] => HasSuccessor(m)

(* updateRevocations and purgeRevokedValidators - a row is marked revoked, *)
(* which purges it, only if there is another manifest of its master, with  *)
(* another key or with none: a validator that never changed its key keeps  *)
(* its row through overlapping jobs, concurrent saves and failed queries.  *)
Rotated(k) ==
    \E n \in Manifest : /\ MasterOf[n] = OwnerOf[k] /\ SigningOf[n] # k
                        /\ failures = 0 => n \in Received
OnlyRotatedAreRevoked ==
    \A k \in DOMAIN validators : validators[k].revoked = TRUE => Rotated(k)

(* The manifests that are being saved are saved already, and what was      *)
(* found of newer ones is so.                                              *)
OnlySavedAgain ==
    \A m \in DOMAIN saving :
        /\ m \in Saved
        /\ saving[m].query \in {"validators", "insert"} => saving[m].revoked = (Newer(m) # {})

(* A step in which no query fails and no new manifest comes.               *)
QuietStep == RevocationsNext /\ failures' = failures /\ DOMAIN saving' \subseteq Saved

(* ... and no validation with a key whose master has a later one.          *)
Retired(k) ==
    \E n \in Saved : /\ MasterOf[n] = OwnerOf[k] /\ Newer(n) = {}
                     /\ SigningOf[n] \notin {k, NoKey}
SilentStep == QuietStep /\ \A k \in initializing' \ initializing : ~Retired(k)
=============================================================================
