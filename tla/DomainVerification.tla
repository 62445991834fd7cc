-------------------------- MODULE DomainVerification --------------------------
(***************************************************************************)
(* Domain verification of one manifest: handleManifest and its helpers in  *)
(* src/src/connection-manager/manifests.ts, verifyValidatorDomain          *)
(* (src/src/shared/utils/domain-verification.ts), the verification columns *)
(* of the manifest's row, and their copy in the validators table.          *)
(*                                                                         *)
(* The manifest comes in from every connected node at any time, and from   *)
(* the jobs once per cycle.  The rows of two manifests have nothing in     *)
(* common here.  Time is counted in parts of a job cycle; the row's        *)
(* timestamps are kept as ages.                                            *)
(***************************************************************************)
EXTENDS Naturals, FiniteSets

CONSTANTS
    Copy,           \* bound: copies of the manifest that are handled at once
    Cycle,          \* MANIFESTS_JOB_INTERVAL and DOMAIN_RETRY_INTERVAL
    Reverify,       \* DOMAIN_REVERIFY_INTERVAL
    StaleThreshold, \* DOMAIN_STALE_THRESHOLD
    Lag,            \* how late in its cycle the job comes to the manifest
    Duration,       \* how long a verification takes, retries included
    MaxRecovered    \* bound on the count of the time since the recovery

ASSUME DomainVerificationAssumption ==
    /\ {Cycle, Reverify, StaleThreshold, Lag, Duration, MaxRecovered} \subseteq Nat
    /\ Lag + Duration < Cycle /\ Cycle <= Reverify /\ Reverify <= StaleThreshold

VARIABLES
    domain_verified,    \* of the manifest's row, or "no row"
    last_checked,       \* age
    last_verified,      \* age, or more than the threshold if there is none
    shown,              \* domain_verified of the validator's row
    manifestsInFlight,  \* whether the manifest is in the set
    call,               \* the copies being handled
    job,                \* what the job still does in this cycle
    clock,              \* time since the cycle began
    toml,               \* what the domain serves
    recovered           \* history: time for which it served a valid TOML

rowVars == <<domain_verified, last_checked, last_verified>>
vars == <<rowVars, shown, manifestsInFlight, call, job, clock, toml, recovered>>

-----------------------------------------------------------------------------
(* Data.  A TOML is "invalid" if it was retrieved and denies the manifest, *)
(* "down" if it is not retrieved or not parsed, "throws" if its contents   *)
(* make the verification throw.                                            *)

Toml == {"valid", "invalid", "down", "throws"}
Never == StaleThreshold + 1
Older(age, bound) == IF age < bound THEN age + 1 ELSE bound

State == {"no row", "null", "false", "true"}

(* A call knows the row it read, its own age, and the answer it got. *)
CallState == [read : State, stale : BOOLEAN, age : 0..Duration, answer : Toml \cup {"none"}]

(* Mutant: the other way around.                                           *)
SwappedInterval == IF domain_verified = "true" THEN Cycle ELSE Reverify
reverifyInterval == IF domain_verified = "true" THEN Reverify ELSE Cycle
checkedRecently == domain_verified # "no row" /\ last_checked < reverifyInterval

-----------------------------------------------------------------------------
(* handleManifest. *)

(* Mutant: the copies that nodes stream at once are all handled. *)
EveryCopy == TRUE
NotInFlight == ~manifestsInFlight

(* The copy is dropped: one is in flight, or the last check is recent.     *)
Dropped == ~NotInFlight \/ checkedRecently

stale == domain_verified = "true" /\ last_verified > StaleThreshold

(* now, existing and what follows from them are fixed here; a verified     *)
(* row always has a last_verified.                                         *)
Start(c) ==
    /\ c \notin DOMAIN call
    /\ ~Dropped
    /\ manifestsInFlight' = TRUE
    /\ call' = [d \in DOMAIN call \cup {c} |->
                  IF d # c THEN call[d]
                  ELSE [read |-> domain_verified, age |-> 0, answer |-> "none",
                        stale |-> stale]]
    /\ UNCHANGED <<rowVars, shown, clock, toml, recovered>>

(* The last attempt to fetch the TOML. *)
Answer(c) ==
    /\ call[c].answer = "none"
    /\ call' = [call EXCEPT ![c].answer = toml]
    /\ UNCHANGED <<rowVars, shown, manifestsInFlight, job, clock, toml, recovered>>

Save(verified, checked, lastVerified) ==
    /\ domain_verified' = verified
    /\ last_checked' = checked
    /\ last_verified' = lastVerified

(* A failure to retrieve the TOML keeps the state of the row, whatever it  *)
(* is by now, and downgrades only one that was verified and is stale.      *)
(* Mutant: it renews last_verified with last_checked.                      *)
RenewedUnreachable(c) ==
    IF call[c].read = "no row" THEN Save("null", call[c].age, last_verified)
    ELSE Save(IF call[c].stale THEN "false" ELSE domain_verified, call[c].age, call[c].age)
handleUnreachableDomain(c) ==
    IF call[c].read = "no row" THEN Save("null", call[c].age, last_verified)
    ELSE Save(IF call[c].stale THEN "false" ELSE domain_verified, call[c].age, last_verified)

(* An exception keeps the row, and leaves no row if there was none.        *)
Outcome(c) ==
    CASE call[c].answer = "valid" -> Save("true", call[c].age, call[c].age)
      [] call[c].answer = "invalid" -> Save("false", call[c].age, last_verified)
      [] call[c].answer = "down" -> handleUnreachableDomain(c)
      [] call[c].answer = "throws" ->
            IF call[c].read = "no row" THEN UNCHANGED rowVars
            ELSE Save(domain_verified, call[c].age, last_verified)

Finish(c) ==
    /\ call[c].answer # "none"
    /\ Outcome(c)
    /\ call' = [d \in DOMAIN call \ {c} |-> call[d]]
    /\ manifestsInFlight' = FALSE
    /\ UNCHANGED <<shown, job, clock, toml, recovered>>

-----------------------------------------------------------------------------
(* The stream, and the jobs of a cycle. *)

Streamed(c) == Start(c) /\ UNCHANGED job

(* The jobs hand the manifest on, await its handling and copy the row.     *)
JobStarts(c) == job = "due" /\ Start(c) /\ job' = "handled"

JobDropped ==
    /\ job = "due"
    /\ Dropped
    /\ job' = "copy"
    /\ UNCHANGED <<rowVars, shown, manifestsInFlight, call, clock, toml, recovered>>

JobAwaits ==
    /\ job = "handled"
    /\ DOMAIN call = {}
    /\ job' = "copy"
    /\ UNCHANGED <<rowVars, shown, manifestsInFlight, call, clock, toml, recovered>>

(* updateValidatorDomainsFromManifests, for a manifest with a domain. *)
JobCopies ==
    /\ job = "copy"
    /\ shown' = IF domain_verified = "no row" THEN shown ELSE domain_verified
    /\ job' = "done"
    /\ UNCHANGED <<rowVars, manifestsInFlight, call, clock, toml, recovered>>

-----------------------------------------------------------------------------
(* The environment. *)

DomainChanges ==
    /\ toml' \in Toml \ {toml}
    /\ recovered' = 0
    /\ UNCHANGED <<rowVars, shown, manifestsInFlight, call, job, clock>>

(* Time passes, but not beyond what the jobs and the calls may take.       *)
Tick ==
    /\ \A c \in DOMAIN call : call[c].age < Duration
    /\ clock >= Lag => job # "due"
    /\ clock >= Lag + Duration => job = "done"
    /\ clock' = (clock + 1) % Cycle
    /\ job' = IF clock + 1 = Cycle THEN "due" ELSE job
    /\ call' = [c \in DOMAIN call |-> [call[c] EXCEPT !.age = @ + 1]]
    /\ last_checked' = Older(last_checked, Reverify)
    /\ last_verified' = Older(last_verified, Never)
    /\ recovered' = IF toml = "valid" THEN Older(recovered, MaxRecovered) ELSE 0
    /\ UNCHANGED <<domain_verified, shown, manifestsInFlight, toml>>

Init ==
    /\ domain_verified = "no row" /\ last_checked = Reverify /\ last_verified = Never
    /\ shown = "null"
    /\ manifestsInFlight = FALSE
    /\ call = [c \in {} |-> {}]
    /\ job = "due" /\ clock = 0
    /\ toml \in Toml
    /\ recovered = 0

HandlingProceeds == \E c \in DOMAIN call : Answer(c) \/ Finish(c)
JobsProceed == JobDropped \/ JobAwaits \/ JobCopies \/ \E c \in Copy : JobStarts(c)

Next ==
    \/ \E c \in Copy : Streamed(c)
    \/ HandlingProceeds
    \/ JobsProceed
    \/ DomainChanges
    \/ Tick

Spec == Init /\ [][Next]_vars

(* Time passes, and what is bound to happen in time does. *)
FairSpec == Spec /\ WF_vars(HandlingProceeds) /\ WF_vars(JobsProceed) /\ WF_vars(Tick)

-----------------------------------------------------------------------------
(* Properties. *)

TypeOK ==
    /\ domain_verified \in State
    /\ last_checked \in 0..Reverify
    /\ last_verified \in 0..Never
    /\ shown \in State \ {"no row"}
    /\ DOMAIN call \subseteq Copy /\ call \in [DOMAIN call -> CallState]
    /\ manifestsInFlight = (DOMAIN call # {})
    /\ job \in {"due", "handled", "copy", "done"}
    /\ clock \in 0..(Cycle - 1)
    /\ toml \in Toml
    /\ recovered \in 0..MaxRecovered

(* A verified row loses its mark only by an answer that denies it, or when *)
(* it was last verified longer ago than the threshold - not by an older    *)
(* call that saves what it read before a newer one verified the domain.    *)
NoFlapping ==
    [][domain_verified = "true" /\ domain_verified' # "true" =>
          \/ \E c \in DOMAIN call : call[c].answer = "invalid" /\ c \notin DOMAIN call'
          \/ last_verified > StaleThreshold]_vars

(* manifests.ts:39-44 - a recovered domain is verified within two cycles:  *)
(* throttled copies, a stale copy in flight when the job comes to the      *)
(* manifest and jobs that come late do not add up to more, but for the     *)
(* job's own lag and the time its verification takes.                      *)
RecoversWithinTwoCycles ==
    recovered > 2 * Cycle + Lag + Duration => domain_verified = "true"

(* manifests.ts:46-48 - an abandoned domain converges to the truth, in the *)
(* validators table too.                                                   *)
AbandonedIsDowngraded == <>[](toml = "down") => <>[](domain_verified # "true" /\ shown # "true")
=============================================================================
