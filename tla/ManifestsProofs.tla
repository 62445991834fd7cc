---------------------------- MODULE ManifestsProofs ----------------------------
(***************************************************************************)
(* What holds of manifests: of the verification of a domain for any        *)
(* intervals that are in the order the code gives them and any number of   *)
(* copies at once, and of key rotation for any manifests, keys, validations*)
(* and failures, and any number of overlapping runs of the jobs.           *)
(***************************************************************************)
EXTENDS DomainVerification, Revocations, Integers, TLAPS

-----------------------------------------------------------------------------
(* Domain verification. *)

LEMMA Constants ==
    /\ Cycle \in Nat /\ Reverify \in Nat /\ StaleThreshold \in Nat
    /\ Lag \in Nat /\ Duration \in Nat /\ MaxRecovered \in Nat
    /\ Lag + Duration < Cycle /\ Cycle <= Reverify /\ Reverify <= StaleThreshold
BY DomainVerificationAssumption

LEMMA OneOfTwo ==
    ASSUME NEW r \in Nat, NEW c \in Nat, NEW n \in Nat, r <= c + n
    PROVE  r <= 2 * c + n
OBVIOUS

(* The clock starts again when a cycle is over. *)
LEMMA ClockTicks ==
    ASSUME NEW n \in 0..(Cycle - 1)
    PROVE  (n + 1) % Cycle = IF n + 1 = Cycle THEN 0 ELSE n + 1
<1>1. CASE n + 1 = Cycle
    BY <1>1, Constants, SMTT(30)
<1>2. CASE n + 1 # Cycle
    BY <1>2, Constants, SMTT(30)
<1>. QED BY <1>1, <1>2

-----------------------------------------------------------------------------
(* The invariant.  At most one copy is in flight, and it has read the row  *)
(* as it still is.  What is left is a clock: how long an unverified domain *)
(* can have been well, in each state of the call and of the job.           *)

unverified == domain_verified # "true"

OneCall ==
    /\ \A c, d \in DOMAIN call : c = d
    /\ \A c \in DOMAIN call : call[c].read = domain_verified
    /\ \A c \in DOMAIN call : call[c].stale => last_verified > StaleThreshold

JobInTime ==
    /\ job = "due" => clock <= Lag
    /\ job # "done" => clock <= Lag + Duration

(* An answer that denies was given when the domain was not well.           *)
Denied ==
    /\ toml # "valid" => recovered = 0
    /\ \A c \in DOMAIN call :
          call[c].answer \notin {"none", "valid"} => recovered <= call[c].age

Pending ==
    unverified => \A c \in DOMAIN call :
        call[c].answer \in {"none", "valid"} => recovered <= 2 * Cycle + Lag + call[c].age

Waiting ==
    unverified /\ DOMAIN call = {} =>
        /\ domain_verified # "no row" => recovered <= last_checked \/ last_checked = Reverify
        /\ recovered <= (IF job = "due" THEN 2 * Cycle ELSE Cycle) + clock

IInv == TypeOK /\ OneCall /\ JobInTime /\ Denied /\ Pending /\ Waiting

(* What of it arithmetic needs. *)
LEMMA Types ==
    ASSUME IInv
    PROVE  /\ domain_verified \in State
           /\ last_checked \in Nat /\ last_checked <= Reverify
           /\ last_verified \in Nat /\ last_verified <= StaleThreshold + 1
           /\ clock \in Nat /\ clock < Cycle
           /\ recovered \in Nat /\ recovered <= MaxRecovered
<1>1. /\ domain_verified \in State /\ last_checked \in 0..Reverify /\ last_verified \in 0..Never
      /\ clock \in 0..(Cycle - 1) /\ recovered \in 0..MaxRecovered
    BY DEF IInv, TypeOK
<1>. QED BY <1>1, Constants DEF Never

LEMMA Calls ==
    ASSUME IInv, NEW c \in DOMAIN call
    PROVE  /\ DOMAIN call = {c} /\ c \in Copy /\ call[c] \in CallState
           /\ call[c].age \in Nat /\ call[c].age <= Duration
           /\ call[c].answer \in Toml \cup {"none"} /\ call[c].read = domain_verified
           /\ call[c].stale => last_verified > StaleThreshold
<1>1. /\ DOMAIN call = {c} /\ c \in Copy /\ call[c] \in CallState
      /\ call[c].read = domain_verified /\ (call[c].stale => last_verified > StaleThreshold)
    BY DEF IInv, OneCall, TypeOK
<1>. QED BY <1>1, Constants DEF CallState

LEMMA InitIInv == Init => IInv
<1>1. SUFFICES ASSUME Init PROVE IInv
    OBVIOUS
<1>2. DOMAIN call = {} /\ call \in [DOMAIN call -> CallState]
    BY <1>1 DEF Init
<1>3. /\ last_checked \in 0..Reverify /\ last_verified \in 0..Never
      /\ clock \in 0..(Cycle - 1) /\ recovered \in 0..MaxRecovered
    <2>1. last_checked = Reverify /\ last_verified = Never /\ clock = 0 /\ recovered = 0
        BY <1>1 DEF Init
    <2>. QED BY <2>1, Constants DEF Never
<1>4. TypeOK
    BY <1>1, <1>2, <1>3 DEF Init, TypeOK, State
<1>5. OneCall /\ Denied /\ Pending
    BY <1>1, <1>2 DEF Init, OneCall, Denied, Pending
<1>6. JobInTime /\ Waiting
    <2>1. job = "due" /\ clock = 0 /\ recovered = 0 /\ domain_verified = "no row"
        BY <1>1 DEF Init
    <2>2. 0 <= Lag /\ 0 <= Lag + Duration /\ 0 <= 2 * Cycle + 0
        BY Constants
    <2>. QED BY <2>1, <2>2 DEF JobInTime, Waiting
<1>. QED BY <1>4, <1>5, <1>6 DEF IInv

-----------------------------------------------------------------------------
(* The steps. *)

(* A copy that is not dropped is the only one. *)
LEMMA Started ==
    ASSUME IInv, NEW c \in Copy, Start(c)
    PROVE  /\ DOMAIN call = {} /\ DOMAIN call' = {c}
           /\ call'[c] = [read |-> domain_verified, age |-> 0, answer |-> "none", stale |-> stale]
           /\ call'[c] \in CallState
           /\ call' \in [DOMAIN call' -> CallState]
<1>1. DOMAIN call = {}
    BY DEF IInv, TypeOK, Start, Dropped, NotInFlight
<1>2. call' = [d \in {c} |-> [read |-> domain_verified, age |-> 0, answer |-> "none",
                               stale |-> stale]]
    BY <1>1 DEF Start
<1>3. [read |-> domain_verified, age |-> 0, answer |-> "none", stale |-> stale] \in CallState
    <2>1. stale \in BOOLEAN
        BY DEF stale
    <2>2. domain_verified \in State /\ 0 \in 0..Duration
        BY Types, Constants
    <2>. QED BY <2>1, <2>2 DEF CallState
<1>. QED BY <1>1, <1>2, <1>3

LEMMA StartKeeps ==
    ASSUME IInv, NEW c \in Copy, Start(c),
           job' = job \/ (job = "due" /\ job' = "handled")
    PROVE  IInv'
<1>1. /\ DOMAIN call = {} /\ DOMAIN call' = {c}
      /\ call'[c] = [read |-> domain_verified, age |-> 0, answer |-> "none", stale |-> stale]
      /\ call'[c] \in CallState
      /\ call' \in [DOMAIN call' -> CallState]
    BY Started
<1>2. TypeOK'
    BY <1>1 DEF IInv, TypeOK, Start, rowVars
<1>3. OneCall'
    BY <1>1 DEF OneCall, Start, rowVars, stale
<1>4. JobInTime' /\ Denied' /\ Waiting'
    BY <1>1 DEF IInv, JobInTime, Denied, Waiting, Start, rowVars
<1>5. Pending'
    <2>1. SUFFICES ASSUME unverified' PROVE recovered' <= 2 * Cycle + Lag
        BY <1>1, Types, Constants DEF Pending, Start
    <2>2. unverified /\ recovered' = recovered
        BY <2>1 DEF unverified, Start, rowVars
    <2>3. /\ recovered <= (IF job = "due" THEN 2 * Cycle ELSE Cycle) + clock
          /\ job = "due" => clock <= Lag
        BY <1>1, <2>2 DEF IInv, Waiting, JobInTime
    <2>. QED BY <2>2, <2>3, Types, Constants
<1>. QED BY <1>2, <1>3, <1>4, <1>5 DEF IInv

LEMMA AnswerKeeps ==
    ASSUME IInv, NEW c \in DOMAIN call, Answer(c)
    PROVE  IInv'
<1>1. DOMAIN call = {c} /\ call[c] \in CallState
    BY Calls
<1>2. /\ DOMAIN call' = DOMAIN call
      /\ call' = [d \in DOMAIN call |-> IF d = c THEN [call[c] EXCEPT !.answer = toml] ELSE call[d]]
    BY DEF Answer
<1>3. /\ [call[c] EXCEPT !.answer = toml] \in CallState
      /\ call'[c].read = call[c].read /\ call'[c].age = call[c].age
      /\ call'[c].stale = call[c].stale /\ call'[c].answer = toml
    BY <1>1, <1>2 DEF IInv, TypeOK, CallState
<1>4. call' \in [DOMAIN call' -> CallState]
    BY <1>1, <1>2, <1>3
<1>5. TypeOK'
    BY <1>2, <1>4 DEF IInv, TypeOK, Answer, rowVars
<1>6. OneCall' /\ JobInTime' /\ Waiting'
    BY <1>1, <1>2, <1>3 DEF IInv, OneCall, JobInTime, Waiting, Answer, rowVars, unverified
<1>7. UNCHANGED <<domain_verified, toml, recovered>> /\ call[c].answer = "none"
    BY DEF Answer, rowVars
<1>8. Denied'
    <2>1. toml # "valid" => recovered = 0
        BY DEF IInv, Denied
    <2>. QED BY <1>1, <1>2, <1>3, <1>7, <2>1, Calls DEF Denied
<1>9. Pending'
    <2>1. unverified => recovered <= 2 * Cycle + Lag + call[c].age
        BY <1>7 DEF IInv, Pending
    <2>. QED BY <1>1, <1>2, <1>3, <1>7, <2>1 DEF Pending, unverified
<1>. QED BY <1>5, <1>6, <1>8, <1>9 DEF IInv

(* What the end of a call makes of the row. *)
LEMMA Outcomes ==
    ASSUME IInv, NEW c \in DOMAIN call, call[c].answer # "none", Outcome(c)
    PROVE  /\ domain_verified' \in State /\ last_checked' \in 0..Reverify
           /\ last_verified' \in 0..Never
           /\ call[c].answer = "valid" => domain_verified' = "true"
           /\ domain_verified' # "no row" => last_checked' = call[c].age
           /\ domain_verified = "true" /\ domain_verified' # "true" =>
                 call[c].answer = "invalid" \/ last_verified > StaleThreshold
<1>1. /\ call[c] \in CallState /\ call[c].age \in 0..Reverify /\ call[c].age \in 0..Never
      /\ call[c].answer \in Toml /\ call[c].read = domain_verified
      /\ domain_verified \in State /\ last_checked \in 0..Reverify /\ last_verified \in 0..Never
      /\ call[c].stale => last_verified > StaleThreshold
    <2>1. call[c].age \in Nat /\ call[c].age <= Duration
        BY Calls
    <2>2. call[c].age \in 0..Reverify /\ call[c].age \in 0..Never
        BY <2>1, Constants DEF Never
    <2>. QED BY <2>2, Calls DEF IInv, TypeOK
<1>2. CASE call[c].answer = "valid"
    BY <1>1, <1>2 DEF Outcome, Save, State
<1>3. CASE call[c].answer = "invalid"
    BY <1>1, <1>3 DEF Outcome, Save, State
<1>4. CASE call[c].answer = "down"
    BY <1>1, <1>4 DEF Outcome, handleUnreachableDomain, Save, State
<1>5. CASE call[c].answer = "throws"
    BY <1>1, <1>5 DEF Outcome, rowVars, Save, State
<1>. QED BY <1>1, <1>2, <1>3, <1>4, <1>5 DEF Toml

LEMMA FinishKeeps ==
    ASSUME IInv, NEW c \in DOMAIN call, Finish(c)
    PROVE  IInv'
<1>1. DOMAIN call = {c} /\ call[c] \in CallState
    BY Calls
<1>2. DOMAIN call' = {} /\ call' \in [DOMAIN call' -> CallState]
    BY <1>1 DEF Finish
<1>3. /\ domain_verified' \in State /\ last_checked' \in 0..Reverify
      /\ last_verified' \in 0..Never
      /\ call[c].answer = "valid" => domain_verified' = "true"
      /\ domain_verified' # "no row" => last_checked' = call[c].age
    BY Outcomes DEF Finish
<1>4. TypeOK'
    BY <1>2, <1>3 DEF IInv, TypeOK, Finish
<1>5. OneCall' /\ JobInTime' /\ Denied' /\ Pending'
    BY <1>2 DEF IInv, OneCall, JobInTime, Denied, Pending, Finish
<1>6. ASSUME call[c].answer # "valid" PROVE recovered <= call[c].age /\ call[c].age <= Cycle
    <2>1. call[c].answer \notin {"none", "valid"}
        BY <1>6 DEF Finish
    <2>2. recovered <= call[c].age
        BY <2>1 DEF IInv, Denied
    <2>3. call[c].age \in Nat /\ call[c].age <= Duration
        BY Calls
    <2>. QED BY <2>2, <2>3, Constants
<1>7. Waiting'
    <2>1. SUFFICES ASSUME unverified'
                   PROVE  /\ domain_verified' # "no row" => recovered' <= last_checked'
                          /\ recovered' <= Cycle + clock'
        <3>1. recovered <= Cycle + clock => recovered <= 2 * Cycle + clock
            BY Types, Constants, OneOfTwo
        <3>2. recovered' = recovered /\ clock' = clock
            BY DEF Finish
        <3>. QED BY <3>1, <3>2 DEF Waiting
    <2>2. UNCHANGED <<clock, recovered>> /\ call[c].answer # "valid"
        BY <1>3, <2>1 DEF Finish, unverified
    <2>3. recovered <= call[c].age /\ call[c].age <= Cycle /\ call[c].age \in Nat
        BY <1>6, <2>2, Calls
    <2>4. recovered <= Cycle + clock
        BY <2>3, Types, Constants
    <2>. QED BY <1>3, <2>2, <2>3, <2>4
<1>. QED BY <1>4, <1>5, <1>7 DEF IInv

LEMMA TickKeeps ==
    ASSUME IInv, Tick
    PROVE  IInv'
<1>1. /\ DOMAIN call' = DOMAIN call
      /\ \A c \in DOMAIN call : /\ call[c] \in CallState
                                /\ call'[c] = [call[c] EXCEPT !.age = @ + 1]
                                /\ call[c].age < Duration
    BY DEF IInv, TypeOK, Tick
<1>2. \A c \in DOMAIN call : /\ call'[c] \in CallState
                            /\ call'[c].read = call[c].read /\ call'[c].stale = call[c].stale
                            /\ call'[c].answer = call[c].answer
                            /\ call'[c].age = call[c].age + 1
    BY <1>1, Constants DEF CallState
<1>3. call' \in [DOMAIN call' -> CallState]
    <2>1. call' = [c \in DOMAIN call' |-> call'[c]]
        BY DEF Tick
    <2>. QED BY <1>1, <1>2, <2>1
<1>4. clock' = (IF clock + 1 = Cycle THEN 0 ELSE clock + 1) /\ clock \in 0..(Cycle - 1)
    BY ClockTicks DEF IInv, TypeOK, Tick
<1>14. clock' \in 0..(Cycle - 1)
    BY <1>4, Constants
<1>5. /\ recovered' \in 0..MaxRecovered /\ recovered \in Nat
      /\ recovered' <= recovered + 1
      /\ toml # "valid" => recovered' = 0
    BY Types, Constants DEF Tick, Older
<1>6. /\ last_checked' \in 0..Reverify /\ last_verified' \in 0..Never
      /\ last_checked' = last_checked + 1 \/ last_checked' = Reverify
      /\ last_verified > StaleThreshold => last_verified' > StaleThreshold
    BY Types, Constants DEF Tick, Older, Never
<1>7. TypeOK'
    BY <1>1, <1>3, <1>14, <1>5, <1>6 DEF IInv, TypeOK, Tick
<1>8. OneCall'
    BY <1>1, <1>2, <1>6 DEF IInv, OneCall, Tick
<1>9. JobInTime'
    <2>1. /\ job = "due" => clock <= Lag
          /\ job # "done" => clock <= Lag + Duration
        BY DEF IInv, JobInTime
    <2>. QED BY <1>4, <2>1, Types, Constants DEF JobInTime, Tick
<1>10. Denied' /\ Pending'
    <2>1. Denied /\ Pending /\ toml' = toml /\ (unverified' <=> unverified)
        BY DEF IInv, Tick, unverified
    <2>2. \A c \in DOMAIN call : call[c].age \in Nat
        BY Calls
    <2>. QED BY <1>1, <1>2, <1>5, <2>1, <2>2, Constants DEF Denied, Pending
<1>11. ASSUME unverified, DOMAIN call = {}
       PROVE recovered' <= (IF job' = "due" THEN 2 * Cycle ELSE Cycle) + clock'
    <2>1. recovered <= (IF job = "due" THEN 2 * Cycle ELSE Cycle) + clock
        BY <1>11 DEF IInv, Waiting
    <2>2. CASE clock + 1 = Cycle
        <3>1. job # "due"
            BY <2>2, Types, Constants DEF Tick
        <3>2. job' = "due" /\ clock' = 0
            BY <1>4, <2>2 DEF Tick
        <3>. QED BY <1>5, <2>1, <2>2, <3>1, <3>2, Types, Constants
    <2>3. CASE clock + 1 # Cycle
        <3>1. job' = job /\ clock' = clock + 1
            BY <1>4, <2>3 DEF Tick
        <3>. QED BY <1>5, <2>1, <3>1, Types, Constants
    <2>. QED BY <2>2, <2>3
<1>12. ASSUME unverified, DOMAIN call = {}, domain_verified # "no row"
       PROVE recovered' <= last_checked' \/ last_checked' = Reverify
    <2>1. recovered <= last_checked \/ last_checked = Reverify
        BY <1>12 DEF IInv, Waiting
    <2>. QED BY <1>5, <2>1, Types, Constants DEF Tick, Older
<1>13. Waiting'
    BY <1>1, <1>11, <1>12 DEF Waiting, Tick, unverified
<1>. QED BY <1>7, <1>8, <1>9, <1>10, <1>13 DEF IInv

LEMMA JobKeeps ==
    ASSUME IInv, JobDropped \/ JobAwaits \/ JobCopies
    PROVE  IInv'
<1>1. UNCHANGED <<rowVars, manifestsInFlight, call, clock, toml, recovered>>
    BY DEF JobDropped, JobAwaits, JobCopies
<1>2. /\ job' \in {"copy", "done"} /\ job # "done"
      /\ shown' \in State \ {"no row"}
    BY DEF JobDropped, JobAwaits, JobCopies, IInv, TypeOK
<1>3. TypeOK'
    BY <1>1, <1>2 DEF IInv, TypeOK, rowVars
<1>4. OneCall' /\ Denied' /\ Pending' /\ JobInTime'
    BY <1>1, <1>2 DEF IInv, OneCall, Denied, Pending, JobInTime, rowVars, unverified
<1>5. ASSUME unverified, DOMAIN call = {}
      PROVE recovered <= Cycle + clock
    <2>1. /\ domain_verified # "no row" => recovered <= last_checked \/ last_checked = Reverify
          /\ job # "due" => recovered <= Cycle + clock
        BY <1>5 DEF IInv, Waiting
    <2>2. CASE job # "due"
        BY <2>1, <2>2
    <2>3. CASE JobDropped
        <3>1. checkedRecently
            BY <1>5, <2>3 DEF JobDropped, Dropped, NotInFlight, IInv, TypeOK
        <3>2. domain_verified # "no row"
            BY <3>1 DEF checkedRecently
        <3>6. last_checked < Cycle
            BY <1>5, <3>1 DEF checkedRecently, reverifyInterval, unverified
        <3>3. /\ Cycle \in Nat /\ Reverify \in Nat /\ Cycle <= Reverify
              /\ last_checked \in Nat /\ recovered \in Nat /\ clock \in Nat
            BY Types, Constants
        <3>4. last_checked # Reverify
            BY <3>3, <3>6
        <3>5. recovered <= last_checked
            BY <2>1, <3>2, <3>4
        <3>. QED BY <3>3, <3>5, <3>6
    <2>. QED BY <2>2, <2>3 DEF JobAwaits, JobCopies
<1>6. Waiting'
    BY <1>1, <1>2, <1>5 DEF IInv, Waiting, rowVars, unverified
<1>. QED BY <1>3, <1>4, <1>6 DEF IInv

LEMMA ChangeKeeps ==
    ASSUME IInv, DomainChanges
    PROVE  IInv'
<1>1. UNCHANGED <<rowVars, shown, manifestsInFlight, call, job, clock>> /\ recovered' = 0 /\ toml' \in Toml
    BY DEF DomainChanges
<1>2. recovered' \in 0..MaxRecovered
    BY <1>1, Constants
<1>3. TypeOK' /\ OneCall' /\ JobInTime'
    BY <1>1, <1>2 DEF IInv, TypeOK, OneCall, JobInTime, rowVars
<1>4. \A c \in DOMAIN call : call[c].age \in Nat
    BY Calls
<1>5. Denied' /\ Pending'
    BY <1>1, <1>4, Constants DEF Denied, Pending
<1>6. Waiting'
    <2>1. recovered' = 0 /\ UNCHANGED <<last_checked, clock>>
        BY <1>1 DEF rowVars
    <2>2. /\ last_checked \in Nat /\ Cycle \in Nat /\ clock \in Nat
        BY Types, Constants
    <2>3. 0 <= last_checked /\ 0 <= 2 * Cycle + clock /\ 0 <= Cycle + clock
        BY <2>2
    <2>. QED BY <2>1, <2>3 DEF Waiting
<1>. QED BY <1>3, <1>5, <1>6 DEF IInv

LEMMA StepKeeps == IInv /\ [Next]_vars => IInv'
<1>1. SUFFICES ASSUME IInv, [Next]_vars PROVE IInv'
    OBVIOUS
<1>2. ASSUME NEW c \in Copy, Streamed(c) PROVE IInv'
    BY <1>1, <1>2, StartKeeps DEF Streamed
<1>3. ASSUME NEW c \in Copy, JobStarts(c) PROVE IInv'
    BY <1>1, <1>3, StartKeeps DEF JobStarts
<1>4. CASE HandlingProceeds
    BY <1>1, <1>4, AnswerKeeps, FinishKeeps DEF HandlingProceeds
<1>5. CASE JobDropped \/ JobAwaits \/ JobCopies
    BY <1>1, <1>5, JobKeeps
<1>6. CASE DomainChanges
    BY <1>1, <1>6, ChangeKeeps
<1>7. CASE Tick
    BY <1>1, <1>7, TickKeeps
<1>8. CASE UNCHANGED vars
    BY <1>1, <1>8
    DEF vars, rowVars, IInv, TypeOK, OneCall, JobInTime, Denied, Pending, Waiting, unverified
<1>. QED BY <1>1, <1>2, <1>3, <1>4, <1>5, <1>6, <1>7, <1>8 DEF Next, JobsProceed

LEMMA Invariant == Spec => []IInv
BY InitIInv, StepKeeps, PTL DEF Spec

-----------------------------------------------------------------------------
(* The theorems. *)

(* handleManifest - the manifest is in flight exactly while a copy of it   *)
(* is handled, and the columns of its row have their types.                *)
THEOREM TypeCorrect == Spec => []TypeOK
<1>1. IInv => TypeOK
    BY DEF IInv
<1>. QED BY <1>1, Invariant, PTL

(* manifests.ts:39-44 - a domain that has served a valid TOML for two      *)
(* cycles, the lag of the job and one verification is verified, whatever   *)
(* the stream delivers and for all intervals in the order of the code.     *)
THEOREM RecoversInTime == Spec => []RecoversWithinTwoCycles
<1>1. ASSUME IInv PROVE RecoversWithinTwoCycles
    <2>1. SUFFICES ASSUME unverified PROVE recovered <= 2 * Cycle + Lag + Duration
        BY <1>1, Types, Constants DEF RecoversWithinTwoCycles, unverified
    <2>2. CASE DOMAIN call = {}
        <3>1. /\ recovered <= (IF job = "due" THEN 2 * Cycle ELSE Cycle) + clock
              /\ job = "due" => clock <= Lag
            BY <1>1, <2>1, <2>2 DEF IInv, Waiting, JobInTime
        <3>. QED BY <1>1, <3>1, Types, Constants
    <2>3. CASE DOMAIN call # {}
        <3>1. PICK c \in DOMAIN call : TRUE
            BY <2>3
        <3>2. recovered <= call[c].age \/ recovered <= 2 * Cycle + Lag + call[c].age
            BY <1>1, <2>1, <3>1 DEF IInv, Pending, Denied
        <3>3. call[c].age \in Nat /\ call[c].age <= Duration
            BY <1>1, <3>1, Calls
        <3>4. recovered \in Nat
            BY <1>1, Types
        <3>. QED BY <3>2, <3>3, <3>4, Constants
    <2>. QED BY <2>2, <2>3
<1>. QED BY <1>1, Invariant, PTL

(* handleUnreachableDomain and updateValidatorDomainsFromManifests - a     *)
(* verified row is not downgraded by anything but a denial or its age.     *)
THEOREM NoFlap == Spec => NoFlapping
<1>1. ASSUME IInv, [Next]_vars, domain_verified = "true", domain_verified' # "true"
      PROVE  \/ \E c \in DOMAIN call : call[c].answer = "invalid" /\ c \notin DOMAIN call'
             \/ last_verified > StaleThreshold
    <2>1. PICK c \in DOMAIN call : Finish(c)
        BY <1>1 DEF Next, vars, rowVars, Streamed, Start, HandlingProceeds, Answer, JobsProceed,
                    JobDropped, JobAwaits, JobCopies, JobStarts, DomainChanges, Tick
    <2>2. call[c].answer = "invalid" \/ last_verified > StaleThreshold
        BY <1>1, <2>1, Outcomes DEF Finish
    <2>3. c \notin DOMAIN call'
        BY <2>1 DEF Finish
    <2>. QED BY <2>2, <2>3
<1>2. IInv /\ [Next]_vars =>
        (domain_verified = "true" /\ domain_verified' # "true" =>
          \/ \E c \in DOMAIN call : call[c].answer = "invalid" /\ c \notin DOMAIN call'
          \/ last_verified > StaleThreshold)
    BY <1>1
<1>. QED BY <1>2, Invariant, PTL DEF Spec, NoFlapping

-----------------------------------------------------------------------------
(* Key rotation.  A manifest has one key, a key one master, and a manifest *)
(* that has a successor gave its key away.                                 *)

SaveState == [query : {"older", "newer", "validators", "insert"},
              revoke : SUBSET Key, revoked : BOOLEAN]
RowState == [master_key : Master \cup {Null}, revoked : BOOLEAN \cup {Null}]

LEMMA RevocationConstants ==
    /\ MasterOf \in [Manifest -> Master] /\ SigningOf \in [Manifest -> Key \cup {NoKey}]
    /\ SeqOf \in [Manifest -> Nat] /\ OwnerOf \in [Key -> Master]
    /\ \A m \in Manifest : SigningOf[m] \in Key => OwnerOf[SigningOf[m]] = MasterOf[m]
    /\ \A m, n \in Manifest : SigningOf[m] = SigningOf[n] /\ SigningOf[m] # NoKey => m = n
    /\ NoKey \notin Key /\ Null \notin Master \cup BOOLEAN
    /\ MaxValidations \in Nat /\ MaxFailures \in Nat
BY RevocationsAssumption

LEMMA SuccessorRotates ==
    ASSUME NEW m \in Manifest, NEW k \in Key, SigningOf[m] = k, HasSuccessor(m)
    PROVE  Rotated(k)
<1>1. PICK n \in Manifest : /\ MasterOf[n] = MasterOf[m] /\ SeqOf[n] > SeqOf[m]
                            /\ failures = 0 => n \in Received
    BY DEF HasSuccessor
<1>2. OwnerOf[k] = MasterOf[m] /\ k # NoKey
    BY RevocationConstants
<1>3. n # m
    BY <1>1, RevocationConstants
<1>4. SigningOf[n] # k
    BY <1>2, <1>3, RevocationConstants
<1>. QED BY <1>1, <1>2, <1>4 DEF Rotated

LEMMA NewerSucceeds ==
    ASSUME NEW m \in Manifest, Saved \subseteq Manifest, Newer(m) # {}
    PROVE  HasSuccessor(m)
BY DEF Newer, HasSuccessor, Received

-----------------------------------------------------------------------------
(* Types. *)

LEMMA RevocationTypes ==
    ASSUME RevocationsTypeOK
    PROVE  /\ Saved \subseteq Manifest /\ manifests \in [Saved -> BOOLEAN]
           /\ DOMAIN validators \subseteq Key /\ validators \in [DOMAIN validators -> RowState]
           /\ DOMAIN saving \subseteq Manifest /\ saving \in [DOMAIN saving -> SaveState]
BY DEF RevocationsTypeOK, SaveState, RowState

(* A query that fails is counted. *)
LEMMA FailureCounted ==
    ASSUME RevocationsTypeOK, failures < MaxFailures, failures' = failures + 1
    PROVE  failures' \in 0..MaxFailures /\ failures' > 0
BY RevocationConstants DEF RevocationsTypeOK

LEMMA RevocationsInitTypes == RevocationsInit => RevocationsTypeOK
BY RevocationConstants DEF RevocationsInit, RevocationsTypeOK, Saved

(* saveManifest. *)
LEMMA SaveTypes ==
    ASSUME RevocationsTypeOK, NEW m \in Manifest,
           SaveManifest(m) \/ SaveQuery(m) \/ SaveQueryFails(m)
    PROVE  RevocationsTypeOK'
<1>. USE RevocationTypes
<1>1. CASE SaveManifest(m)
    <2>1. [query |-> "older", revoke |-> {}, revoked |-> FALSE] \in SaveState
        BY DEF SaveState
    <2>. QED BY <1>1, <2>1 DEF SaveManifest, RevocationsTypeOK, SaveState, RowState, Saved
<1>2. ASSUME At(m, "older") \/ At(m, "newer") \/ At(m, "validators") \/ At(m, "insert")
      PROVE  m \in DOMAIN saving /\ saving[m] \in SaveState
    BY <1>2 DEF At
<1>3. CASE RevokeOlder(m)
    <2>1. {SigningOf[n] : n \in Earlier(m)} \ {NoKey} \subseteq Key
        BY RevocationConstants DEF Earlier
    <2>2. [query |-> "newer", revoke |-> {SigningOf[n] : n \in Earlier(m)} \ {NoKey},
           revoked |-> FALSE] \in SaveState
        BY <2>1 DEF SaveState
    <2>3. saving' \in [DOMAIN saving -> SaveState] /\ DOMAIN saving' = DOMAIN saving
        BY <1>2, <1>3, <2>2 DEF RevokeOlder
    <2>4. manifests' \in [Saved -> BOOLEAN] /\ DOMAIN manifests' = Saved
        BY <1>3 DEF RevokeOlder, Saved
    <2>. QED BY <1>3, <2>3, <2>4 DEF RevokeOlder, RevocationsTypeOK, SaveState, RowState, Saved
<1>4. CASE FindNewer(m)
    <2>1. {SigningOf[m]} \ {NoKey} \subseteq Key
        BY RevocationConstants
    <2>2. saving[m] \in SaveState /\ m \in DOMAIN saving
        BY <1>2, <1>4 DEF FindNewer
    <2>3. [query |-> "validators", revoked |-> Newer(m) # {},
           revoke |-> saving[m].revoke \cup
                        (IF Newer(m) # {} THEN {SigningOf[m]} \ {NoKey} ELSE {})] \in SaveState
        BY <2>1, <2>2 DEF SaveState
    <2>4. saving' \in [DOMAIN saving -> SaveState] /\ DOMAIN saving' = DOMAIN saving
        BY <1>4, <2>2, <2>3 DEF FindNewer
    <2>. QED BY <1>4, <2>4 DEF FindNewer, RevocationsTypeOK, SaveState, RowState, Saved
<1>5. CASE RevokeValidators(m)
    <2>1. saving[m] \in SaveState /\ m \in DOMAIN saving
        BY <1>2, <1>5 DEF RevokeValidators
    <2>2. saving' \in [DOMAIN saving -> SaveState] /\ DOMAIN saving' = DOMAIN saving
        BY <1>5, <2>1 DEF RevokeValidators, SaveState
    <2>3. /\ validators' \in [DOMAIN validators -> RowState]
          /\ DOMAIN validators' = DOMAIN validators
          /\ \A k \in DOMAIN validators : validators'[k].revoked = Null => validators[k].revoked = Null
        BY <1>5, RevocationConstants DEF RevokeValidators, Revoking, RowState
    <2>4. wasRevoked' \subseteq Key
        BY <1>5, <2>1 DEF RevokeValidators, Revoking, SaveState, RevocationsTypeOK
    <2>. QED BY <1>5, <2>2, <2>3, <2>4 DEF RevokeValidators, RevocationsTypeOK, SaveState, RowState, Saved
<1>6. CASE InsertManifest(m)
    <2>1. saving[m] \in SaveState /\ m \in DOMAIN saving
        BY <1>2, <1>6 DEF InsertManifest
    <2>2. manifests' \in [Saved \cup {m} -> BOOLEAN] /\ DOMAIN manifests' = Saved \cup {m}
        BY <1>6, <2>1 DEF InsertManifest, SaveState
    <2>3. /\ saving' \in [DOMAIN saving \ {m} -> SaveState]
          /\ DOMAIN saving' = DOMAIN saving \ {m}
        BY <1>6 DEF InsertManifest
    <2>. QED BY <1>6, <2>2, <2>3 DEF InsertManifest, RevocationsTypeOK, SaveState, RowState, Saved
<1>7. CASE SaveQueryFails(m)
    <2>1. saving[m] \in SaveState /\ m \in DOMAIN saving
        BY <1>7 DEF SaveQueryFails
    <2>2. ASSUME NEW q \in {"newer", "validators", "insert"},
                 saving' = [saving EXCEPT ![m].query = q]
          PROVE  saving' \in [DOMAIN saving -> SaveState] /\ DOMAIN saving' = DOMAIN saving
        BY <2>1, <2>2 DEF SaveState
    <2>3. \/ \E q \in {"newer", "validators", "insert"} : saving' = [saving EXCEPT ![m].query = q]
          \/ saving' = [n \in DOMAIN saving \ {m} |-> saving[n]]
        <3>1. saving[m].query \in {"older", "newer", "validators", "insert"}
            BY <2>1 DEF SaveState
        <3>. QED BY <1>7, <2>1, <3>1 DEF SaveQueryFails, At
    <2>4. (DOMAIN saving)' \subseteq Manifest /\ saving' \in [(DOMAIN saving)' -> SaveState]
        BY <2>2, <2>3
    <2>5. failures' \in 0..MaxFailures /\ failures' > 0
        BY <1>7, FailureCounted DEF SaveQueryFails
    <2>. QED BY <1>7, <2>4, <2>5 DEF SaveQueryFails, RevocationsTypeOK, SaveState, RowState, Saved
<1>. QED BY <1>1, <1>3, <1>4, <1>5, <1>6, <1>7 DEF SaveQuery

(* saveValidator. *)
LEMMA ValidatorTypes ==
    ASSUME RevocationsTypeOK, NEW k \in Key,
           \/ InitializeRevoked(k) \/ ValidatorQueryFails(k)
           \/ \E master \in {OwnerOf[k], Null} : SaveValidator(k, master)
    PROVE  RevocationsTypeOK'
<1>. USE RevocationTypes
<1>1. CASE InitializeRevoked(k)
    <2>1. \A i \in DOMAIN validators :
             /\ Initialized(validators[i]) \in RowState
             /\ Initialized(validators[i]).revoked # Null
        <3>1. SUFFICES ASSUME NEW r \in RowState
                       PROVE  Initialized(r) \in RowState /\ Initialized(r).revoked # Null
            OBVIOUS
        <3>2. FALSE # Null
            BY RevocationConstants
        <3>3. CASE r.revoked = Null
            BY <3>1, <3>2, <3>3 DEF Initialized, RowState
        <3>4. CASE r.revoked # Null
            BY <3>1, <3>4 DEF Initialized
        <3>. QED BY <3>3, <3>4
    <2>2. /\ validators' \in [DOMAIN validators -> RowState]
          /\ DOMAIN validators' = DOMAIN validators
          /\ \A i \in DOMAIN validators :
                validators'[i].revoked = Null => validators[i].revoked = Null /\ i # k
        BY <1>1, <2>1 DEF InitializeRevoked
    <2>. QED BY <1>1, <2>2 DEF InitializeRevoked, RevocationsTypeOK, SaveState, RowState, Saved
<1>2. ASSUME NEW master \in {OwnerOf[k], Null}, SaveValidator(k, master)
      PROVE  RevocationsTypeOK'
    <2>1. [master_key |-> master,
           revoked |-> IF k \in DOMAIN validators THEN validators[k].revoked ELSE Null] \in RowState
        BY RevocationConstants DEF RowState
    <2>2. /\ validators' \in [DOMAIN validators \cup {k} -> RowState]
          /\ DOMAIN validators' = DOMAIN validators \cup {k}
          /\ \A i \in DOMAIN validators \ {k} : validators'[i] = validators[i]
        BY <1>2, <2>1 DEF SaveValidator
    <2>3. validations' \in 0..MaxValidations
        BY <1>2, RevocationConstants DEF SaveValidator, RevocationsTypeOK
    <2>. QED BY <1>2, <2>2, <2>3 DEF SaveValidator, RevocationsTypeOK, SaveState, RowState, Saved
<1>3. CASE ValidatorQueryFails(k)
    <2>1. failures' \in 0..MaxFailures /\ failures' > 0
        BY <1>3, FailureCounted DEF ValidatorQueryFails
    <2>2. validations' \in 0..MaxValidations
        BY <1>3, RevocationConstants DEF ValidatorQueryFails, RevocationsTypeOK
    <2>. QED BY <1>3, <2>1, <2>2 DEF ValidatorQueryFails, RevocationsTypeOK, Saved
<1>. QED BY <1>1, <1>2, <1>3

(* The jobs. *)
LEMMA JobTypes ==
    ASSUME RevocationsTypeOK, NEW j \in Job, JobQuery(j) \/ JobQueryFails(j)
    PROVE  RevocationsTypeOK'
<1>. USE RevocationTypes
<1>8. jobs' \in [Job -> {"idle", "masterKeys", "markRevoked", "markCurrent", "copy", "others",
                         "purgeRevoked", "purgeOld"}]
    <2>1. ASSUME NEW q, NEW r \in {"idle", "masterKeys", "markRevoked", "markCurrent", "copy",
                                   "others", "purgeRevoked", "purgeOld"}, Turn(j, q, r)
          PROVE  jobs' \in [Job -> {"idle", "masterKeys", "markRevoked", "markCurrent", "copy",
                                    "others", "purgeRevoked", "purgeOld"}]
        BY <2>1 DEF Turn, RevocationsTypeOK
    <2>. QED BY <2>1 DEF JobQuery, StartJobs, updateValidatorMasterKeys, MarkOldRevoked,
                MarkLatestCurrent, CopyRevoked, RevokeSuperseded, purgeRevokedValidators,
                purgeOldValidators, JobQueryFails
<1>1. CASE StartJobs(j)
    BY <1>1, <1>8 DEF StartJobs, RevocationsTypeOK, Saved
<1>9. CASE JobQueryFails(j)
    <2>1. failures' \in 0..MaxFailures /\ failures' > 0
        BY <1>9, FailureCounted DEF JobQueryFails
    <2>. QED BY <1>8, <1>9, <2>1 DEF JobQueryFails, RevocationsTypeOK, Saved
<1>2. CASE MarkOldRevoked(j) \/ MarkLatestCurrent(j)
    <2>1. DOMAIN manifests' = Saved /\ manifests' \in [Saved -> BOOLEAN]
        BY <1>2 DEF MarkOldRevoked, WithNewerRevoked, MarkLatestCurrent, Saved
    <2>. QED BY <1>2, <1>8, <2>1 DEF MarkOldRevoked, MarkLatestCurrent, RevocationsTypeOK,
                               SaveState, RowState, Saved
<1>3. ASSUME UNCHANGED <<manifests, saving, initializing, validations, failures>>,
             wasRevoked' \subseteq Key,
             DOMAIN validators' \subseteq DOMAIN validators,
             validators' \in [DOMAIN validators' -> RowState],
             \A k \in DOMAIN validators' : validators'[k].revoked = Null => validators[k].revoked = Null
      PROVE  RevocationsTypeOK'
    BY <1>3, <1>8 DEF RevocationsTypeOK, SaveState, RowState, Saved
<1>4. CASE updateValidatorMasterKeys(j)
    <2>1. \A k \in DOMAIN validators :
             /\ [validators[k] EXCEPT !.master_key = OwnerOf[k]] \in RowState
             /\ [validators[k] EXCEPT !.master_key = OwnerOf[k]].revoked = validators[k].revoked
        BY RevocationConstants DEF RowState
    <2>. QED BY <1>3, <1>4, <2>1 DEF updateValidatorMasterKeys, RevocationsTypeOK
<1>5. CASE CopyRevoked(j)
    <2>1. \A k \in DOMAIN validators, b \in BOOLEAN :
             /\ [validators[k] EXCEPT !.revoked = b] \in RowState
             /\ [validators[k] EXCEPT !.revoked = b].revoked # Null
        <3>1. \A b \in BOOLEAN : b # Null
            BY RevocationConstants
        <3>. QED BY <3>1 DEF RowState
    <2>2. \A k \in DOMAIN validators : (\E m \in ManifestOf(k) : manifests[m]) \in BOOLEAN
        OBVIOUS
    <2>. QED BY <1>3, <1>5, <2>1, <2>2 DEF CopyRevoked, RevocationsTypeOK
<1>6. CASE RevokeSuperseded(j)
    <2>1. \A k \in DOMAIN validators :
             /\ [validators[k] EXCEPT !.revoked = TRUE] \in RowState
             /\ [validators[k] EXCEPT !.revoked = TRUE].revoked # Null
        <3>1. TRUE # Null
            BY RevocationConstants
        <3>. QED BY <3>1 DEF RowState
    <2>. QED BY <1>3, <1>6, <2>1 DEF RevokeSuperseded, Revoking, RevocationsTypeOK
<1>7. CASE purgeRevokedValidators(j) \/ purgeOldValidators(j)
    BY <1>3, <1>7 DEF purgeRevokedValidators, purgeOldValidators, RevocationsTypeOK
<1>. QED BY <1>1, <1>2, <1>4, <1>5, <1>6, <1>7, <1>9 DEF JobQuery

LEMMA RevocationsStepTypes == RevocationsTypeOK /\ [RevocationsNext]_revocationVars => RevocationsTypeOK'
<1>1. ASSUME RevocationsTypeOK, UNCHANGED revocationVars PROVE RevocationsTypeOK'
    BY <1>1 DEF revocationVars, RevocationsTypeOK, Saved
<1>. QED BY <1>1, SaveTypes, ValidatorTypes, JobTypes DEF RevocationsNext

(* saveManifest, saveValidator, jobs - the tables keep their types, and a  *)
(* row whose revoked is still null is one saveValidator is about to        *)
(* initialize, whatever other queries come between its two and whichever   *)
(* of them fail.                                                           *)
THEOREM RevocationsTypeCorrect == RevocationsSpec => []RevocationsTypeOK
BY RevocationsInitTypes, RevocationsStepTypes, PTL DEF RevocationsSpec

-----------------------------------------------------------------------------
(* Who is revoked.  What a save has found and is about to write is right   *)
(* already, and the master key of a row is the one of its key, or none.    *)

FoundSuccessors ==
    \A m \in DOMAIN saving : /\ saving[m].revoked => HasSuccessor(m)
                             /\ \A k \in saving[m].revoke : Rotated(k)
OwnMaster == \A k \in DOMAIN validators : validators[k].master_key \in {OwnerOf[k], Null}

RevocationsInv ==
    /\ RevocationsTypeOK
    /\ FoundSuccessors
    /\ OwnMaster
    /\ RevokedBySuccessor
    /\ OnlyRotatedAreRevoked

(* What was received stays so, unless a save fails. *)
LEMMA StaysReceived ==
    ASSUME RevocationsTypeOK, [RevocationsNext]_revocationVars
    PROVE  /\ failures' = 0 => failures = 0 /\ Received \subseteq Received'
<1>1. ASSUME NEW m \in Manifest, SaveManifest(m) \/ SaveQuery(m)
      PROVE  failures' = failures /\ Received \subseteq Received'
    <2>1. CASE SaveManifest(m)
        BY <2>1 DEF SaveManifest, Received, Saved
    <2>2. CASE RevokeOlder(m)
        BY <2>2 DEF RevokeOlder, Received, Saved
    <2>3. CASE FindNewer(m)
        BY <2>3, RevocationTypes DEF FindNewer, Received, Saved
    <2>4. CASE RevokeValidators(m)
        BY <2>4, RevocationTypes DEF RevokeValidators, Received, Saved
    <2>5. CASE InsertManifest(m)
        BY <2>5 DEF InsertManifest, Received, Saved
    <2>. QED BY <1>1, <2>1, <2>2, <2>3, <2>4, <2>5 DEF SaveQuery
<1>2. ASSUME \/ \E m \in Manifest : SaveQueryFails(m)
             \/ \E k \in Key : ValidatorQueryFails(k)
             \/ \E j \in Job : JobQueryFails(j)
      PROVE  failures' > 0
    BY <1>2, FailureCounted DEF SaveQueryFails, ValidatorQueryFails, JobQueryFails
<1>3. ASSUME NEW k \in Key,
             InitializeRevoked(k) \/ \E master \in {OwnerOf[k], Null} : SaveValidator(k, master)
      PROVE  UNCHANGED <<manifests, saving, failures>>
    BY <1>3 DEF InitializeRevoked, SaveValidator
<1>4. ASSUME NEW j \in Job, JobQuery(j)
      PROVE  UNCHANGED <<saving, failures>> /\ Saved' = Saved
    BY <1>4 DEF JobQuery, StartJobs, updateValidatorMasterKeys, MarkOldRevoked, WithNewerRevoked,
                MarkLatestCurrent, CopyRevoked, RevokeSuperseded, purgeRevokedValidators,
                purgeOldValidators, Saved
<1>5. CASE UNCHANGED revocationVars
    BY <1>5 DEF revocationVars, Received, Saved
<1>. QED
  <2>1. CASE \/ \E m \in Manifest : SaveManifest(m) \/ SaveQuery(m)
             \/ UNCHANGED revocationVars
    BY <2>1, <1>1, <1>5 DEF revocationVars
  <2>2. CASE \/ \E m \in Manifest : SaveQueryFails(m)
             \/ \E k \in Key : ValidatorQueryFails(k)
             \/ \E j \in Job : JobQueryFails(j)
    BY <2>2, <1>2
  <2>3. CASE \/ \E k \in Key : \/ InitializeRevoked(k)
                               \/ \E master \in {OwnerOf[k], Null} : SaveValidator(k, master)
             \/ \E j \in Job : JobQuery(j)
    BY <2>3, <1>3, <1>4 DEF Received, Saved
  <2>. QED BY <2>1, <2>2, <2>3 DEF RevocationsNext

LEMMA SuccessorsStay ==
    ASSUME RevocationsTypeOK, [RevocationsNext]_revocationVars, NEW m \in Manifest, HasSuccessor(m)
    PROVE  HasSuccessor(m)'
BY StaysReceived DEF HasSuccessor

LEMMA RotatedStay ==
    ASSUME RevocationsTypeOK, [RevocationsNext]_revocationVars, NEW k \in Key, Rotated(k)
    PROVE  Rotated(k)'
BY StaysReceived DEF Rotated

(* How a step changes what is revoked, and what is about to be.            *)
LEMMA SavesKeep ==
    ASSUME RevocationsInv, [RevocationsNext]_revocationVars,
           NEW m \in Manifest, SaveManifest(m) \/ SaveQuery(m) \/ SaveQueryFails(m)
    PROVE  FoundSuccessors' /\ RevokedBySuccessor'
<1>. USE RevocationTypes DEF RevocationsInv
<1>1. ASSUME NEW n \in DOMAIN saving
      PROVE  /\ n \in Manifest /\ saving[n].revoke \subseteq Key
             /\ saving[n].revoked => HasSuccessor(n)'
             /\ \A k \in saving[n].revoke : Rotated(k)'
    BY <1>1, SuccessorsStay, RotatedStay DEF FoundSuccessors, SaveState
<1>2. ASSUME NEW n \in Saved, manifests[n]
      PROVE  HasSuccessor(n)'
    BY <1>2, SuccessorsStay DEF RevokedBySuccessor
<1>3. ASSUME NEW n \in DOMAIN saving', n = m \/ (n \in DOMAIN saving /\ saving'[n] = saving[n]),
             n = m => /\ saving'[n].revoked => HasSuccessor(n)'
                      /\ \A k \in saving'[n].revoke : Rotated(k)'
      PROVE  /\ saving'[n].revoked => HasSuccessor(n)'
             /\ \A k \in saving'[n].revoke : Rotated(k)'
    BY <1>1, <1>3
<1>4. CASE SaveManifest(m)
    <2>1. saving'[m].revoked = FALSE /\ saving'[m].revoke = {}
        BY <1>4 DEF SaveManifest
    <2>2. FoundSuccessors'
        BY <1>3, <1>4, <2>1 DEF FoundSuccessors, SaveManifest
    <2>3. RevokedBySuccessor'
        BY <1>2, <1>4 DEF RevokedBySuccessor, SaveManifest, Saved
    <2>. QED BY <2>2, <2>3
<1>5. CASE RevokeOlder(m)
    <2>1. ASSUME NEW n \in Earlier(m)
          PROVE  n \in Saved /\ HasSuccessor(n) /\ HasSuccessor(n)'
        BY <1>5, <2>1, SuccessorsStay DEF Earlier, HasSuccessor, Received, RevokeOlder, At
    <2>2. RevokedBySuccessor'
        BY <1>2, <1>5, <2>1 DEF RevokedBySuccessor, RevokeOlder, Saved
    <2>3. ASSUME NEW k \in {SigningOf[n] : n \in Earlier(m)} \ {NoKey}
          PROVE  Rotated(k)'
        <3>1. PICK n \in Earlier(m) : SigningOf[n] = k
            BY <2>3
        <3>2. n \in Manifest /\ k \in Key
            BY <2>1, <2>3, <3>1, RevocationConstants
        <3>. QED BY <2>1, <3>1, <3>2, SuccessorRotates, RotatedStay
    <2>4. /\ saving'[m].revoked = FALSE /\ DOMAIN saving' = DOMAIN saving
          /\ saving'[m].revoke = {SigningOf[n] : n \in Earlier(m)} \ {NoKey}
          /\ \A n \in DOMAIN saving \ {m} : saving'[n] = saving[n]
        BY <1>5 DEF RevokeOlder, At
    <2>5. FoundSuccessors'
        BY <1>3, <2>3, <2>4 DEF FoundSuccessors
    <2>. QED BY <2>2, <2>5
<1>6. CASE FindNewer(m)
    <2>1. /\ m \in DOMAIN saving /\ DOMAIN saving' = DOMAIN saving
          /\ saving'[m].revoked = (Newer(m) # {})
          /\ saving'[m].revoke = saving[m].revoke \cup
                                   (IF Newer(m) # {} THEN {SigningOf[m]} \ {NoKey} ELSE {})
          /\ \A n \in DOMAIN saving \ {m} : saving'[n] = saving[n]
        BY <1>6 DEF FindNewer, At
    <2>2. ASSUME Newer(m) # {} PROVE HasSuccessor(m) /\ HasSuccessor(m)'
        BY <2>2, NewerSucceeds, SuccessorsStay
    <2>3. ASSUME NEW k \in saving'[m].revoke PROVE Rotated(k)'
        <3>1. CASE k \in saving[m].revoke
            BY <1>1, <2>1, <3>1
        <3>2. CASE k \notin saving[m].revoke
            <4>1. k = SigningOf[m] /\ k \in Key /\ Newer(m) # {}
                BY <2>1, <2>3, <3>2, RevocationConstants
            <4>. QED BY <2>2, <4>1, SuccessorRotates, RotatedStay
        <3>. QED BY <3>1, <3>2
    <2>4. FoundSuccessors'
        BY <1>3, <2>1, <2>2, <2>3 DEF FoundSuccessors
    <2>5. RevokedBySuccessor'
        BY <1>2, <1>6 DEF RevokedBySuccessor, FindNewer, Saved
    <2>. QED BY <2>4, <2>5
<1>7. CASE RevokeValidators(m) \/ (SaveQueryFails(m) /\ ~At(m, "insert"))
    <2>1. \E q \in {"newer", "validators", "insert"} : saving' = [saving EXCEPT ![m].query = q]
        <3>1. m \in DOMAIN saving /\ saving[m].query \in {"older", "newer", "validators", "insert"}
            BY <1>7 DEF RevokeValidators, SaveQueryFails, At, SaveState
        <3>. QED BY <1>7, <3>1 DEF RevokeValidators, SaveQueryFails, At
    <2>2. /\ DOMAIN saving' = DOMAIN saving
          /\ \A n \in DOMAIN saving : /\ saving'[n].revoked = saving[n].revoked
                                      /\ saving'[n].revoke = saving[n].revoke
        BY <2>1 DEF SaveState
    <2>3. FoundSuccessors'
        BY <1>1, <2>2 DEF FoundSuccessors
    <2>4. RevokedBySuccessor'
        BY <1>2, <1>7 DEF RevokedBySuccessor, RevokeValidators, SaveQueryFails, Saved
    <2>. QED BY <2>3, <2>4
<1>8. CASE InsertManifest(m) \/ (SaveQueryFails(m) /\ At(m, "insert"))
    <2>1. m \in DOMAIN saving /\ saving' = [n \in DOMAIN saving \ {m} |-> saving[n]]
        BY <1>8 DEF InsertManifest, SaveQueryFails, At
    <2>2. FoundSuccessors'
        BY <1>1, <2>1 DEF FoundSuccessors
    <2>3. RevokedBySuccessor'
        <3>1. ASSUME NEW n \in Saved', manifests'[n]
              PROVE  (n \in Saved /\ manifests[n]) \/ (n = m /\ saving[m].revoked)
            BY <1>8, <3>1 DEF InsertManifest, SaveQueryFails, Saved
        <3>. QED BY <1>1, <1>2, <2>1, <3>1 DEF RevokedBySuccessor
    <2>. QED BY <2>2, <2>3
<1>. QED BY <1>4, <1>5, <1>6, <1>7, <1>8 DEF SaveQuery

(* The rows.  A step that revokes some of them does so to rotated keys.    *)
LEMMA RowsKeep ==
    ASSUME RevocationsInv, [RevocationsNext]_revocationVars
    PROVE  OwnMaster' /\ OnlyRotatedAreRevoked'
<1>. USE RevocationTypes DEF RevocationsInv
<1>1. ASSUME NEW k \in DOMAIN validators, validators[k].revoked = TRUE
      PROVE  Rotated(k)'
    BY <1>1, RotatedStay DEF OnlyRotatedAreRevoked
<1>2. ASSUME \A k \in DOMAIN validators' :
                /\ k \in Key /\ validators'[k].master_key \in {OwnerOf[k], Null}
                /\ validators'[k].revoked = TRUE =>
                      (k \in DOMAIN validators /\ validators[k].revoked = TRUE) \/ Rotated(k)'
      PROVE  OwnMaster' /\ OnlyRotatedAreRevoked'
    BY <1>1, <1>2 DEF OwnMaster, OnlyRotatedAreRevoked
<1>3. CASE UNCHANGED validators
    BY <1>2, <1>3 DEF OwnMaster
<1>4. ASSUME NEW K, Revoking(K), \A k \in K \cap DOMAIN validators : Rotated(k)'
      PROVE  OwnMaster' /\ OnlyRotatedAreRevoked'
    <2>1. /\ DOMAIN validators' = DOMAIN validators
          /\ \A k \in DOMAIN validators :
                /\ validators'[k].master_key = validators[k].master_key
                /\ validators'[k].revoked = TRUE => validators[k].revoked = TRUE \/ k \in K
        BY <1>4 DEF Revoking, RowState
    <2>. QED BY <1>2, <1>4, <2>1 DEF OwnMaster
<1>5. ASSUME NEW m \in Manifest, RevokeValidators(m)
      PROVE  OwnMaster' /\ OnlyRotatedAreRevoked'
    <2>1. \A k \in saving[m].revoke : k \in Key /\ Rotated(k)
        BY <1>5 DEF RevokeValidators, At, FoundSuccessors, SaveState
    <2>. QED BY <1>4, <1>5, <2>1, RotatedStay DEF RevokeValidators
<1>6. ASSUME NEW k \in Key, NEW master \in {OwnerOf[k], Null}, SaveValidator(k, master)
      PROVE  OwnMaster' /\ OnlyRotatedAreRevoked'
    <2>1. validators'[k] =
              [master_key |-> master,
               revoked |-> IF k \in DOMAIN validators THEN validators[k].revoked ELSE Null]
        BY <1>6 DEF SaveValidator
    <2>2. /\ DOMAIN validators' = DOMAIN validators \cup {k}
          /\ \A i \in DOMAIN validators \ {k} : validators'[i] = validators[i]
        BY <1>6 DEF SaveValidator
    <2>3. Null # TRUE
        BY RevocationConstants
    <2>4. /\ validators'[k].master_key = master
          /\ validators'[k].revoked = TRUE => k \in DOMAIN validators /\ validators[k].revoked = TRUE
        <3>1. /\ validators'[k].master_key = master
              /\ validators'[k].revoked = IF k \in DOMAIN validators THEN validators[k].revoked ELSE Null
            BY <2>1
        <3>. QED BY <2>3, <3>1
    <2>5. ASSUME NEW i \in DOMAIN validators'
          PROVE  /\ i \in Key /\ validators'[i].master_key \in {OwnerOf[i], Null}
                 /\ validators'[i].revoked = TRUE => i \in DOMAIN validators /\ validators[i].revoked = TRUE
        <3>1. CASE i = k
            BY <2>4, <3>1
        <3>2. CASE i # k
            BY <2>2, <3>2 DEF OwnMaster
        <3>. QED BY <3>1, <3>2
    <2>. QED BY <1>2, <2>5
<1>7. ASSUME NEW k \in Key, InitializeRevoked(k)
      PROVE  OwnMaster' /\ OnlyRotatedAreRevoked'
    <2>1. \A r \in RowState : /\ Initialized(r).master_key = r.master_key
                              /\ Initialized(r).revoked = TRUE => r.revoked = TRUE
        BY DEF Initialized, RowState
    <2>2. /\ DOMAIN validators' = DOMAIN validators
          /\ \A i \in DOMAIN validators :
                validators'[i] = validators[i] \/ validators'[i] = Initialized(validators[i])
        BY <1>7 DEF InitializeRevoked
    <2>. QED BY <1>2, <2>1, <2>2 DEF OwnMaster
<1>8. ASSUME NEW j \in Job, updateValidatorMasterKeys(j)
      PROVE  OwnMaster' /\ OnlyRotatedAreRevoked'
    <2>1. /\ DOMAIN validators' = DOMAIN validators
          /\ \A k \in DOMAIN validators :
                /\ validators'[k].master_key \in {validators[k].master_key, OwnerOf[k]}
                /\ validators'[k].revoked = validators[k].revoked
        BY <1>8 DEF updateValidatorMasterKeys, RowState
    <2>. QED BY <1>2, <2>1 DEF OwnMaster
<1>9. ASSUME NEW j \in Job, CopyRevoked(j)
      PROVE  OwnMaster' /\ OnlyRotatedAreRevoked'
    <2>1. ASSUME NEW k \in DOMAIN validators, NEW m \in ManifestOf(k), manifests[m]
          PROVE  Rotated(k)'
        <3>1. m \in Manifest /\ SigningOf[m] = k /\ HasSuccessor(m)
            BY <2>1 DEF ManifestOf, RevokedBySuccessor
        <3>. QED BY <3>1, SuccessorRotates, RotatedStay
    <2>2. /\ DOMAIN validators' = DOMAIN validators
          /\ \A k \in DOMAIN validators :
                /\ validators'[k].master_key = validators[k].master_key
                /\ \/ validators'[k] = validators[k]
                   \/ validators'[k].revoked = \E m \in ManifestOf(k) : manifests[m]
        BY <1>9 DEF CopyRevoked, RowState
    <2>3. ASSUME NEW k \in DOMAIN validators, validators'[k].revoked = TRUE
          PROVE  validators[k].revoked = TRUE \/ Rotated(k)'
        <3>1. CASE validators'[k] = validators[k]
            BY <2>3, <3>1
        <3>2. CASE validators'[k].revoked = \E m \in ManifestOf(k) : manifests[m]
            BY <2>1, <2>3, <3>2
        <3>. QED BY <2>2, <3>1, <3>2
    <2>. QED BY <1>2, <2>2, <2>3 DEF OwnMaster
<1>10. ASSUME NEW j \in Job, RevokeSuperseded(j)
       PROVE  OwnMaster' /\ OnlyRotatedAreRevoked'
    <2>1. ASSUME NEW k \in Superseded PROVE k \in Key /\ Rotated(k)
        <3>1. k \in DOMAIN validators /\ k \in Key
            BY <2>1 DEF Superseded
        <3>2. PICK m \in Saved : /\ MasterOf[m] = validators[k].master_key
                                 /\ SigningOf[m] # k
            BY <2>1 DEF Superseded
        <3>3. MasterOf[m] = OwnerOf[k]
            BY <3>1, <3>2, RevocationConstants DEF OwnMaster
        <3>. QED BY <3>1, <3>2, <3>3 DEF Rotated, Received
    <2>2. \A k \in Superseded : Rotated(k)'
        BY <2>1, RotatedStay
    <2>. QED BY <1>4, <1>10, <2>2 DEF RevokeSuperseded
<1>11. ASSUME NEW j \in Job, purgeRevokedValidators(j) \/ purgeOldValidators(j)
       PROVE  OwnMaster' /\ OnlyRotatedAreRevoked'
    <2>1. /\ DOMAIN validators' \subseteq DOMAIN validators
          /\ \A k \in DOMAIN validators' : validators'[k] = validators[k]
        BY <1>11 DEF purgeRevokedValidators, purgeOldValidators
    <2>. QED BY <1>2, <2>1 DEF OwnMaster
<1>12. ASSUME \/ UNCHANGED revocationVars
              \/ \E m \in Manifest : \/ SaveManifest(m) \/ RevokeOlder(m) \/ FindNewer(m)
                                     \/ InsertManifest(m) \/ SaveQueryFails(m)
              \/ \E k \in Key : ValidatorQueryFails(k)
              \/ \E j \in Job : \/ StartJobs(j) \/ MarkOldRevoked(j) \/ MarkLatestCurrent(j)
                                \/ JobQueryFails(j)
       PROVE  UNCHANGED validators
    BY <1>12 DEF revocationVars, SaveManifest, RevokeOlder, FindNewer, InsertManifest, SaveQueryFails,
                 ValidatorQueryFails, StartJobs, MarkOldRevoked, MarkLatestCurrent, JobQueryFails
<1>. QED BY <1>3, <1>5, <1>6, <1>7, <1>8, <1>9, <1>10, <1>11, <1>12
         DEF RevocationsNext, SaveQuery, JobQuery

(* The jobs and the validations leave alone what is being saved.           *)
LEMMA OthersKeep ==
    ASSUME RevocationsInv, [RevocationsNext]_revocationVars,
           \/ UNCHANGED revocationVars
           \/ \E k \in Key : \/ InitializeRevoked(k) \/ ValidatorQueryFails(k)
                             \/ \E master \in {OwnerOf[k], Null} : SaveValidator(k, master)
           \/ \E j \in Job : JobQuery(j) \/ JobQueryFails(j)
    PROVE  FoundSuccessors' /\ RevokedBySuccessor'
<1>. USE RevocationTypes DEF RevocationsInv
<1>1. UNCHANGED saving
    BY DEF revocationVars, InitializeRevoked, ValidatorQueryFails, SaveValidator, JobQuery,
           StartJobs, updateValidatorMasterKeys, MarkOldRevoked, MarkLatestCurrent, CopyRevoked,
           RevokeSuperseded, purgeRevokedValidators, purgeOldValidators, JobQueryFails
<1>2. FoundSuccessors'
    BY <1>1, SuccessorsStay, RotatedStay DEF FoundSuccessors, SaveState
<1>3. \A m \in Saved : Newer(m) # {} => HasSuccessor(m)
    BY NewerSucceeds
<1>4. Saved' = Saved /\ \A m \in Saved : manifests'[m] => manifests[m] \/ HasSuccessor(m)
    BY <1>3 DEF revocationVars, InitializeRevoked, ValidatorQueryFails, SaveValidator, JobQuery,
           StartJobs, updateValidatorMasterKeys, MarkOldRevoked, WithNewerRevoked, Saved,
           MarkLatestCurrent, CopyRevoked, RevokeSuperseded, purgeRevokedValidators,
           purgeOldValidators, JobQueryFails
<1>5. RevokedBySuccessor'
    BY <1>4, SuccessorsStay DEF RevokedBySuccessor
<1>. QED BY <1>2, <1>5

LEMMA RevocationsStep == RevocationsInv /\ [RevocationsNext]_revocationVars => RevocationsInv'
<1>1. SUFFICES ASSUME RevocationsInv, [RevocationsNext]_revocationVars PROVE RevocationsInv'
    OBVIOUS
<1>2. RevocationsTypeOK'
    BY <1>1, RevocationsStepTypes DEF RevocationsInv
<1>3. OwnMaster' /\ OnlyRotatedAreRevoked'
    BY <1>1, RowsKeep
<1>4. FoundSuccessors' /\ RevokedBySuccessor'
    BY <1>1, SavesKeep, OthersKeep DEF RevocationsNext
<1>. QED BY <1>2, <1>3, <1>4 DEF RevocationsInv

LEMMA RevocationsAlways == RevocationsSpec => []RevocationsInv
<1>1. RevocationsInit => RevocationsInv
    BY RevocationsInitTypes
    DEF RevocationsInit, RevocationsInv, FoundSuccessors, OwnMaster, RevokedBySuccessor,
        OnlyRotatedAreRevoked, Saved
<1>. QED BY <1>1, RevocationsStep, PTL DEF RevocationsSpec

(* handleRevocations and updateManifestRevocations - a manifest is marked  *)
(* revoked only if a newer one of its master was received: the latest      *)
(* stays current, whatever saves and runs of the jobs overlap.             *)
THEOREM LatestStaysCurrent == RevocationsSpec => []RevokedBySuccessor
<1>1. RevocationsInv => RevokedBySuccessor
    BY DEF RevocationsInv
<1>. QED BY <1>1, RevocationsAlways, PTL

(* handleRevocations and updateRevocations - no interleaving of them, and  *)
(* no failed query, revokes the row of a validator that never gave its key *)
(* away (and purgeRevokedValidators deletes revoked rows only).            *)
THEOREM UnrotatedAreKept == RevocationsSpec => []OnlyRotatedAreRevoked
<1>1. RevocationsInv => OnlyRotatedAreRevoked
    BY DEF RevocationsInv
<1>. QED BY <1>1, RevocationsAlways, PTL

-----------------------------------------------------------------------------
(* What the jobs repair.  As long as no query fails and no new manifest    *)
(* comes, the saved manifests stay the same; saves of them, validations    *)
(* and runs of the jobs go on.                                             *)

OldAreMarked == \A m \in Saved : Newer(m) # {} => manifests[m]
Repairing == RevocationsTypeOK /\ OnlySavedAgain

LEMMA NoFailure ==
    ASSUME failures' = failures, failures \in Nat
    PROVE  ~ (\/ \E m \in Manifest : SaveQueryFails(m)
              \/ \E k \in Key : ValidatorQueryFails(k)
              \/ \E j \in Job : JobQueryFails(j))
<1>1. failures + 1 # failures
    OBVIOUS
<1>2. ASSUME \/ \E m \in Manifest : SaveQueryFails(m)
             \/ \E k \in Key : ValidatorQueryFails(k)
             \/ \E j \in Job : JobQueryFails(j)
      PROVE  failures' = failures + 1
    BY <1>2, Zenon DEF SaveQueryFails, ValidatorQueryFails, JobQueryFails
<1>. QED BY <1>1, <1>2

LEMMA QuietKeeps ==
    ASSUME Repairing, [QuietStep]_revocationVars
    PROVE  /\ Repairing'
           /\ Saved' = Saved /\ \A m \in Manifest : Newer(m)' = Newer(m)
           /\ OldAreMarked => OldAreMarked'
           /\ Settled => Settled'
<1>. USE RevocationTypes DEF Repairing
<1>0. RevocationsTypeOK'
    BY RevocationsStepTypes DEF QuietStep
<1>1. /\ DOMAIN saving \subseteq Saved /\ failures' = failures /\ failures \in Nat
      /\ DOMAIN saving' \subseteq Saved
    BY DEF OnlySavedAgain, RevocationsTypeOK, QuietStep, revocationVars
<1>2. ASSUME Saved' = Saved
      PROVE  \A m \in Manifest : Newer(m)' = Newer(m) /\ Earlier(m)' = Earlier(m)
    BY <1>2 DEF Newer, Earlier
<1>3. ASSUME NEW m \in Manifest, SaveManifest(m) \/ SaveQuery(m)
      PROVE  Saved' = Saved /\ OnlySavedAgain'
             /\ (OldAreMarked => OldAreMarked') /\ (Settled => Settled')
    <2>1. m \in Saved
        BY <1>1, <1>3 DEF SaveManifest, SaveQuery, RevokeOlder, FindNewer, RevokeValidators,
                          InsertManifest, At
    <2>2. ASSUME Saved' = Saved,
                 \A n \in DOMAIN saving' \ {m} : n \in DOMAIN saving /\ saving'[n] = saving[n],
                 m \in DOMAIN saving' /\ saving'[m].query \in {"validators", "insert"} =>
                    saving'[m].revoked = (Newer(m) # {})
          PROVE  OnlySavedAgain'
        <3>1. ASSUME NEW n \in DOMAIN saving'
              PROVE  /\ n \in Saved'
                     /\ saving'[n].query \in {"validators", "insert"} =>
                           saving'[n].revoked = (Newer(n)' # {})
            <4>1. n \in Saved /\ n \in Manifest /\ Newer(n)' = Newer(n)
                BY <1>1, <1>2, <2>2, <3>1
            <4>2. CASE n = m
                BY <2>2, <4>1, <4>2
            <4>3. CASE n # m
                BY <2>2, <4>1, <4>3 DEF OnlySavedAgain
            <4>. QED BY <2>2, <4>1, <4>2, <4>3
        <3>. QED BY <3>1 DEF OnlySavedAgain
    <2>3. ASSUME Saved' = Saved, \A n \in Saved : manifests'[n] = manifests[n] \/ (manifests'[n] <=> Newer(n) # {})
          PROVE  (OldAreMarked => OldAreMarked') /\ (Settled => Settled')
        <3>1. \A n \in Saved : Newer(n)' = Newer(n)
            BY <1>2, <2>3
        <3>2. OldAreMarked => OldAreMarked'
            BY <2>3, <3>1 DEF OldAreMarked
        <3>3. Settled => Settled'
            BY <2>3, <3>1 DEF Settled
        <3>. QED BY <3>2, <3>3
    <2>4. CASE SaveManifest(m)
        <3>1. Saved' = Saved /\ manifests' = manifests
            BY <2>4 DEF SaveManifest, Saved
        <3>2. /\ \A n \in DOMAIN saving' \ {m} : n \in DOMAIN saving /\ saving'[n] = saving[n]
              /\ saving'[m].query = "older"
            BY <2>4 DEF SaveManifest
        <3>. QED BY <2>2, <2>3, <3>1, <3>2
    <2>5. CASE RevokeOlder(m)
        <3>1. /\ Saved' = Saved
              /\ \A n \in Saved : manifests'[n] = (manifests[n] \/ n \in Earlier(m))
            BY <2>5 DEF RevokeOlder, Saved
        <3>2. \A n \in Earlier(m) : m \in Newer(n)
            BY <2>1, RevocationConstants DEF Earlier, Newer
        <3>3. /\ \A n \in DOMAIN saving' \ {m} : n \in DOMAIN saving /\ saving'[n] = saving[n]
              /\ saving'[m].query = "newer"
            BY <2>5 DEF RevokeOlder, At
        <3>4. \A n \in Saved : manifests'[n] = manifests[n] \/ (manifests'[n] <=> Newer(n) # {})
            BY <3>1, <3>2
        <3>. QED BY <2>2, <2>3, <3>1, <3>3, <3>4
    <2>6. CASE FindNewer(m)
        <3>1. Saved' = Saved /\ manifests' = manifests
            BY <2>6 DEF FindNewer, Saved
        <3>2. /\ \A n \in DOMAIN saving' \ {m} : n \in DOMAIN saving /\ saving'[n] = saving[n]
              /\ saving'[m].revoked = (Newer(m) # {})
            BY <2>6 DEF FindNewer, At
        <3>. QED BY <2>2, <2>3, <3>1, <3>2
    <2>7. CASE RevokeValidators(m)
        <3>1. Saved' = Saved /\ manifests' = manifests
            BY <2>7 DEF RevokeValidators, Saved
        <3>2. /\ \A n \in DOMAIN saving' \ {m} : n \in DOMAIN saving /\ saving'[n] = saving[n]
              /\ saving'[m].revoked = saving[m].revoked
              /\ m \in DOMAIN saving /\ saving[m].query = "validators"
            BY <2>7 DEF RevokeValidators, At, SaveState
        <3>3. saving[m].revoked = (Newer(m) # {})
            BY <3>2 DEF OnlySavedAgain
        <3>. QED BY <2>2, <2>3, <3>1, <3>2, <3>3
    <2>8. CASE InsertManifest(m)
        <3>1. /\ Saved' = Saved
              /\ \A n \in Saved : manifests'[n] = IF n = m THEN saving[m].revoked ELSE manifests[n]
            BY <2>1, <2>8 DEF InsertManifest, Saved
        <3>2. saving[m].revoked = (Newer(m) # {})
            BY <2>8 DEF InsertManifest, At, OnlySavedAgain
        <3>3. /\ m \notin DOMAIN saving'
              /\ \A n \in DOMAIN saving' : n \in DOMAIN saving /\ saving'[n] = saving[n]
            BY <2>8 DEF InsertManifest
        <3>4. \A n \in Saved : manifests'[n] = manifests[n] \/ (manifests'[n] <=> Newer(n) # {})
            BY <3>1, <3>2
        <3>. QED BY <2>2, <2>3, <3>1, <3>3, <3>4
    <2>. QED BY <1>3, <2>4, <2>5, <2>6, <2>7, <2>8 DEF SaveQuery
<1>4. ASSUME UNCHANGED <<manifests, saving>>
      PROVE  Saved' = Saved /\ OnlySavedAgain' /\ (OldAreMarked => OldAreMarked') /\ (Settled => Settled')
    <2>1. Saved' = Saved /\ \A m \in Saved : Newer(m)' = Newer(m)
        BY <1>2, <1>4 DEF Saved
    <2>. QED BY <1>4, <2>1 DEF OnlySavedAgain, OldAreMarked, Settled
<1>5. ASSUME NEW j \in Job, MarkOldRevoked(j) \/ MarkLatestCurrent(j)
      PROVE  Saved' = Saved /\ OnlySavedAgain' /\ (OldAreMarked => OldAreMarked') /\ (Settled => Settled')
    <2>1. /\ saving' = saving /\ Saved' = Saved
          /\ \A m \in Saved : /\ manifests'[m] => manifests[m] \/ Newer(m) # {}
                              /\ manifests[m] /\ Newer(m) # {} => manifests'[m]
        BY <1>5 DEF MarkOldRevoked, WithNewerRevoked, MarkLatestCurrent, Saved
    <2>2. \A m \in Saved : Newer(m)' = Newer(m)
        BY <1>2, <2>1
    <2>. QED BY <2>1, <2>2 DEF OnlySavedAgain, OldAreMarked, Settled
<1>6. ASSUME ~UNCHANGED <<manifests, saving>>
      PROVE  \/ \E m \in Manifest : SaveManifest(m) \/ SaveQuery(m)
             \/ \E j \in Job : MarkOldRevoked(j) \/ MarkLatestCurrent(j)
    <2>1. RevocationsNext
        BY <1>6 DEF QuietStep, revocationVars
    <2>2. ~ (\/ \E m \in Manifest : SaveQueryFails(m)
             \/ \E k \in Key : ValidatorQueryFails(k)
             \/ \E j \in Job : JobQueryFails(j))
        BY <1>1, NoFailure
    <2>3. ASSUME \E k \in Key : \/ InitializeRevoked(k)
                                \/ \E master \in {OwnerOf[k], Null} : SaveValidator(k, master)
          PROVE  FALSE
        BY <1>6, <2>3 DEF InitializeRevoked, SaveValidator
    <2>4. ASSUME NEW j \in Job, JobQuery(j)
          PROVE  MarkOldRevoked(j) \/ MarkLatestCurrent(j)
        BY <1>6, <2>4 DEF JobQuery, StartJobs, updateValidatorMasterKeys, CopyRevoked,
           RevokeSuperseded, purgeRevokedValidators, purgeOldValidators
    <2>. QED BY <2>1, <2>2, <2>3, <2>4 DEF RevocationsNext
<1>7. Saved' = Saved /\ OnlySavedAgain' /\ (OldAreMarked => OldAreMarked') /\ (Settled => Settled')
    BY <1>3, <1>4, <1>5, <1>6
<1>. QED BY <1>0, <1>2, <1>7

(* The next query of a run of the jobs is made by that run only.           *)
LEMMA OwnTurn ==
    ASSUME Repairing, [QuietStep]_revocationVars, NEW j \in Job, jobs'[j] # jobs[j]
    PROVE  JobQuery(j)
<1>1. \A q, r : \A i \in Job : Turn(i, q, r) => i = j
    BY DEF Turn, Repairing, RevocationsTypeOK
<1>2. failures' = failures /\ failures \in Nat
    BY DEF Repairing, RevocationsTypeOK, QuietStep, revocationVars
<1>3. PICK i \in Job : JobQuery(i)
    <2>1. RevocationsNext
        BY DEF QuietStep, revocationVars
    <2>2. ~ (\/ \E m \in Manifest : SaveQueryFails(m)
             \/ \E k \in Key : ValidatorQueryFails(k)
             \/ \E i \in Job : JobQueryFails(i))
        BY <1>2, NoFailure
    <2>3. ASSUME \/ \E m \in Manifest : SaveManifest(m) \/ SaveQuery(m)
                 \/ \E k \in Key :
                        \/ InitializeRevoked(k)
                        \/ \E master \in {OwnerOf[k], Null} : SaveValidator(k, master)
          PROVE  jobs' = jobs
        BY <2>3 DEF SaveManifest, SaveQuery, RevokeOlder, FindNewer, RevokeValidators,
           InsertManifest, InitializeRevoked, SaveValidator
    <2>. QED BY <2>1, <2>2, <2>3 DEF RevocationsNext
<1>4. i = j
    BY <1>1, <1>3 DEF JobQuery, StartJobs, updateValidatorMasterKeys, MarkOldRevoked,
       MarkLatestCurrent, CopyRevoked, RevokeSuperseded, purgeRevokedValidators,
       purgeOldValidators
<1>. QED BY <1>3, <1>4

(* index.ts:99-101 - "the manifests job recomputes the revoked columns     *)
(* every cycle, so a missed update is repaired there".  Columns that are   *)
(* right stay right, whatever saved manifests are saved again and whichever*)
(* runs of the jobs overlap, as long as no query fails and no new manifest *)
(* comes.                                                                  *)
THEOREM SettledStays ==
    RevocationsTypeOK /\ OnlySavedAgain /\ Settled /\ [][QuietStep]_revocationVars => []Settled
<1>1. Repairing /\ Settled /\ [QuietStep]_revocationVars => Repairing' /\ Settled'
    BY QuietKeeps
<1>2. RevocationsTypeOK /\ OnlySavedAgain => Repairing
    BY DEF Repairing
<1>. QED BY <1>1, <1>2, PTL

(* ... and one run of the jobs gets there from any state, wrong as the     *)
(* columns may be: once it is past updateManifestRevocations, they are     *)
(* right, though other runs and saves of saved manifests come in between.  *)
THEOREM OneRunRepairs ==
    ASSUME NEW j \in Job
    PROVE  /\ RevocationsTypeOK /\ OnlySavedAgain /\ jobs[j] = "masterKeys"
           /\ [][QuietStep]_revocationVars
           => [](jobs[j] \in {"masterKeys", "markRevoked", "markCurrent"} \/ Settled)
<1>. DEFINE Begun == \/ jobs[j] \in {"masterKeys", "markRevoked"}
                     \/ jobs[j] = "markCurrent" /\ OldAreMarked
                     \/ Settled
<1>1. ASSUME Repairing, Begun, [QuietStep]_revocationVars PROVE Begun'
    <2>1. /\ Saved' = Saved /\ \A m \in Saved : m \in Manifest /\ Newer(m)' = Newer(m)
          /\ OldAreMarked => OldAreMarked'
          /\ Settled => Settled'
          /\ jobs \in [Job -> {"idle", "masterKeys", "markRevoked", "markCurrent", "copy", "others",
                               "purgeRevoked", "purgeOld"}]
        BY <1>1, QuietKeeps, RevocationTypes DEF Repairing, RevocationsTypeOK
    <2>2. CASE jobs'[j] = jobs[j]
        BY <1>1, <2>1, <2>2
    <2>3. CASE Settled
        BY <2>1, <2>3
    <2>4. ASSUME jobs'[j] # jobs[j] PROVE JobQuery(j)
        BY <1>1, <2>4, OwnTurn
    <2>5. CASE jobs'[j] # jobs[j] /\ jobs[j] = "masterKeys"
        <3>1. jobs'[j] = "markRevoked"
            BY <2>1, <2>4, <2>5 DEF JobQuery, StartJobs, updateValidatorMasterKeys, MarkOldRevoked,
               MarkLatestCurrent, CopyRevoked, RevokeSuperseded, purgeRevokedValidators,
               purgeOldValidators, Turn
        <3>. QED BY <3>1
    <2>6. CASE jobs'[j] # jobs[j] /\ jobs[j] = "markRevoked"
        <3>1. MarkOldRevoked(j)
            BY <2>4, <2>6 DEF JobQuery, StartJobs, updateValidatorMasterKeys,
               MarkLatestCurrent, CopyRevoked, RevokeSuperseded, purgeRevokedValidators,
               purgeOldValidators, Turn
        <3>2. jobs'[j] = "markCurrent"
            BY <2>1, <3>1 DEF MarkOldRevoked, Turn
        <3>3. \A m \in Saved : Newer(m) # {} => manifests'[m]
            BY <3>1 DEF MarkOldRevoked, WithNewerRevoked
        <3>4. OldAreMarked'
            BY <2>1, <3>3 DEF OldAreMarked
        <3>. QED BY <3>2, <3>4
    <2>7. CASE jobs'[j] # jobs[j] /\ jobs[j] = "markCurrent" /\ OldAreMarked
        <3>1. MarkLatestCurrent(j)
            BY <2>4, <2>7 DEF JobQuery, StartJobs, updateValidatorMasterKeys, MarkOldRevoked,
               CopyRevoked, RevokeSuperseded, purgeRevokedValidators, purgeOldValidators, Turn
        <3>2. \A m \in Saved : manifests'[m] <=> manifests[m] /\ Newer(m) # {}
            BY <3>1 DEF MarkLatestCurrent
        <3>3. Settled'
            BY <2>1, <2>7, <3>2 DEF OldAreMarked, Settled
        <3>. QED BY <3>3
    <2>. QED BY <1>1, <2>2, <2>3, <2>5, <2>6, <2>7
<1>2. Repairing /\ [QuietStep]_revocationVars => Repairing'
    BY QuietKeeps
<1>3. /\ RevocationsTypeOK /\ OnlySavedAgain /\ jobs[j] = "masterKeys" => Repairing /\ Begun
      /\ Begun => jobs[j] \in {"masterKeys", "markRevoked", "markCurrent"} \/ Settled
    BY DEF Repairing
<1>. HIDE DEF Begun
<1>. QED BY <1>1, <1>2, <1>3, PTL

-----------------------------------------------------------------------------
(* What the jobs purge.  The numbers of a master's manifests tell which is *)
(* later.                                                                  *)

OneManifestPerSeq ==
    \A m, n \in Manifest : MasterOf[m] = MasterOf[n] /\ SeqOf[m] = SeqOf[n] => m = n

(* What each query of a run that is past updateManifestRevocations leaves. *)
SavedOldAreRevoked ==
    \A k \in DOMAIN validators :
        Outdated(k) /\ ManifestOf(k) # {} => validators[k].revoked = TRUE
OldAreRevoked == \A k \in DOMAIN validators : Outdated(k) => validators[k].revoked = TRUE

OutdatedKeysAreRetired == \A k \in Key : Outdated(k) => Retired(k)

LEMMA OutdatedIsRetired == RevocationsTypeOK /\ OwnMaster => OutdatedKeysAreRetired
<1>. SUFFICES ASSUME RevocationsTypeOK, OwnMaster, NEW k \in Key, Outdated(k)
              PROVE  Retired(k)
    BY DEF OutdatedKeysAreRetired
<1>1. PICK n \in Saved : /\ Newer(n) = {} /\ SigningOf[n] \notin {k, NoKey}
                         /\ \/ \E m \in ManifestOf(k) : MasterOf[m] = MasterOf[n]
                            \/ k \in DOMAIN validators /\ validators[k].master_key = MasterOf[n]
    BY DEF Outdated
<1>2. n \in Manifest /\ MasterOf[n] # Null
    BY RevocationTypes, RevocationConstants
<1>3. ASSUME NEW m \in ManifestOf(k) PROVE MasterOf[m] = OwnerOf[k]
    BY RevocationTypes, RevocationConstants DEF ManifestOf
<1>4. MasterOf[n] = OwnerOf[k]
    BY <1>1, <1>2, <1>3 DEF OwnMaster
<1>. QED BY <1>1, <1>4 DEF Retired

LEMMA RetiredIsOutdated ==
    ASSUME RevocationsTypeOK, NEW k \in Key, Retired(k), ManifestOf(k) # {}
    PROVE  Outdated(k)
<1>1. PICK m \in ManifestOf(k) : TRUE
    OBVIOUS
<1>2. MasterOf[m] = OwnerOf[k]
    BY RevocationTypes, RevocationConstants DEF ManifestOf
<1>. QED BY <1>1, <1>2 DEF Retired, Outdated

(* The manifest of an old key is marked, once the columns are right.       *)
LEMMA OldIsMarked ==
    ASSUME OneManifestPerSeq, RevocationsTypeOK, Settled, NEW k \in Key, Retired(k),
           NEW m \in ManifestOf(k)
    PROVE  manifests[m]
<1>1. PICK n \in Saved : /\ MasterOf[n] = OwnerOf[k] /\ Newer(n) = {}
                         /\ SigningOf[n] \notin {k, NoKey}
    BY DEF Retired
<1>2. /\ m \in Saved /\ {m, n} \subseteq Manifest /\ m # n
      /\ MasterOf[m] = OwnerOf[k] /\ {SeqOf[m], SeqOf[n]} \subseteq Nat
    BY <1>1, RevocationTypes, RevocationConstants DEF ManifestOf
<1>3. SeqOf[m] # SeqOf[n] /\ ~ (SeqOf[m] > SeqOf[n])
    BY <1>1, <1>2 DEF OneManifestPerSeq, Newer
<1>4. SeqOf[n] > SeqOf[m]
    BY <1>2, <1>3
<1>5. n \in Newer(m)
    BY <1>1, <1>2, <1>4 DEF Newer
<1>. QED BY <1>2, <1>5 DEF Settled

(* A row comes with a validation; its master key is changed by one, or by  *)
(* the jobs if its manifest is saved; only the copy of a manifest that is  *)
(* not marked makes it unrevoked.                                          *)
LEMMA RowStep ==
    ASSUME RevocationsTypeOK, [RevocationsNext]_revocationVars, NEW k \in DOMAIN validators'
    PROVE  /\ \/ k \in initializing' \ initializing
              \/ /\ k \in DOMAIN validators
                 /\ validators'[k].master_key = validators[k].master_key \/ ManifestOf(k) # {}
           /\ /\ k \in DOMAIN validators /\ validators[k].revoked = TRUE
              /\ \A m \in ManifestOf(k) : manifests[m]
              => validators'[k].revoked = TRUE
<1>. USE RevocationTypes
<1>1. CASE k \in DOMAIN validators /\ validators'[k] = validators[k]
    BY <1>1
<1>2. ASSUME NEW K, Revoking(K), ~(k \in DOMAIN validators /\ validators'[k] = validators[k])
      PROVE  /\ k \in DOMAIN validators
             /\ validators'[k].master_key = validators[k].master_key
             /\ validators'[k].revoked = TRUE
    BY <1>2 DEF Revoking, RowState
<1>3. ASSUME NEW i \in Key, NEW master \in {OwnerOf[i], Null}, SaveValidator(i, master),
             ~(k \in DOMAIN validators /\ validators'[k] = validators[k])
      PROVE  /\ k \in initializing' \ initializing
             /\ k \in DOMAIN validators => validators'[k].revoked = validators[k].revoked
    BY <1>3 DEF SaveValidator
<1>4. ASSUME NEW i \in Key, InitializeRevoked(i),
             ~(k \in DOMAIN validators /\ validators'[k] = validators[k])
      PROVE  /\ k \in DOMAIN validators
             /\ validators'[k].master_key = validators[k].master_key
             /\ validators[k].revoked = Null
    BY <1>4 DEF InitializeRevoked, Initialized, RowState
<1>5. ASSUME NEW j \in Job, updateValidatorMasterKeys(j),
             ~(k \in DOMAIN validators /\ validators'[k] = validators[k])
      PROVE  /\ k \in DOMAIN validators /\ ManifestOf(k) # {}
             /\ validators'[k].revoked = validators[k].revoked
    BY <1>5 DEF updateValidatorMasterKeys, ManifestOf, RowState
<1>6. ASSUME NEW j \in Job, CopyRevoked(j),
             ~(k \in DOMAIN validators /\ validators'[k] = validators[k])
      PROVE  /\ k \in DOMAIN validators /\ ManifestOf(k) # {}
             /\ validators'[k].revoked = \E m \in ManifestOf(k) : manifests[m]
    BY <1>6 DEF CopyRevoked, RowState
<1>7. ASSUME NEW j \in Job, purgeRevokedValidators(j) \/ purgeOldValidators(j)
      PROVE  k \in DOMAIN validators /\ validators'[k] = validators[k]
    BY <1>7 DEF purgeRevokedValidators, purgeOldValidators
<1>8. ASSUME UNCHANGED validators
      PROVE  k \in DOMAIN validators /\ validators'[k] = validators[k]
    BY <1>8
<1>9. Null # TRUE
    BY RevocationConstants
<1>10. ASSUME \/ UNCHANGED revocationVars
              \/ \E m \in Manifest : \/ SaveManifest(m) \/ RevokeOlder(m) \/ FindNewer(m)
                                     \/ InsertManifest(m) \/ SaveQueryFails(m)
              \/ \E i \in Key : ValidatorQueryFails(i)
              \/ \E j \in Job : \/ StartJobs(j) \/ MarkOldRevoked(j) \/ MarkLatestCurrent(j)
                                \/ JobQueryFails(j)
       PROVE  UNCHANGED validators
    BY <1>10 DEF revocationVars, SaveManifest, RevokeOlder, FindNewer, InsertManifest, SaveQueryFails,
                 ValidatorQueryFails, StartJobs, MarkOldRevoked, MarkLatestCurrent, JobQueryFails
<1>11. CASE \E m \in Manifest : RevokeValidators(m)
    BY <1>1, <1>2, <1>11 DEF RevokeValidators
<1>12. CASE \E j \in Job : RevokeSuperseded(j)
    BY <1>1, <1>2, <1>12 DEF RevokeSuperseded
<1>13. CASE \E i \in Key : \E master \in {OwnerOf[i], Null} : SaveValidator(i, master)
    BY <1>1, <1>3, <1>13
<1>14. CASE \E i \in Key : InitializeRevoked(i)
    BY <1>1, <1>4, <1>9, <1>14
<1>15. CASE \E j \in Job : updateValidatorMasterKeys(j)
    BY <1>1, <1>5, <1>15
<1>16. CASE \E j \in Job : CopyRevoked(j)
    BY <1>1, <1>6, <1>16
<1>17. CASE UNCHANGED validators \/ \E j \in Job : purgeRevokedValidators(j) \/ purgeOldValidators(j)
    BY <1>1, <1>7, <1>8, <1>17
<1>. QED BY <1>10, <1>11, <1>12, <1>13, <1>14, <1>15, <1>16, <1>17
         DEF RevocationsNext, SaveQuery, JobQuery

(* What holds of a silent system: the invariant of the specification, and  *)
(* no save under way has read what is outdated by now.                     *)
Clean == RevocationsInv /\ OnlySavedAgain

LEMMA SilentKeeps ==
    ASSUME OneManifestPerSeq, Clean, [SilentStep]_revocationVars
    PROVE  /\ Clean'
           /\ \A k \in DOMAIN validators' :
                 Outdated(k)' => k \in DOMAIN validators /\ Outdated(k)
           /\ NoneOutdated => NoneOutdated'
           /\ Settled /\ SavedOldAreRevoked => SavedOldAreRevoked'
           /\ Settled /\ OldAreRevoked => OldAreRevoked'
<1>1. [QuietStep]_revocationVars /\ [RevocationsNext]_revocationVars /\ Repairing
    BY DEF SilentStep, QuietStep, Repairing, Clean, RevocationsInv
<1>2. Repairing' /\ Saved' = Saved /\ \A m \in Manifest : Newer(m)' = Newer(m)
    BY <1>1, QuietKeeps
<1>3. Clean'
    BY <1>1, <1>2, RevocationsStep DEF Clean, Repairing
<1>4. ASSUME NEW k \in DOMAIN validators', Outdated(k)'
      PROVE  /\ k \in Key /\ k \in DOMAIN validators /\ Outdated(k) /\ Retired(k)
             /\ ManifestOf(k)' = ManifestOf(k)
    <2>1. k \in Key
        BY <1>3 DEF Clean, RevocationsInv, RevocationsTypeOK
    <2>2. Retired(k)'
        <3>1. (RevocationsTypeOK /\ OwnMaster => OutdatedKeysAreRetired)'
            BY OutdatedIsRetired, PTL
        <3>. QED BY <1>3, <1>4, <2>1, <3>1 DEF Clean, RevocationsInv, OutdatedKeysAreRetired
    <2>3. Retired(k) /\ ManifestOf(k)' = ManifestOf(k)
        BY <1>1, <1>2, <2>2, RevocationTypes DEF Retired, ManifestOf, Repairing
    <2>4. k \notin initializing' \ initializing
        BY <2>3 DEF SilentStep, revocationVars
    <2>5. /\ k \in DOMAIN validators
          /\ validators'[k].master_key = validators[k].master_key \/ ManifestOf(k) # {}
        BY <1>1, <2>4, RowStep DEF Repairing
    <2>6. CASE ManifestOf(k) # {}
        BY <1>1, <2>1, <2>3, <2>5, <2>6, RetiredIsOutdated DEF Repairing
    <2>7. CASE ManifestOf(k) = {}
        <3>1. PICK n \in Saved : /\ Newer(n) = {} /\ SigningOf[n] \notin {k, NoKey}
                                 /\ validators'[k].master_key = MasterOf[n]
            BY <1>1, <1>2, <1>4, <2>3, <2>7, RevocationTypes DEF Outdated, Repairing
        <3>. QED BY <2>1, <2>3, <2>5, <2>7, <3>1 DEF Outdated
    <2>. QED BY <2>1, <2>3, <2>5, <2>6, <2>7
<1>5. ASSUME Settled, NEW k \in DOMAIN validators', Outdated(k)', validators[k].revoked = TRUE
      PROVE  validators'[k].revoked = TRUE
    <2>1. /\ k \in Key /\ k \in DOMAIN validators /\ Retired(k)
        BY <1>4, <1>5
    <2>2. \A m \in ManifestOf(k) : manifests[m]
        BY <1>1, <1>5, <2>1, OldIsMarked DEF Repairing
    <2>. QED BY <1>1, <1>5, <2>1, <2>2, RowStep DEF Repairing
<1>6. NoneOutdated => NoneOutdated'
    BY <1>4 DEF NoneOutdated
<1>7. Settled /\ SavedOldAreRevoked => SavedOldAreRevoked'
    BY <1>4, <1>5 DEF SavedOldAreRevoked
<1>8. Settled /\ OldAreRevoked => OldAreRevoked'
    BY <1>4, <1>5 DEF OldAreRevoked
<1>. QED BY <1>3, <1>4, <1>6, <1>7, <1>8

(* The queries of a run that is past updateManifestRevocations. *)
LEMMA CopyMarks ==
    ASSUME OneManifestPerSeq, Clean, Settled, [SilentStep]_revocationVars,
           NEW j \in Job, CopyRevoked(j)
    PROVE  SavedOldAreRevoked'
<1>1. SUFFICES ASSUME NEW k \in DOMAIN validators', Outdated(k)', ManifestOf(k)' # {}
               PROVE  validators'[k].revoked = TRUE
    BY DEF SavedOldAreRevoked
<1>2. RevocationsTypeOK /\ OwnMaster /\ manifests' = manifests
    BY DEF Clean, RevocationsInv, CopyRevoked
<1>3. k \in DOMAIN validators /\ k \in Key /\ Outdated(k) /\ ManifestOf(k) # {}
    BY <1>1, <1>2, SilentKeeps DEF RevocationsTypeOK, ManifestOf, Saved
<1>4. \A m \in ManifestOf(k) : manifests[m]
    BY <1>2, <1>3, OutdatedIsRetired, OldIsMarked DEF OutdatedKeysAreRetired
<1>5. validators[k] \in RowState
    BY <1>2, <1>3, RevocationTypes
<1>6. validators'[k].revoked = \E m \in ManifestOf(k) : manifests[m]
    BY <1>3, <1>5 DEF CopyRevoked, RowState
<1>. QED BY <1>3, <1>4, <1>6

LEMMA OthersMark ==
    ASSUME OneManifestPerSeq, Clean, Settled, SavedOldAreRevoked, [SilentStep]_revocationVars,
           NEW j \in Job, RevokeSuperseded(j)
    PROVE  OldAreRevoked'
<1>1. SUFFICES ASSUME NEW k \in DOMAIN validators', Outdated(k)'
               PROVE  validators'[k].revoked = TRUE
    BY DEF OldAreRevoked
<1>2. RevocationsTypeOK /\ OwnMaster
    BY DEF Clean, RevocationsInv
<1>3. k \in DOMAIN validators /\ Outdated(k)
    BY <1>1, SilentKeeps
<1>4. validators[k] \in RowState
    BY <1>2, <1>3, RevocationTypes
<1>5. CASE ManifestOf(k) # {}
    <2>1. validators[k].revoked = TRUE
        BY <1>3, <1>5 DEF SavedOldAreRevoked
    <2>. QED BY <1>3, <1>4, <2>1 DEF RevokeSuperseded, Revoking, RowState
<1>6. CASE ManifestOf(k) = {}
    <2>1. PICK n \in Saved : /\ Newer(n) = {} /\ SigningOf[n] \notin {k, NoKey}
                             /\ validators[k].master_key = MasterOf[n]
        BY <1>3, <1>6 DEF Outdated
    <2>2. ~manifests[n]
        BY <2>1 DEF Settled
    <2>3. k \in Superseded
        BY <1>3, <2>1, <2>2 DEF Superseded
    <2>. QED BY <1>3, <1>4, <2>3 DEF RevokeSuperseded, Revoking, RowState
<1>. QED BY <1>5, <1>6

LEMMA PurgeCleans ==
    ASSUME OneManifestPerSeq, Clean, OldAreRevoked, [SilentStep]_revocationVars,
           NEW j \in Job, purgeRevokedValidators(j)
    PROVE  NoneOutdated'
<1>1. \A k \in DOMAIN validators' : k \in DOMAIN validators /\ validators[k].revoked # TRUE
    BY DEF purgeRevokedValidators
<1>2. \A k \in DOMAIN validators' : Outdated(k)' => Outdated(k)
    BY SilentKeeps
<1>. QED BY <1>1, <1>2 DEF OldAreRevoked, NoneOutdated

(* purgeRevokedValidators - once the rows of old keys are gone, they stay  *)
(* away for as long as no validation with an old key comes, no query fails *)
(* and no new manifest comes: not a late save, nor a run of the jobs that  *)
(* started before, nor saveValidator, brings one back.                     *)
THEOREM OldStayAway ==
    ASSUME OneManifestPerSeq
    PROVE  Clean /\ NoneOutdated /\ [][SilentStep]_revocationVars => []NoneOutdated
<1>1. Clean /\ NoneOutdated /\ [SilentStep]_revocationVars => Clean' /\ NoneOutdated'
    BY SilentKeeps
<1>. QED BY <1>1, PTL

(* updateRevocations and purgeRevokedValidators - the safety half of       *)
(* OldKeysLeave: while it is so silent, one run of the jobs purges every   *)
(* row that the manifests or its master key show to be old, from any state *)
(* of the tables and whatever other runs and saves interleave with it.     *)
THEOREM OneRunPurges ==
    ASSUME OneManifestPerSeq, NEW j \in Job
    PROVE  /\ Clean /\ jobs[j] = "masterKeys" /\ [][SilentStep]_revocationVars
           => [](jobs[j] \in {"masterKeys", "markRevoked", "markCurrent", "copy", "others",
                              "purgeRevoked"} \/ (Settled /\ NoneOutdated))
<1>. DEFINE Stage == \/ jobs[j] \in {"masterKeys", "markRevoked"}
                     \/ jobs[j] = "markCurrent" /\ OldAreMarked
                     \/ /\ Settled
                        /\ \/ jobs[j] = "copy"
                           \/ jobs[j] = "others" /\ SavedOldAreRevoked
                           \/ jobs[j] = "purgeRevoked" /\ OldAreRevoked
                           \/ NoneOutdated
<1>1. ASSUME Clean, Stage, [SilentStep]_revocationVars PROVE Stage'
    <2>1. [QuietStep]_revocationVars /\ Repairing
        BY <1>1 DEF SilentStep, Repairing, Clean, RevocationsInv
    <2>2. /\ Saved' = Saved /\ \A m \in Saved : m \in Manifest /\ Newer(m)' = Newer(m)
          /\ OldAreMarked => OldAreMarked'
          /\ Settled => Settled'
        BY <2>1, QuietKeeps, RevocationTypes DEF Repairing
    <2>3. /\ NoneOutdated => NoneOutdated'
          /\ Settled /\ SavedOldAreRevoked => SavedOldAreRevoked'
          /\ Settled /\ OldAreRevoked => OldAreRevoked'
        BY <1>1, SilentKeeps
    <2>4. CASE jobs'[j] = jobs[j]
        BY <1>1, <2>2, <2>3, <2>4
    <2>5. CASE Settled /\ NoneOutdated
        BY <2>2, <2>3, <2>5
    <2>6. ASSUME jobs'[j] # jobs[j] PROVE JobQuery(j)
        BY <2>1, <2>6, OwnTurn
    <2>7. jobs \in [Job -> {"idle", "masterKeys", "markRevoked", "markCurrent", "copy", "others",
                            "purgeRevoked", "purgeOld"}]
        BY <2>1 DEF Repairing, RevocationsTypeOK
    <2>8. CASE jobs'[j] # jobs[j] /\ jobs[j] = "masterKeys"
        <3>1. jobs'[j] = "markRevoked"
            BY <2>6, <2>7, <2>8 DEF JobQuery, StartJobs, updateValidatorMasterKeys, MarkOldRevoked,
               MarkLatestCurrent, CopyRevoked, RevokeSuperseded, purgeRevokedValidators,
               purgeOldValidators, Turn
        <3>. QED BY <3>1
    <2>9. CASE jobs'[j] # jobs[j] /\ jobs[j] = "markRevoked"
        <3>1. MarkOldRevoked(j)
            BY <2>6, <2>7, <2>9 DEF JobQuery, StartJobs, updateValidatorMasterKeys,
               MarkLatestCurrent, CopyRevoked, RevokeSuperseded, purgeRevokedValidators,
               purgeOldValidators, Turn
        <3>2. jobs'[j] = "markCurrent"
            BY <2>7, <3>1 DEF MarkOldRevoked, Turn
        <3>3. \A m \in Saved : Newer(m) # {} => manifests'[m]
            BY <3>1 DEF MarkOldRevoked, WithNewerRevoked
        <3>4. OldAreMarked'
            BY <2>2, <3>3 DEF OldAreMarked
        <3>. QED BY <3>2, <3>4
    <2>10. CASE jobs'[j] # jobs[j] /\ jobs[j] = "markCurrent" /\ OldAreMarked
        <3>1. MarkLatestCurrent(j)
            BY <2>6, <2>7, <2>10 DEF JobQuery, StartJobs, updateValidatorMasterKeys, MarkOldRevoked,
               CopyRevoked, RevokeSuperseded, purgeRevokedValidators, purgeOldValidators, Turn
        <3>2. \A m \in Saved : manifests'[m] <=> manifests[m] /\ Newer(m) # {}
            BY <3>1 DEF MarkLatestCurrent
        <3>3. Settled'
            BY <2>2, <2>10, <3>2 DEF OldAreMarked, Settled
        <3>4. jobs'[j] = "copy"
            BY <2>7, <3>1 DEF MarkLatestCurrent, Turn
        <3>. QED BY <3>3, <3>4
    <2>11. CASE jobs'[j] # jobs[j] /\ jobs[j] = "copy" /\ Settled
        <3>1. CopyRevoked(j)
            BY <2>6, <2>7, <2>11 DEF JobQuery, StartJobs, updateValidatorMasterKeys, MarkOldRevoked,
               MarkLatestCurrent, RevokeSuperseded, purgeRevokedValidators, purgeOldValidators, Turn
        <3>2. jobs'[j] = "others"
            BY <2>7, <3>1 DEF CopyRevoked, Turn
        <3>. QED BY <1>1, <2>2, <2>11, <3>1, <3>2, CopyMarks
    <2>12. CASE jobs'[j] # jobs[j] /\ jobs[j] = "others" /\ Settled /\ SavedOldAreRevoked
        <3>1. RevokeSuperseded(j)
            BY <2>6, <2>7, <2>12 DEF JobQuery, StartJobs, updateValidatorMasterKeys, MarkOldRevoked,
               MarkLatestCurrent, CopyRevoked, purgeRevokedValidators, purgeOldValidators, Turn
        <3>2. jobs'[j] = "purgeRevoked"
            BY <2>7, <3>1 DEF RevokeSuperseded, Turn
        <3>. QED BY <1>1, <2>2, <2>12, <3>1, <3>2, OthersMark
    <2>13. CASE jobs'[j] # jobs[j] /\ jobs[j] = "purgeRevoked" /\ Settled /\ OldAreRevoked
        <3>1. purgeRevokedValidators(j)
            BY <2>6, <2>7, <2>13 DEF JobQuery, StartJobs, updateValidatorMasterKeys, MarkOldRevoked,
               MarkLatestCurrent, CopyRevoked, RevokeSuperseded, purgeOldValidators, Turn
        <3>. QED BY <1>1, <2>2, <2>13, <3>1, PurgeCleans
    <2>. QED BY <1>1, <2>4, <2>5, <2>8, <2>9, <2>10, <2>11, <2>12, <2>13
<1>2. Clean /\ [SilentStep]_revocationVars => Clean'
    BY SilentKeeps
<1>3. /\ jobs[j] = "masterKeys" => Stage
      /\ Stage => \/ jobs[j] \in {"masterKeys", "markRevoked", "markCurrent", "copy", "others",
                                  "purgeRevoked"}
                  \/ (Settled /\ NoneOutdated)
    OBVIOUS
<1>. HIDE DEF Stage
<1>. QED BY <1>1, <1>2, <1>3, PTL
=============================================================================
