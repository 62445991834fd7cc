------------------------------ MODULE MCManifests ------------------------------
(* Small instances of the two components that keep the manifests' rows:    *)
(* DomainVerification, with a cycle of three parts, and Revocations.  They *)
(* share no column and no guard, so that a behaviour is about one of them, *)
(* and the other one rests.                                                *)
EXTENDS DomainVerification, MCRevocations

VARIABLE half   \* the component that the behaviour is about

manifestVars == <<vars, revocationVars, half>>

(* The component that rests does so in one state.                          *)
ManifestsInit ==
    /\ Init /\ RevocationsInit
    /\ half \in {"verification", "revocation"}
    /\ half = "revocation" => toml = "valid"

Verification(A) == half = "verification" /\ A /\ UNCHANGED <<revocationVars, half>>
Revocation(A) == half = "revocation" /\ A /\ UNCHANGED <<vars, half>>

ManifestsNext == Verification(Next) \/ Revocation(RevocationsNext)

(* With the fairness of FairSpec and of RevocationsFairSpec.               *)
ManifestsSpec ==
    /\ ManifestsInit /\ [][ManifestsNext]_manifestVars
    /\ WF_manifestVars(Verification(HandlingProceeds))
    /\ WF_manifestVars(Verification(JobsProceed))
    /\ WF_manifestVars(Verification(Tick))
    /\ \A m \in Manifest : WF_manifestVars(Revocation(SaveQuery(m)))
    /\ \A k \in Key : WF_manifestVars(Revocation(InitializeRevoked(k)))
    /\ \A j \in Job : WF_manifestVars(Revocation(JobQuery(j)))
=============================================================================
