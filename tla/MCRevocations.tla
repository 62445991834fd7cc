---------------------------- MODULE MCRevocations ----------------------------
(* Small instances of Revocations: one validator that changes its key.     *)
EXTENDS Revocations, TLC

CONSTANTS m1, m2, m3, k1, k2, M

AllOfM(S) == [x \in S |-> M]
MCMasterOf == AllOfM(Manifest)
MCOwnerOf == AllOfM(Key)
Signings == m1 :> k1 @@ m2 :> k2 @@ m3 :> NoKey
MCSigningOf == [m \in Manifest |-> Signings[m]]
Seqs == m1 :> 1 @@ m2 :> 2 @@ m3 :> 3
MCSeqOf == [m \in Manifest |-> Seqs[m]]
=============================================================================
