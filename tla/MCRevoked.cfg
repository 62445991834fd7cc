CONSTANTS
    m1 = m1  m2 = m2  m3 = m3
    k1 = k1  k2 = k2  M = M  NoKey = NoKey  Null = Null
    Manifest = {m1, m2}
    Key = {k1, k2}
    Master = {M}
    MasterOf <- MCMasterOf
    SigningOf <- MCSigningOf
    SeqOf <- MCSeqOf
    OwnerOf <- MCOwnerOf
    Job = {1}
    MaxValidations = 3
    MaxFailures = 0
SPECIFICATION RevocationsSpec
PROPERTY ValidationsRestoreNoKey
