CONSTANTS
    m1 = m1  m2 = m2  m3 = m3
    k1 = k1  k2 = k2  M = M  NoKey = NoKey  Null = Null
    Manifest = {m1, m2}
    Key = {k1, k2}
    Master = {M}
    MasterOf <- MCMasterOf
    SigningOf <- MCSigningOf
    SeqOf <- MCSeqOf
    OwnerOf <- MCOwnerOf
    Job = {1, 2}
    MaxValidations = 1
    MaxFailures = 1
    Copy = {1, 2}
    Cycle = 3
    Reverify = 6
    StaleThreshold = 8
    Lag = 1
    Duration = 1
    MaxRecovered = 9
SPECIFICATION ManifestsSpec
INVARIANT TypeOK
INVARIANT RecoversWithinTwoCycles
INVARIANT RevocationsTypeOK
PROPERTY NoFlapping
PROPERTY AbandonedIsDowngraded
PROPERTY RevocationsSettle
PROPERTY OldKeysLeave
