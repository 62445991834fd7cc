CONSTANTS
    v1 = v1  v2 = v2  v3 = v3  v4 = v4
    h2 = h2  f2 = f2  h3 = h3  h4 = h4
    Validator = {v1, v2, v3}
    Ledger = {h2, h3}
    IndexOf <- MCIndexOf
    Network = {}
    Unl = {}
    MaxIndex = 10
    MaxHours = 3
    Votes <- Steady
    MainKey <- RotatedKey
    Rotations <- Rotated
    Orderly = TRUE
    BadVersion = {v1}
    FlagInterval = 4
    LedgerRange = 10
    Window = 1
    Retention = 2
    MaxInFlight = 2
SPECIFICATION AgreementSpec
PROPERTY TrackerSpec
INVARIANT AgreementTypeOK
INVARIANT NoVoteForgotten
INVARIANT NoLedgerCountedTwice
INVARIANT EveryoneIsScored
