CONSTANTS
    v1 = v1  v2 = v2  v3 = v3  v4 = v4
    h2 = h2  f2 = f2  h3 = h3  h4 = h4
    Validator = {v1, v2, v3, v4}
    Ledger = {h2, f2, h3}
    IndexOf <- MCIndexOf
    Network = {}
    Unl = {}
    MaxIndex = 10
    MaxHours = 1
    Votes <- Healing
    MainKey <- OwnKey
    Rotations = {}
    Orderly = TRUE
    BadVersion = {}
    FlagInterval = 16
    LedgerRange = 10
    Window = 1
    Retention = 2
    MaxInFlight = 1
SPECIFICATION AgreementSpec
INVARIANT SignedIsValidated
