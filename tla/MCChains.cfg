CONSTANTS
    v1 = v1  v2 = v2  v3 = v3  v4 = v4
    h1 = h1  f1 = f1  h2 = h2  h4 = h4
    Validator = {v1, v2, v3, v4}
    Ledger = {h1, f1, h2, h4}
    IndexOf <- MCIndexOf
    Network = {"net"}
    Unl = {v1, v2}
    MaxIndex = 0
    MaxHours = 3
    Votes <- Meeting
SPECIFICATION Spec
INVARIANT TypeOK
INVARIANT CompleteMeansGapless
PROPERTY ChainsGoForward
PROPERTY AgreedLedgersArePlaced
