CONSTANTS
    entry = entry  p = p
    we = we  wp = wp
    Entry = {}
    Peer = {p}
    Url = {wp}
    UrlsOf <- MCUrlsOf
    AddressIn <- Nowhere
    MaxConnections = 2
    MaxRetries = 1
    Socket = {1, 2, 3}
    MaxCycles = 2
    MaxRestarts = 1
    MaxClosings = 2
    MaxWrites = 2
SPECIFICATION FairSpec
INVARIANT TypeOK
INVARIANT HealthIsTruthful
PROPERTY CyclesEnd
PROPERTY VanishedPeersAreDropped
