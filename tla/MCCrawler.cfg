CONSTANTS
    a = a
    b = b
    c = c
    d = d
    unlA = unlA
    unlC = unlC
    urlA = urlA
    urlC = urlC
    Node = {a, b, c, d}
    Url = {urlA, urlC}
    Links <- mcLinks
    Hidden <- mcHidden
    PortOf <- mcPortOf
    RangeOf <- mcRangeOf
    UnlOf <- mcUnlOf
    NodeAt <- mcNodeAt
    InitialNetworks <- mcNetworks
    NoUnl = NoUnl
    Rpc = Rpc
    NoRow = NoRow
    NoNetwork = NoNetwork
SPECIFICATION CrawlerSpec
INVARIANT CrawlerTypeOK
INVARIANT OncePerCrawl
INVARIANT EveryPeerIsCrawled
INVARIANT CountsAreExact
PROPERTY NodesGetNamed
