CONSTANTS
    a = a
    b = b
    c = c
    unl = unl
    urlA = urlA
    urlB = urlB
    urlC = urlC
    urlD = urlD
    Rpc = Rpc
    Node = {a, b, c}
    Url = {urlA, urlB, urlC, urlD}
    PortOf <- mcPortOf
    UnlOf <- mcUnlOf
    NodeAt <- mcNodeAt
    Seeded <- mcSeeded
    NoUnl = NoUnl
    NoValue = NoValue
    Request = {r1, r2, r3}
SPECIFICATION Spec
SYMMETRY mcRequests
INVARIANT TypeOK
INVARIANT IdsAreUnique
INVARIANT AnsweredNetworkExists
INVARIANT KnownNodesAreNotAdded
