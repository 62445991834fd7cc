------------------------- MODULE NetworkLookupProofs -------------------------
(***************************************************************************)
(* What holds of the look-ups for any number of requests, nodes and URLs,  *)
(* at once with any crawls and hourly updates of the maximum.              *)
(***************************************************************************)
EXTENDS NetworkLookup, FiniteSetTheorems, WellFoundedInduction, TLAPS

(* A nonempty set of naturals that are not above a bound has a maximum.    *)
LEMMA BoundedMax ==
    ASSUME NEW n \in Nat, NEW S \in SUBSET (0..n), S # {}
    PROVE  Max(S) \in S /\ \A k \in S : k <= Max(S)
<1>. DEFINE Less == {p \in Nat \X Nat : p[1] < p[2]}
            Room == {n - k : k \in S}
<1>1. IsWellFoundedOn(Less, Nat)
    BY NatLessThanWellFounded DEF OpToRel
<1>2. Room \in SUBSET Nat /\ Room # {}
  <2>1. \A k \in S : n - k \in Nat
      OBVIOUS
  <2>. QED BY <2>1
<1>3. PICK m \in Room : \A r \in Room : ~(<<r, m>> \in Less)
    BY <1>1, <1>2, WFMin, Zenon
<1>4. PICK top \in S : m = n - top
    OBVIOUS
<1>5. ASSUME NEW k \in S PROVE top >= k
  <2>1. n - k \in Room /\ n - k \in Nat /\ m \in Nat
      BY <1>2
  <2>2. ~(n - k < m)
      BY <1>3, <2>1
  <2>. QED BY <1>4, <2>2
<1>. QED BY <1>4, <1>5 DEF Max

-----------------------------------------------------------------------------
(* The shape of the variables, with numbers of any size. *)
Found == [id : Nat, entry : Url, port : {PortOf[x] : x \in Node},
          unls : SUBSET ({UnlOf[x] : x \in Node} \cup Seeded.unls)]
Look == [step : Steps, url : Url \cup {NoValue}, network : Nat \cup {NoValue}, known : BOOLEAN]

Shape ==
    /\ networks \subseteq Found /\ networks # {}
    /\ named \in [Node -> Nat \cup {NoValue}]
    /\ lookup \in [Request -> Look]
    /\ \A r \in Request :
          /\ ~At(r, "none") => lookup[r].url \in Url
          /\ At(r, "insert") => lookup[r].network \in Nat
    /\ maxNetwork \in Nat
    /\ reading \in Nat \cup {NoValue}
    /\ raced \in BOOLEAN

(* Each request takes one number at most. *)
Asked == {r \in Request : lookup[r].step \in {"insert", "replied", "failed"}}
Taken == Cardinality(Asked)

UpTo(n, t) == n # NoValue => n <= t
Counted ==
    /\ \A n \in networks : n.id <= Taken
    /\ \A x \in Node : UpTo(named[x], Taken)
    /\ \A r \in Request : UpTo(lookup[r].network, Taken)
    /\ maxNetwork <= Taken
    /\ UpTo(reading, Taken)

Typed == Shape /\ Counted

-----------------------------------------------------------------------------
LEMMA Constants ==
    /\ \A u \in Url : NodeAt[u] \in Node
    /\ Seeded \in Found /\ Seeded.id = 0
    /\ NoValue \notin Nat /\ NoValue \notin Url
<1>1. Seeded \in Found
    BY NetworkLookupAssumption DEF Found, Network, Id
<1>. QED BY <1>1, NetworkLookupAssumption

LEMMA TakenIsNat ==
    /\ IsFiniteSet(Request) /\ IsFiniteSet(Asked)
    /\ Taken \in Nat /\ Cardinality(Request) \in Nat /\ Taken <= Cardinality(Request)
<1>1. IsFiniteSet(Request)
    BY NetworkLookupAssumption
<1>2. Asked \in SUBSET Request
    BY DEF Asked
<1>. QED BY <1>1, <1>2, FS_Subset, FS_CardinalityType DEF Taken

(* The number of requests that have asked does not fall.                   *)
LEMMA TakenGrows ==
    ASSUME Asked \subseteq Asked'
    PROVE  Taken' \in Nat /\ Taken <= Taken' /\ Taken' <= Cardinality(Request)
<1>1. Asked' \in SUBSET Request
    BY DEF Asked
<1>2. IsFiniteSet(Asked') /\ Cardinality(Asked') \in Nat
    BY <1>1, TakenIsNat, FS_Subset, FS_CardinalityType
<1>. QED BY <1>1, <1>2, TakenIsNat, FS_Subset DEF Taken

(* MaxId is the greatest id, and one of them.                              *)
LEMMA MaxIdIsGreatest ==
    ASSUME Typed
    PROVE  /\ MaxId \in Nat /\ MaxId <= Taken
           /\ \A n \in networks : n.id <= MaxId
<1>. DEFINE ids == {n.id : n \in networks}
<1>1. ids \in SUBSET (0..Taken) /\ ids # {}
    BY TakenIsNat DEF Typed, Shape, Counted, Found
<1>2. Max(ids) \in ids /\ \A k \in ids : k <= Max(ids)
    BY <1>1, TakenIsNat, BoundedMax
<1>. QED BY <1>1, <1>2, TakenIsNat DEF MaxId

LEMMA InitTyped == Init => Typed
<1>. SUFFICES ASSUME Init PROVE Typed
    OBVIOUS
<1>1. Shape
    BY Constants DEF Init, Shape, Look, Steps, At
<1>2. Counted
    BY Constants, TakenIsNat DEF Init, Counted, UpTo
<1>. QED BY <1>1, <1>2 DEF Typed

-----------------------------------------------------------------------------
(* Steps of a request that number nothing. *)
LookupOnly(r) ==
    /\ UNCHANGED <<networks, named, maxNetwork, reading, raced>>
    /\ \E l \in Look : /\ lookup' = [lookup EXCEPT ![r] = l]
                       /\ l.url \in Url /\ UpTo(l.network, Taken) /\ l.step # "insert"
                       /\ r \in Asked => l.step \in {"insert", "replied", "failed"}

LEMMA LookupOnlyTyped ==
    ASSUME Typed, NEW r \in Request, LookupOnly(r)
    PROVE  Typed'
<1>. PICK l \in Look : /\ lookup' = [lookup EXCEPT ![r] = l]
                       /\ l.url \in Url /\ UpTo(l.network, Taken) /\ l.step # "insert"
                       /\ r \in Asked => l.step \in {"insert", "replied", "failed"}
    BY DEF LookupOnly
<1>1. /\ lookup' \in [Request -> Look] /\ lookup'[r] = l
      /\ \A q \in Request \ {r} : lookup'[q] = lookup[q]
    BY DEF Typed, Shape
<1>2. Shape'
    BY <1>1 DEF Typed, Shape, LookupOnly, At
<1>3. Asked \subseteq Asked'
    BY <1>1 DEF Asked
<1>4. Counted'
  <2>1. \A n \in Nat \cup {NoValue} : UpTo(n, Taken) => UpTo(n, Taken')
      BY <1>3, TakenGrows, TakenIsNat DEF UpTo
  <2>2. /\ \A n \in networks : n.id <= Taken'
        /\ maxNetwork <= Taken'
      BY <1>3, TakenGrows, TakenIsNat DEF Typed, Counted, Shape, Found
  <2>3. \A q \in Request : UpTo(lookup'[q].network, Taken')
      BY <1>1, <2>1 DEF Typed, Counted, Shape, Look
  <2>4. (\A x \in Node : UpTo(named[x], Taken')) /\ UpTo(reading, Taken')
      BY <2>1 DEF Typed, Counted, Shape
  <2>. QED BY <2>2, <2>3, <2>4 DEF Counted, LookupOnly
<1>. QED BY <1>2, <1>4 DEF Typed

(* A step of a request that sets its step only, or its network too.        *)
LEMMA StepTyped ==
    ASSUME Typed, NEW r \in Request, NEW step \in Steps \ {"none", "insert"}, ~At(r, "none"),
           UNCHANGED <<networks, named, maxNetwork, reading, raced>>,
           r \in Asked => step \in {"replied", "failed"},
           \/ Step(r, step)
           \/ \E id \in Nat : id <= Taken /\ Reply(r, id) /\ step = "replied"
    PROVE  Typed'
<1>1. lookup[r] \in Look /\ lookup[r].url \in Url /\ UpTo(lookup[r].network, Taken)
    BY DEF Typed, Shape, Counted
<1>2. CASE Step(r, step)
  <2>. DEFINE l == [lookup[r] EXCEPT !.step = step]
  <2>1. l \in Look /\ l.step = step /\ l.url = lookup[r].url /\ l.network = lookup[r].network
      BY <1>1 DEF Look
  <2>2. lookup' = [lookup EXCEPT ![r] = l]
      BY <1>2 DEF Step
  <2>3. LookupOnly(r)
      BY <1>1, <2>1, <2>2 DEF LookupOnly
  <2>. QED BY <2>3, LookupOnlyTyped
<1>3. ASSUME NEW id \in Nat, id <= Taken, Reply(r, id), step = "replied" PROVE Typed'
  <2>. DEFINE l == [lookup[r] EXCEPT !.step = "replied", !.network = id]
  <2>1. l \in Look /\ l.step = "replied" /\ l.url = lookup[r].url /\ l.network = id
      BY <1>1, <1>3 DEF Look
  <2>2. lookup' = [lookup EXCEPT ![r] = l]
      BY <1>1, <1>3 DEF Reply, Look
  <2>3. LookupOnly(r)
      BY <1>1, <1>3, <2>1, <2>2 DEF LookupOnly, UpTo
  <2>. QED BY <2>3, LookupOnlyTyped
<1>. QED BY <1>2, <1>3

(* The number that addNode takes is one more than any before: one more     *)
(* request has asked.                                                      *)
LEMMA AddNodeTyped ==
    ASSUME Typed, NEW r \in Request, AddNode(r)
    PROVE  Typed' /\ Taken' = Taken + 1
<1>1. /\ lookup' = [lookup EXCEPT ![r] =
                      [lookup[r] EXCEPT !.step = "insert", !.network = maxNetwork + 1]]
      /\ lookup[r] \in Look /\ lookup[r].step = "key" /\ maxNetwork \in Nat
    BY DEF AddNode, Typed, Shape, At
<1>2. /\ lookup' \in [Request -> Look] /\ lookup'[r].network = maxNetwork + 1
      /\ lookup'[r].step = "insert" /\ lookup'[r].url = lookup[r].url
      /\ \A q \in Request \ {r} : lookup'[q] = lookup[q]
  <2>. DEFINE l == [lookup[r] EXCEPT !.step = "insert", !.network = maxNetwork + 1]
  <2>1. maxNetwork + 1 \in Nat /\ "insert" \in Steps
      BY <1>1 DEF Steps
  <2>2. /\ l \in Look /\ l.network = maxNetwork + 1 /\ l.step = "insert"
        /\ l.url = lookup[r].url
      BY <1>1, <2>1 DEF Look
  <2>. HIDE DEF l
  <2>3. lookup \in [Request -> Look]
      BY DEF Typed, Shape
  <2>4. lookup' = [lookup EXCEPT ![r] = l]
      BY <1>1 DEF l
  <2>. QED BY <2>2, <2>3, <2>4
<1>3. Asked' = Asked \cup {r} /\ r \notin Asked
    BY <1>1, <1>2 DEF Asked
<1>4. Taken' = Taken + 1
    BY <1>3, TakenIsNat, FS_AddElement DEF Taken
<1>5. Shape'
    BY <1>1, <1>2 DEF Typed, Shape, AddNode, At, Numbered
<1>6. Counted'
  <2>1. \A n \in Nat \cup {NoValue} : UpTo(n, Taken) => UpTo(n, Taken')
      BY <1>4, TakenIsNat DEF UpTo
  <2>2. (\A n \in networks : n.id <= Taken') /\ maxNetwork + 1 <= Taken'
      BY <1>4, TakenIsNat DEF Typed, Counted, Shape, Found
  <2>3. \A q \in Request : UpTo(lookup'[q].network, Taken')
      BY <1>2, <2>1, <2>2 DEF Typed, Counted, Shape, Look, UpTo
  <2>4. (\A x \in Node : UpTo(named[x], Taken')) /\ UpTo(reading, Taken')
      BY <2>1 DEF Typed, Counted, Shape
  <2>. QED BY <2>2, <2>3, <2>4 DEF Counted, AddNode, Numbered
<1>. QED BY <1>4, <1>5, <1>6 DEF Typed

(* What is inserted is a network.                                          *)
LEMMA NewNetworkTyped ==
    ASSUME Typed, NEW r \in Request, At(r, "insert")
    PROVE  NewNetwork(r) \in Found /\ NewNetwork(r).id <= Taken
<1>1. lookup[r].url \in Url /\ lookup[r].network \in Nat /\ UpTo(lookup[r].network, Taken)
    BY DEF Typed, Shape, Counted, At
<1>2. nodeOf(r) \in Node
    BY <1>1, Constants DEF nodeOf
<1>3. {UnlOf[nodeOf(r)]} \ {NoUnl} \subseteq {UnlOf[x] : x \in Node} \cup Seeded.unls
    BY <1>2
<1>4. PortOf[nodeOf(r)] \in {PortOf[x] : x \in Node}
    BY <1>2
<1>5. lookup[r].network <= Taken
    BY <1>1, Constants DEF UpTo
<1>. QED BY <1>1, <1>3, <1>4, <1>5, Zenon DEF NewNetwork, Found

LEMMA InsertedTyped ==
    ASSUME Typed, NEW r \in Request, Inserted(r)
    PROVE  Typed'
<1>1. /\ lookup' = [lookup EXCEPT ![r] = [lookup[r] EXCEPT !.step = "replied"]]
      /\ lookup[r] \in Look /\ lookup[r].step = "insert"
    BY DEF Inserted, Step, Typed, Shape, At
<1>2. /\ lookup' \in [Request -> Look] /\ lookup'[r].step = "replied"
      /\ \A q \in Request : /\ lookup'[q].network = lookup[q].network
                            /\ lookup'[q].url = lookup[q].url
                            /\ q # r => lookup'[q] = lookup[q]
    BY <1>1 DEF Typed, Shape, Look, Steps
<1>3. Asked' = Asked
    BY <1>1, <1>2 DEF Asked
<1>4. Taken' = Taken
    BY <1>3 DEF Taken
<1>5. Shape'
    BY <1>1, <1>2, NewNetworkTyped DEF Typed, Shape, Inserted, At
<1>6. Counted'
    BY <1>2, <1>4, NewNetworkTyped DEF Typed, Counted, Inserted
<1>. QED BY <1>5, <1>6 DEF Typed

LEMMA NextTyped == Typed /\ [Next]_vars => Typed'
<1>. SUFFICES ASSUME Typed, [Next]_vars PROVE Typed'
    OBVIOUS
<1>1. ASSUME NEW r \in Request, NEW u \in Url, GetNetworkOrAdd(r, u) PROVE Typed'
  <2>. DEFINE l == [lookup[r] EXCEPT !.step = "fetch", !.url = u, !.known = IsKnown(NodeAt[u])]
  <2>1. lookup[r] \in Look /\ lookup[r].step = "none" /\ UpTo(lookup[r].network, Taken)
      BY <1>1 DEF GetNetworkOrAdd, Typed, Shape, Counted, At
  <2>2. IsKnown(NodeAt[u]) \in BOOLEAN
      BY DEF IsKnown
  <2>3. l \in Look /\ l.step = "fetch" /\ l.url = u /\ l.network = lookup[r].network
      BY <2>1, <2>2 DEF Look, Steps
  <2>4. lookup' = [lookup EXCEPT ![r] = l]
      BY <1>1, <2>1 DEF GetNetworkOrAdd, Look
  <2>5. LookupOnly(r)
      BY <1>1, <2>1, <2>3, <2>4 DEF LookupOnly, GetNetworkOrAdd, Asked
  <2>. QED BY <2>5, LookupOnlyTyped
<1>2. ASSUME NEW r \in Request, FetchCrawls(r) PROVE Typed'
    BY <1>2, StepTyped DEF FetchCrawls, At, Steps, Asked
<1>3. ASSUME NEW r \in Request, FetchFails(r) PROVE Typed'
    BY <1>3, StepTyped DEF FetchFails, At, Steps, Asked
<1>4. ASSUME NEW r \in Request, GetNetworkFromUNL(r) PROVE Typed'
  <2>1. \A n \in NetworksOfUnl(nodeOf(r)) : n.id \in Nat /\ n.id <= Taken
      BY DEF NetworksOfUnl, Typed, Shape, Counted, Found
  <2>2. CASE Step(r, "key")
      BY <1>4, <2>2, StepTyped DEF GetNetworkFromUNL, At, Steps, Asked
  <2>3. ASSUME NEW n \in NetworksOfUnl(nodeOf(r)), Reply(r, n.id) PROVE Typed'
      BY <1>4, <2>1, <2>3, StepTyped DEF GetNetworkFromUNL, At, Steps, Asked
  <2>. QED BY <1>4, <2>2, <2>3 DEF GetNetworkFromUNL
<1>5. ASSUME NEW r \in Request, GetNetworkFromPublicKey(r) PROVE Typed'
  <2>1. nodeOf(r) \in Node
      BY <1>5, Constants DEF GetNetworkFromPublicKey, At, nodeOf, Typed, Shape
  <2>2. named[nodeOf(r)] \in Nat /\ named[nodeOf(r)] <= Taken
      BY <1>5, <2>1 DEF GetNetworkFromPublicKey, Typed, Shape, Counted, UpTo
  <2>. QED BY <1>5, <2>2, StepTyped DEF GetNetworkFromPublicKey, At, Steps, Asked
<1>6. ASSUME NEW r \in Request, AddNode(r) PROVE Typed'
    BY <1>6, AddNodeTyped
<1>7. ASSUME NEW r \in Request, Inserted(r) PROVE Typed'
    BY <1>7, InsertedTyped
<1>8. ASSUME NEW r \in Request, InsertFails(r) PROVE Typed'
    BY <1>8, StepTyped DEF InsertFails, Caught, At, Steps, Asked
<1>9. CASE QueryMaxNetwork
  <2>1. Taken' = Taken
      BY <1>9 DEF QueryMaxNetwork, Taken, Asked
  <2>. QED BY <1>9, <2>1, MaxIdIsGreatest DEF QueryMaxNetwork, Typed, Shape, Counted, UpTo, At
<1>10. CASE UpdateMaxNetwork
  <2>1. Taken' = Taken
      BY <1>10 DEF UpdateMaxNetwork, Taken, Asked
  <2>2. raced' \in BOOLEAN
      BY <1>10 DEF UpdateMaxNetwork
  <2>. QED BY <1>10, <2>1, <2>2 DEF UpdateMaxNetwork, Typed, Shape, Counted, UpTo, At
<1>11. ASSUME NEW x \in Node, NEW n \in networks, SaveConnections(x, n) PROVE Typed'
  <2>1. Taken' = Taken
      BY <1>11 DEF SaveConnections, Taken, Asked
  <2>2. n.id \in Nat /\ n.id <= Taken
      BY DEF Typed, Shape, Counted, Found
  <2>. QED BY <1>11, <2>1, <2>2 DEF SaveConnections, Typed, Shape, Counted, UpTo, At
<1>12. CASE UNCHANGED vars
  <2>1. Taken' = Taken
      BY <1>12 DEF vars, Taken, Asked
  <2>. QED BY <1>12, <2>1 DEF vars, Typed, Shape, Counted, UpTo, At
<1>. QED
    BY <1>1, <1>2, <1>3, <1>4, <1>5, <1>6, <1>7, <1>8, <1>9, <1>10, <1>11, <1>12 DEF Next

LEMMA TypedIsTypeOK == Typed => TypeOK
<1>. SUFFICES ASSUME Typed PROVE TypeOK
    OBVIOUS
<1>1. \A n \in Nat : n <= Taken => n \in Id
    BY TakenIsNat DEF Id
<1>2. \A n \in Nat \cup {NoValue} : UpTo(n, Taken) => n \in Id \cup {NoValue}
    BY <1>1 DEF UpTo
<1>3. networks \subseteq Network
    BY <1>1 DEF Typed, Shape, Counted, Found, Network
<1>4. lookup \in [Request -> [step : Steps, url : Url \cup {NoValue},
                              network : Id \cup {NoValue}, known : BOOLEAN]]
    BY <1>2 DEF Typed, Shape, Counted, Look
<1>. QED BY <1>1, <1>2, <1>3, <1>4 DEF TypeOK, Typed, Shape, Counted

(* The types of the variables: no more numbers are given than there were   *)
(* requests, however often the maximum was read and put back.              *)
THEOREM TypeCorrect == Spec => []TypeOK
BY InitTyped, NextTyped, TypedIsTypeOK, PTL DEF Spec

-----------------------------------------------------------------------------
(* The networks that the crawled nodes have are in the table.              *)
Exists(id) == \E n \in networks : n.id = id

NamedExist == \A x \in Node : named[x] # NoValue => Exists(named[x])

ExistsInv == Typed /\ NamedExist /\ AnsweredNetworkExists

LEMMA InitExists == Init => ExistsInv
BY InitTyped DEF Init, ExistsInv, NamedExist, AnsweredNetworkExists, At

(* What one request does to itself.                                        *)
LEMMA OnlyOne ==
    ASSUME Typed, NEW r \in Request, NEW step,
           \/ Step(r, step)
           \/ \E id : Reply(r, id) /\ step = "replied"
    PROVE  /\ lookup'[r].step = step /\ lookup'[r].url = lookup[r].url
           /\ lookup'[r].known = lookup[r].known
           /\ Step(r, step) => lookup'[r].network = lookup[r].network
           /\ \A id : Reply(r, id) => lookup'[r].network = id
           /\ \A q \in Request : q # r => lookup'[q] = lookup[q]
BY DEF Typed, Shape, Look, Step, Reply

LEMMA NextExists == ExistsInv /\ [Next]_vars => ExistsInv'
<1>. SUFFICES ASSUME ExistsInv, [Next]_vars PROVE NamedExist' /\ AnsweredNetworkExists'
    BY NextTyped DEF ExistsInv
<1>0. Typed /\ NamedExist /\ AnsweredNetworkExists
    BY DEF ExistsInv
<1>1. networks \subseteq networks'
    BY DEF Next, vars, GetNetworkOrAdd, FetchCrawls, FetchFails, GetNetworkFromUNL,
           GetNetworkFromPublicKey, AddNode, Inserted, InsertFails, QueryMaxNetwork,
           UpdateMaxNetwork, SaveConnections
<1>2. NamedExist'
  <2>1. CASE UNCHANGED named
      BY <1>0, <1>1, <2>1 DEF NamedExist, Exists
  <2>2. ASSUME NEW x \in Node, NEW n \in networks, SaveConnections(x, n) PROVE NamedExist'
      BY <1>0, <2>2 DEF NamedExist, Exists, SaveConnections, Typed, Shape
  <2>. QED
      BY <2>1, <2>2 DEF Next, vars, GetNetworkOrAdd, FetchCrawls, FetchFails,
             GetNetworkFromUNL, GetNetworkFromPublicKey, AddNode, Inserted, InsertFails,
             QueryMaxNetwork, UpdateMaxNetwork
<1>3. AnsweredNetworkExists'
  <2>. DEFINE Answered(q) == At(q, "replied") => Exists(lookup[q].network)
  <2>1. ASSUME NEW r \in Request, Answered(r)',
               \A q \in Request : q # r => lookup'[q] = lookup[q]
        PROVE  AnsweredNetworkExists'
      BY <1>0, <1>1, <2>1 DEF AnsweredNetworkExists, Exists, At
  <2>2. CASE UNCHANGED lookup
      BY <1>0, <1>1, <2>2 DEF AnsweredNetworkExists, At
  <2>3. ASSUME NEW r \in Request, NEW step \in {"fetch", "unl", "key", "insert", "failed"},
               lookup'[r].step = step, \A q \in Request : q # r => lookup'[q] = lookup[q]
        PROVE  AnsweredNetworkExists'
      BY <2>1, <2>3 DEF At
  <2>4. ASSUME NEW r \in Request, NEW u \in Url, GetNetworkOrAdd(r, u)
        PROVE  AnsweredNetworkExists'
      BY <1>0, <2>3, <2>4 DEF GetNetworkOrAdd, Typed, Shape, Look
  <2>5. ASSUME NEW r \in Request, FetchCrawls(r) \/ FetchFails(r) \/ InsertFails(r)
        PROVE  AnsweredNetworkExists'
      BY <1>0, <2>3, <2>5, OnlyOne DEF FetchCrawls, FetchFails, InsertFails, Caught
  <2>6. ASSUME NEW r \in Request, GetNetworkFromUNL(r) PROVE AnsweredNetworkExists'
    <3>1. CASE Step(r, "key")
        BY <1>0, <2>3, <3>1, OnlyOne
    <3>2. ASSUME NEW n \in NetworksOfUnl(nodeOf(r)), Reply(r, n.id)
          PROVE  AnsweredNetworkExists'
      <4>1. lookup'[r].network = n.id /\ n \in networks'
          BY <1>0, <1>1, <3>2, OnlyOne DEF NetworksOfUnl
      <4>. QED BY <1>0, <2>1, <3>2, <4>1, OnlyOne DEF Exists
    <3>. QED BY <2>6, <3>1, <3>2 DEF GetNetworkFromUNL
  <2>7. ASSUME NEW r \in Request, GetNetworkFromPublicKey(r) PROVE AnsweredNetworkExists'
    <3>1. nodeOf(r) \in Node
        BY <1>0, <2>7, Constants DEF GetNetworkFromPublicKey, At, nodeOf, Typed, Shape
    <3>2. Exists(named[nodeOf(r)]) /\ UNCHANGED networks
        BY <1>0, <2>7, <3>1 DEF GetNetworkFromPublicKey, NamedExist
    <3>. QED BY <1>0, <2>1, <2>7, <3>2, OnlyOne DEF GetNetworkFromPublicKey, Exists
  <2>8. ASSUME NEW r \in Request, AddNode(r) PROVE AnsweredNetworkExists'
      BY <1>0, <2>3, <2>8 DEF AddNode, Typed, Shape, Look
  <2>9. ASSUME NEW r \in Request, Inserted(r) PROVE AnsweredNetworkExists'
    <3>1. /\ lookup'[r].network = lookup[r].network
          /\ \A q \in Request : q # r => lookup'[q] = lookup[q]
        BY <1>0, <2>9, OnlyOne DEF Inserted
    <3>2. NewNetwork(r) \in networks' /\ NewNetwork(r).id = lookup[r].network
        BY <2>9 DEF Inserted, NewNetwork
    <3>. QED BY <2>1, <3>1, <3>2 DEF Exists
  <2>. QED
      BY <2>2, <2>4, <2>5, <2>6, <2>7, <2>8, <2>9 DEF Next, vars, QueryMaxNetwork,
         UpdateMaxNetwork, SaveConnections
<1>. QED BY <1>2, <1>3

(* A request is answered with a network of the table only.                 *)
THEOREM AnswersExist == Spec => []AnsweredNetworkExists
BY InitExists, NextExists, PTL DEF Spec, ExistsInv

-----------------------------------------------------------------------------
(* Unique ids.  As long as no old maximum was put back, the ids of the     *)
(* networks and those about to be inserted are different from each other,  *)
(* and none is above the maximum.                                          *)

Distinct ==
    /\ \A n \in networks, m \in networks : n # m => n.id # m.id
    /\ \A n \in networks : n.id <= maxNetwork
    /\ \A r \in Request : At(r, "insert") =>
          /\ lookup[r].network <= maxNetwork
          /\ \A n \in networks : n.id # lookup[r].network
          /\ \A q \in Request : At(q, "insert") /\ q # r => lookup[q].network # lookup[r].network

UniqueInv == Typed /\ (raced \/ Distinct)

LEMMA InitUnique == Init => UniqueInv
BY InitTyped, Constants DEF Init, UniqueInv, Distinct, At

(* A request that numbers nothing leaves no more of them about to insert.  *)
LEMMA FewerInsert ==
    ASSUME Typed, raced \/ Distinct, UNCHANGED <<networks, maxNetwork, raced>>,
           NEW r \in Request, lookup'[r].step # "insert",
           \A q \in Request : q # r => lookup'[q] = lookup[q]
    PROVE  (raced \/ Distinct)'
<1>1. \A q \in Request : At(q, "insert")' => At(q, "insert") /\ lookup'[q].network = lookup[q].network
    BY DEF At
<1>. QED BY <1>1 DEF Distinct

LEMMA NextUnique == UniqueInv /\ [Next]_vars => UniqueInv'
<1>. SUFFICES ASSUME UniqueInv, [Next]_vars PROVE (raced \/ Distinct)'
    BY NextTyped DEF UniqueInv
<1>0. Typed /\ (raced \/ Distinct)
    BY DEF UniqueInv
<1>1. ASSUME NEW r \in Request, NEW u \in Url, GetNetworkOrAdd(r, u)
      PROVE  (raced \/ Distinct)'
  <2>1. lookup'[r].step = "fetch" /\ \A q \in Request : q # r => lookup'[q] = lookup[q]
      BY <1>0, <1>1 DEF GetNetworkOrAdd, Typed, Shape, Look
  <2>. QED BY <1>0, <1>1, <2>1, FewerInsert DEF GetNetworkOrAdd
<1>2. ASSUME NEW r \in Request,
             \/ FetchCrawls(r) \/ FetchFails(r) \/ InsertFails(r)
             \/ GetNetworkFromUNL(r) \/ GetNetworkFromPublicKey(r)
      PROVE  (raced \/ Distinct)'
  <2>1. /\ UNCHANGED <<networks, maxNetwork, raced>>
        /\ \/ \E step \in Steps \ {"insert"} : Step(r, step)
           \/ \E id : Reply(r, id)
      BY <1>2 DEF FetchCrawls, FetchFails, InsertFails, GetNetworkFromUNL,
                  GetNetworkFromPublicKey, Caught, Steps
  <2>2. lookup'[r].step # "insert" /\ \A q \in Request : q # r => lookup'[q] = lookup[q]
      BY <1>0, <2>1, OnlyOne
  <2>. QED BY <1>0, <2>1, <2>2, FewerInsert
<1>3. ASSUME NEW r \in Request, AddNode(r), ~raced PROVE Distinct'
  <2>1. /\ lookup'[r].step = "insert" /\ lookup'[r].network = maxNetwork + 1
        /\ \A q \in Request : q # r => lookup'[q] = lookup[q]
      BY <1>0, <1>3 DEF AddNode, Typed, Shape, Look
  <2>2. maxNetwork \in Nat /\ maxNetwork' = maxNetwork + 1 /\ UNCHANGED networks
      BY <1>0, <1>3 DEF AddNode, Numbered, Typed, Shape
  <2>3. \A n \in networks : n.id \in Nat /\ n.id <= maxNetwork
      BY <1>0, <1>3 DEF Typed, Shape, Found, Distinct
  <2>4. \A q \in Request : q # r /\ At(q, "insert")' =>
            /\ At(q, "insert") /\ lookup'[q].network = lookup[q].network
            /\ lookup[q].network \in Nat /\ lookup[q].network <= maxNetwork
      BY <1>0, <1>3, <2>1 DEF Typed, Shape, Distinct, At
  <2>. QED BY <1>0, <1>3, <2>1, <2>2, <2>3, <2>4 DEF Distinct
<1>4. ASSUME NEW r \in Request, Inserted(r), ~raced PROVE Distinct'
  <2>1. /\ lookup'[r].step = "replied" /\ lookup'[r].network = lookup[r].network
        /\ \A q \in Request : q # r => lookup'[q] = lookup[q]
      BY <1>0, <1>4, OnlyOne DEF Inserted
  <2>2. /\ networks' = networks \cup {NewNetwork(r)}
        /\ NewNetwork(r).id = lookup[r].network /\ UNCHANGED maxNetwork
      BY <1>4 DEF Inserted, NewNetwork
  <2>3. \A q \in Request : At(q, "insert")' => q # r /\ At(q, "insert")
      BY <2>1 DEF At
  <2>4. At(r, "insert") /\ Distinct
      BY <1>0, <1>4 DEF Inserted
  <2>. QED BY <2>1, <2>2, <2>3, <2>4 DEF Distinct
<1>5. ASSUME UpdateMaxNetwork, ~raced' PROVE Distinct'
  <2>1. /\ maxNetwork' = reading /\ reading \in Nat /\ UNCHANGED <<networks, lookup>>
        /\ ~(reading < MaxId)
        /\ \A r \in Request : At(r, "insert") => ~(reading < lookup[r].network)
        /\ Distinct
      BY <1>0, <1>5 DEF UpdateMaxNetwork, Typed, Shape
  <2>2. \A n \in networks : n.id \in Nat /\ n.id <= reading
      BY <1>0, <2>1, MaxIdIsGreatest DEF Typed, Shape, Found
  <2>3. \A r \in Request : At(r, "insert") => lookup[r].network \in Nat /\ lookup[r].network <= reading
      BY <1>0, <2>1 DEF Typed, Shape
  <2>. QED BY <2>1, <2>2, <2>3 DEF Distinct, At
<1>6. CASE UNCHANGED <<networks, lookup, maxNetwork, raced>>
    BY <1>0, <1>6 DEF Distinct, At
<1>7. ASSUME NEW r \in Request, AddNode(r) \/ Inserted(r) PROVE (raced \/ Distinct)'
  <2>1. CASE raced
      BY <1>7, <2>1 DEF AddNode, Inserted
  <2>. QED BY <1>3, <1>4, <1>7, <2>1
<1>8. QueryMaxNetwork \/ UNCHANGED vars \/ (\E x \in Node, n \in networks : SaveConnections(x, n))
      => UNCHANGED <<networks, lookup, maxNetwork, raced>>
    BY DEF QueryMaxNetwork, SaveConnections, vars
<1>. QED BY <1>1, <1>2, <1>5, <1>6, <1>7, <1>8 DEF Next

(* No two networks have one id, unless updateMaxNetwork has put back a     *)
(* maximum that was out of date, for any number of requests at once.       *)
THEOREM UniqueIds == Spec => []IdsAreUnique
<1>1. UniqueInv => IdsAreUnique
    BY DEF UniqueInv, Distinct, IdsAreUnique
<1>. QED BY InitUnique, NextUnique, <1>1, PTL DEF Spec

-----------------------------------------------------------------------------
(* Known nodes.  A network that was added for a node has its UNL; what a   *)
(* request was known for it still finds when it looks.                     *)

AddedHaveUnl ==
    \A n \in networks \ {Seeded} :
        /\ n.entry \in Url
        /\ UnlOf[NodeAt[n.entry]] # NoUnl => UnlOf[NodeAt[n.entry]] \in n.unls

StillKnown(r) ==
    lookup[r].known =>
        /\ lookup[r].step \in {"fetch", "unl"} => IsKnown(nodeOf(r))
        /\ At(r, "key") => named[nodeOf(r)] # NoValue
        /\ ~At(r, "insert")

KnownInv == Typed /\ AddedHaveUnl /\ \A r \in Request : StillKnown(r)

LEMMA InitKnown == Init => KnownInv
BY InitTyped DEF Init, KnownInv, AddedHaveUnl, StillKnown, At

(* What is known stays known.                                              *)
LEMMA KnownStays ==
    ASSUME Typed, [Next]_vars, NEW x \in Node
    PROVE  /\ named[x] # NoValue => named'[x] # NoValue
           /\ IsKnown(x) => IsKnown(x)'
           /\ networks \subseteq networks'
<1>1. named[x] # NoValue => named'[x] # NoValue
  <2>1. CASE UNCHANGED named
      BY <2>1
  <2>2. ASSUME NEW y \in Node, NEW n \in networks, SaveConnections(y, n)
        PROVE  named[x] # NoValue => named'[x] # NoValue
      BY <2>2, Constants DEF SaveConnections, Typed, Shape, Found
  <2>. QED
      BY <2>1, <2>2 DEF Next, vars, GetNetworkOrAdd, FetchCrawls, FetchFails,
             GetNetworkFromUNL, GetNetworkFromPublicKey, AddNode, Inserted, InsertFails,
             QueryMaxNetwork, UpdateMaxNetwork
<1>2. networks \subseteq networks'
    BY DEF Next, vars, GetNetworkOrAdd, FetchCrawls, FetchFails, GetNetworkFromUNL,
           GetNetworkFromPublicKey, AddNode, Inserted, InsertFails, QueryMaxNetwork,
           UpdateMaxNetwork, SaveConnections
<1>. QED BY <1>1, <1>2 DEF IsKnown

LEMMA NextAddedHaveUnl == Typed /\ AddedHaveUnl /\ [Next]_vars => AddedHaveUnl'
<1>. SUFFICES ASSUME Typed, AddedHaveUnl, [Next]_vars PROVE AddedHaveUnl'
    OBVIOUS
<1>1. ASSUME NEW r \in Request, Inserted(r) PROVE AddedHaveUnl'
  <2>1. /\ NewNetwork(r).entry = lookup[r].url /\ lookup[r].url \in Url
        /\ NewNetwork(r).unls = {UnlOf[NodeAt[lookup[r].url]]} \ {NoUnl}
      BY <1>1 DEF Inserted, NewNetwork, nodeOf, Typed, Shape, At
  <2>2. networks' = networks \cup {NewNetwork(r)}
      BY <1>1 DEF Inserted
  <2>. QED BY <2>1, <2>2 DEF AddedHaveUnl
<1>2. CASE UNCHANGED networks
    BY <1>2 DEF AddedHaveUnl
<1>. QED
    BY <1>1, <1>2 DEF Next, vars, GetNetworkOrAdd, FetchCrawls, FetchFails, GetNetworkFromUNL,
       GetNetworkFromPublicKey, AddNode, InsertFails, QueryMaxNetwork, UpdateMaxNetwork,
       SaveConnections

LEMMA NextKnown == KnownInv /\ [Next]_vars => KnownInv'
<1>. SUFFICES ASSUME KnownInv, [Next]_vars, NEW q \in Request PROVE StillKnown(q)'
    BY NextTyped, NextAddedHaveUnl DEF KnownInv
<1>0. Typed /\ AddedHaveUnl /\ StillKnown(q)
    BY DEF KnownInv
<1>1. CASE lookup'[q] = lookup[q]
  <2>1. CASE At(q, "none") \/ ~lookup[q].known
      BY <1>0, <1>1, <2>1 DEF StillKnown, At
  <2>2. CASE ~At(q, "none")
    <3>1. nodeOf(q) \in Node /\ nodeOf(q)' = nodeOf(q)
        BY <1>0, <1>1, <2>2, Constants DEF nodeOf, Typed, Shape
    <3>. QED BY <1>0, <1>1, <3>1, KnownStays DEF StillKnown, At
  <2>. QED BY <2>1, <2>2
<1>2. ASSUME NEW u \in Url, GetNetworkOrAdd(q, u) PROVE StillKnown(q)'
  <2>1. /\ lookup'[q].step = "fetch" /\ lookup'[q].url = u
        /\ lookup'[q].known = IsKnown(NodeAt[u]) /\ UNCHANGED <<networks, named>>
      BY <1>0, <1>2 DEF GetNetworkOrAdd, Typed, Shape, Look
  <2>2. lookup'[q].known => IsKnown(nodeOf(q))'
      BY <2>1 DEF IsKnown, nodeOf
  <2>. QED BY <2>1, <2>2 DEF StillKnown, At
<1>3. ASSUME NEW step, Step(q, step), ~At(q, "none"), UNCHANGED <<networks, named>>,
             lookup[q].known =>
                 /\ step = "unl" => IsKnown(nodeOf(q))
                 /\ step = "key" => named[nodeOf(q)] # NoValue
                 /\ step \notin {"fetch", "insert"}
      PROVE  StillKnown(q)'
  <2>1. lookup'[q].step = step /\ lookup'[q].url = lookup[q].url /\ lookup'[q].known = lookup[q].known
      BY <1>0, <1>3, OnlyOne
  <2>2. nodeOf(q)' = nodeOf(q) /\ (IsKnown(nodeOf(q)) => IsKnown(nodeOf(q))')
      BY <1>3, <2>1 DEF IsKnown, nodeOf
  <2>. QED BY <1>3, <2>1, <2>2 DEF StillKnown, At
<1>4. ASSUME NEW id, Reply(q, id) PROVE StillKnown(q)'
    BY <1>0, <1>4, OnlyOne DEF StillKnown, At
<1>5. CASE FetchCrawls(q)
    BY <1>0, <1>3, <1>5 DEF FetchCrawls, StillKnown, At, IsKnown
<1>6. CASE FetchFails(q) \/ InsertFails(q) \/ Inserted(q)
  <2>1. CASE FetchFails(q) \/ InsertFails(q)
      BY <1>0, <1>3, <2>1 DEF FetchFails, InsertFails, Caught, At
  <2>2. CASE Inserted(q)
    <3>1. lookup'[q].step = "replied"
        BY <1>0, <2>2, OnlyOne DEF Inserted
    <3>. QED BY <3>1 DEF StillKnown, At
  <2>. QED BY <1>6, <2>1, <2>2
<1>7. CASE GetNetworkFromUNL(q)
  <2>1. CASE NetworksOfUnl(nodeOf(q)) = {} /\ Step(q, "key")
    <3>1. lookup[q].known => IsKnown(nodeOf(q))
        BY <1>0, <1>7 DEF GetNetworkFromUNL, StillKnown, At
    <3>2. IsKnown(nodeOf(q)) => named[nodeOf(q)] # NoValue
        BY <1>0, <2>1 DEF IsKnown, AddedHaveUnl, NetworksOfUnl
    <3>. QED BY <1>3, <1>7, <2>1, <3>1, <3>2 DEF GetNetworkFromUNL, At
  <2>. QED BY <1>4, <1>7, <2>1 DEF GetNetworkFromUNL
<1>8. CASE GetNetworkFromPublicKey(q)
    BY <1>4, <1>8 DEF GetNetworkFromPublicKey
<1>9. CASE AddNode(q)
  <2>1. ~lookup[q].known /\ lookup'[q].known = lookup[q].known
    <3>1. ~lookup[q].known
        BY <1>0, <1>9 DEF AddNode, StillKnown, At
    <3>2. lookup'[q].known = lookup[q].known
        BY <1>0, <1>9 DEF AddNode, Typed, Shape, Look
    <3>. QED BY <3>1, <3>2
  <2>. QED BY <2>1 DEF StillKnown
<1>10. ASSUME NEW r \in Request, r # q,
              \/ \E u \in Url : GetNetworkOrAdd(r, u)
              \/ FetchCrawls(r) \/ FetchFails(r)
              \/ GetNetworkFromUNL(r) \/ GetNetworkFromPublicKey(r)
              \/ AddNode(r) \/ Inserted(r) \/ InsertFails(r)
       PROVE  lookup'[q] = lookup[q]
    BY <1>0, <1>10 DEF GetNetworkOrAdd, FetchCrawls, FetchFails, GetNetworkFromUNL, Step, Reply,
       GetNetworkFromPublicKey, AddNode, Inserted, InsertFails, Typed, Shape
<1>. QED
    BY <1>1, <1>2, <1>5, <1>6, <1>7, <1>8, <1>9, <1>10 DEF Next, vars, QueryMaxNetwork,
       UpdateMaxNetwork, SaveConnections

(* No network is added for a node that was known when its request came.    *)
THEOREM KnownAreNotAdded == Spec => []KnownNodesAreNotAdded
<1>1. KnownInv => KnownNodesAreNotAdded
    BY DEF KnownInv, StillKnown, KnownNodesAreNotAdded
<1>. QED BY InitKnown, NextKnown, <1>1, PTL DEF Spec
=============================================================================
