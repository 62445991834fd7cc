---------------------------- MODULE NetworkLookup -----------------------------
(***************************************************************************)
(* The API's look-up of a node's network, which adds a network for a node  *)
(* it does not know, src/src/api/routes/v1/get-network.ts.  An action is   *)
(* what runs between two answers of a node or of the database.             *)
(*                                                                         *)
(* The crawls, that of addNode included, are an environment here: Crawler  *)
(* has what they do.                                                       *)
(***************************************************************************)
EXTENDS Integers, FiniteSets, FiniteSetsExt

CONSTANTS
    Request,    \* requests of the API
    Node,       \* public keys
    PortOf,     \* the peer port of each node, at which /crawl is
    UnlOf,      \* the validator site of each node
    NoUnl,      \* a node has none
    Url,        \* entries of networks, and of requests
    NodeAt,     \* the node at each URL
    Seeded,     \* the network of initializeDatabase
    NoValue     \* no answer, no network, no query in flight

VARIABLES
    networks,   \* table networks
    named,      \* table crawls: the networks column; NoValue without a row
    lookup,     \* the requests
    maxNetwork, \* the greatest number of a network
    reading,    \* what updateMaxNetwork has read and not yet assigned
    raced       \* history: it assigned a number that was out of date

vars == <<networks, named, lookup, maxNetwork, reading, raced>>

-----------------------------------------------------------------------------
(* The id of the seeded network is a name and no number; it is 0 here, so  *)
(* that the maximum is 0, as in updateMaxNetwork, if there is no number.   *)
Id == 0..Cardinality(Request)
Network == [id : Id, entry : Url, port : {PortOf[x] : x \in Node},
            unls : SUBSET ({UnlOf[x] : x \in Node} \cup Seeded.unls)]
MaxId == Max({n.id : n \in networks})

ASSUME NetworkLookupAssumption ==
    /\ NodeAt \in [Url -> Node]
    /\ {DOMAIN PortOf, DOMAIN UnlOf} = {Node}
    /\ Seeded \in Network /\ Seeded.id = 0 /\ NoUnl \notin Seeded.unls
    /\ IsFiniteSet(Request)
    /\ NoValue \notin Int \cup Url

Steps == {"none", "fetch", "unl", "key", "insert", "replied", "failed"}
At(r, step) == lookup[r].step = step
nodeOf(r) == NodeAt[lookup[r].url]
Step(r, step) == lookup' = [lookup EXCEPT ![r].step = step]
Reply(r, id) == lookup' = [lookup EXCEPT ![r].step = "replied", ![r].network = id]

NetworksOfUnl(x) == {n \in networks : UnlOf[x] \in n.unls}

(* History: the tables have a network for x, or one that was added for a   *)
(* node of its UNL.                                                        *)
IsKnown(x) ==
    \/ named[x] # NoValue
    \/ /\ UnlOf[x] # NoUnl
       /\ \E n \in networks \ {Seeded} : UnlOf[NodeAt[n.entry]] = UnlOf[x]

-----------------------------------------------------------------------------
(* getNetworkOrAdd. *)

GetNetworkOrAdd(r, u) ==
    /\ At(r, "none")
    /\ lookup' = [lookup EXCEPT ![r].step = "fetch", ![r].url = u,
                                ![r].known = IsKnown(NodeAt[u])]
    /\ UNCHANGED <<networks, named, maxNetwork, reading, raced>>

(* The first of the ports at which the node answers.                       *)
FetchCrawls(r) ==
    /\ At(r, "fetch")
    /\ Step(r, IF UnlOf[nodeOf(r)] # NoUnl THEN "unl" ELSE "key")
    /\ UNCHANGED <<networks, named, maxNetwork, reading, raced>>

(* It answers at none. *)
FetchFails(r) ==
    /\ At(r, "fetch")
    /\ Step(r, "failed")
    /\ UNCHANGED <<networks, named, maxNetwork, reading, raced>>

(* The first row of several, in no order. *)
GetNetworkFromUNL(r) ==
    LET known == NetworksOfUnl(nodeOf(r)) IN
    /\ At(r, "unl")
    /\ \/ known = {} /\ Step(r, "key")
       \/ \E n \in known : Reply(r, n.id)
    /\ UNCHANGED <<networks, named, maxNetwork, reading, raced>>

GetNetworkFromPublicKey(r) ==
    /\ At(r, "key")
    /\ named[nodeOf(r)] # NoValue
    /\ Reply(r, named[nodeOf(r)])
    /\ UNCHANGED <<networks, named, maxNetwork, reading, raced>>

(* The key has no network: addNode numbers one and begins the insert.      *)
(* Mutants: the number is taken after the insert; two are taken.           *)
NotTaken == maxNetwork
TwoTaken == maxNetwork + 2
Numbered == maxNetwork + 1

AddNode(r) ==
    /\ At(r, "key")
    /\ named[nodeOf(r)] = NoValue
    /\ lookup' = [lookup EXCEPT ![r].step = "insert", ![r].network = maxNetwork + 1]
    /\ maxNetwork' = Numbered
    /\ UNCHANGED <<networks, named, reading, raced>>

(* What addNode inserts.  Mutant: without the UNL.                         *)
WithoutUnls(r) ==
    [id |-> lookup[r].network, entry |-> lookup[r].url, port |-> PortOf[nodeOf(r)],
     unls |-> {}]
NewNetwork(r) ==
    [id |-> lookup[r].network, entry |-> lookup[r].url, port |-> PortOf[nodeOf(r)],
     unls |-> {UnlOf[nodeOf(r)]} \ {NoUnl}]

Inserted(r) ==
    /\ At(r, "insert")
    /\ \A n \in networks : n.entry # lookup[r].url
    /\ networks' = networks \cup {NewNetwork(r)}
    /\ Step(r, "replied")
    /\ UNCHANGED <<named, maxNetwork, reading, raced>>

(* entry is the primary key of networks: the second insert of a URL fails. *)
(* Mutant: the insert is not awaited, and its failure not seen.            *)
RepliedAnyway == "replied"
Caught == "failed"

InsertFails(r) ==
    /\ At(r, "insert")
    /\ \E n \in networks : n.entry = lookup[r].url
    /\ Step(r, Caught)
    /\ UNCHANGED <<networks, named, maxNetwork, reading, raced>>

-----------------------------------------------------------------------------
(* updateMaxNetwork, every hour: its query is answered; the answer is      *)
(* assigned.                                                               *)
QueryMaxNetwork ==
    /\ reading = NoValue
    /\ reading' = MaxId
    /\ UNCHANGED <<networks, named, lookup, maxNetwork, raced>>

UpdateMaxNetwork ==
    /\ reading # NoValue
    /\ maxNetwork' = reading
    /\ reading' = NoValue
    /\ raced' = (raced \/ reading < MaxId
                       \/ \E r \in Request : At(r, "insert") /\ reading < lookup[r].network)
    /\ UNCHANGED <<networks, named, lookup>>

(* A crawl gives the row of a node its network. *)
SaveConnections(x, n) ==
    /\ named' = [named EXCEPT ![x] = n.id]
    /\ UNCHANGED <<networks, lookup, maxNetwork, reading, raced>>

(* The first query of updateMaxNetwork is answered before any request is.  *)
Init ==
    /\ networks = {Seeded}
    /\ named = [x \in Node |-> NoValue]
    /\ lookup = [r \in Request |->
                   [step |-> "none", url |-> NoValue, network |-> NoValue, known |-> FALSE]]
    /\ maxNetwork = 0
    /\ reading = NoValue
    /\ raced = FALSE

Next ==
    \/ \E r \in Request :
          \/ \E u \in Url : GetNetworkOrAdd(r, u)
          \/ FetchCrawls(r) \/ FetchFails(r)
          \/ GetNetworkFromUNL(r) \/ GetNetworkFromPublicKey(r)
          \/ AddNode(r) \/ Inserted(r) \/ InsertFails(r)
    \/ QueryMaxNetwork
    \/ UpdateMaxNetwork
    \/ \E x \in Node, n \in networks : SaveConnections(x, n)

Spec == Init /\ [][Next]_vars

-----------------------------------------------------------------------------
(* Properties. *)

(* The types of the variables: no more numbers are taken than there are    *)
(* requests.                                                               *)
TypeOK ==
    /\ networks \subseteq Network
    /\ named \in [Node -> Id \cup {NoValue}]
    /\ lookup \in [Request -> [step : Steps, url : Url \cup {NoValue},
                               network : Id \cup {NoValue}, known : BOOLEAN]]
    /\ maxNetwork \in Id
    /\ reading \in Id \cup {NoValue}
    /\ raced \in BOOLEAN

(* Networks have ids of their own, whatever requests are handled at once,  *)
(* although no constraint of the table says so; but for the hourly update, *)
(* which may put back an older maximum while a network is being added.     *)
IdsAreUnique ==
    raced \/ \A n \in networks, m \in networks : n # m => n.id # m.id

(* A request is never answered with a network that is not in the table,    *)
(* though crawls and other requests change the tables between its queries. *)
AnsweredNetworkExists ==
    \A r \in Request : At(r, "replied") => \E n \in networks : n.id = lookup[r].network

(* No network is added for a node that was known when the request came:    *)
(* a crawl has found it, or a network was added for its UNL.  (Two nodes   *)
(* of one UNL, or two URLs of a node, that are asked for at once may both  *)
(* be added.)                                                              *)
KnownNodesAreNotAdded ==
    \A r \in Request : lookup[r].known => ~At(r, "insert")
=============================================================================
