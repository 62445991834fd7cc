------------------------------- MODULE Crawler --------------------------------
(***************************************************************************)
(* The crawl of the networks, src/src/crawler/{index,crawl,network}.ts,    *)
(* with the queries of src/src/shared/database/index.ts.  Every network is *)
(* crawled in parallel, and so is every peer of a node that has answered.  *)
(*                                                                         *)
(* An action is what runs when the answer of a peer or of the database     *)
(* comes.  saveNode and saveConnections do not wait for their queries,     *)
(* which go through a pool of connections and may commit in any order.     *)
(***************************************************************************)
EXTENDS Integers

CONSTANTS
    Node,       \* public keys
    Links,      \* <<a, b>>: a has opened a connection to b
    Hidden,     \* <<a, b>>: a reports b without its address and port
    PortOf,     \* the peer port of each node
    RangeOf,    \* the newest ledger of each node, in units of LEDGER_RANGE
    UnlOf,      \* the validator site of each node
    NoUnl,      \* a node has none
    Rpc,        \* the UNL of a network whose validators come from RPC
    Url,        \* entries of networks
    NodeAt,     \* the node at each entry
    NoRow,      \* the node has no row in crawls
    NoNetwork,  \* the row has a null networks column
    InitialNetworks

VARIABLES
    networks,   \* table networks (NetworkLookup adds to it)
    crawls,     \* the latest crawler of each network
    named,      \* table crawls: the networks column
    writes      \* queries issued and not yet committed

crawlerVars == <<networks, crawls, named, writes>>

-----------------------------------------------------------------------------
(* Data. *)

Port == {PortOf[x] : x \in Node}
Unl == {UnlOf[x] : x \in Node} \cup {Rpc}
Network == [id : Nat, entry : Url, port : Port, unls : SUBSET Unl]

ASSUME CrawlerAssumption ==
    /\ Links \subseteq {l \in Node \X Node : l[1] # l[2]}
    /\ Hidden \subseteq Node \X Node
    /\ {DOMAIN PortOf, DOMAIN RangeOf, DOMAIN UnlOf} = {Node}
    /\ NodeAt \in [Url -> Node]
    /\ InitialNetworks \subseteq Network
    /\ \A n \in InitialNetworks, m \in InitialNetworks :
           n # m => n.id # m.id /\ n.entry # m.entry
    /\ NoRow \notin Nat /\ NoNetwork \notin Nat /\ NoRow # NoNetwork

entryOf(c) == NodeAt[c.entry]

Ended(c) == crawls[c].pending = {}

(* Hosts are addresses; the connections are those of public keys.          *)
host(x) == <<"address of", x>>

ASSUME HostAssumption == \A x \in Node : host(x) \notin Node

-----------------------------------------------------------------------------
(* The traversal. *)

ledgerInRange(x, y) == RangeOf[x] = RangeOf[y]

(* The connections that x reports and the crawler takes notice of. *)
ReportedLinks(x) ==
    {l \in Links : x \in {l[1], l[2]} /\ ledgerInRange(l[1], l[2])}
Reported(x) == {y \in Node \ {x} : \E l \in ReportedLinks(x) : y \in {l[1], l[2]}}

(* updateConnections, for every peer that x reports.                       *)
(* Mutant: the other end is given the same type of connection.             *)
Entries(connections, keys) ==
    [k \in DOMAIN connections \cup keys |->
        IF k \in DOMAIN connections THEN connections[k] ELSE [in |-> {}, out |-> {}]]

SameTypeAtBothEnds(connections, x) ==
    LET links == ReportedLinks(x)
        keys == UNION {{l[1], l[2]} : l \in links}
        old == Entries(connections, keys)
    IN  [k \in DOMAIN old |->
            [in |-> old[k].in \cup {j \in Node : k = x /\ <<j, x>> \in links}
                              \cup {j \in {x} : <<k, x>> \in links},
             out |-> old[k].out \cup {j \in Node : k = x /\ <<x, j>> \in links}
                                \cup {j \in {x} : <<x, k>> \in links}]]

updateConnections(connections, x) ==
    LET links == ReportedLinks(x)
        keys == UNION {{l[1], l[2]} : l \in links}
        old == Entries(connections, keys)
    IN  [k \in DOMAIN old |->
            [in |-> old[k].in \cup {j \in Node : <<j, k>> \in links},
             out |-> old[k].out \cup {j \in Node : <<k, j>> \in links}]]

removeConnection(connections, badNode) ==
    [k \in DOMAIN connections \ {badNode} |-> connections[k]]

(* The node reports a validator site that is not one of the network's.     *)
ForeignUnl(network, x) ==
    /\ UnlOf[x] # NoUnl
    /\ network.unls # {Rpc}
    /\ UnlOf[x] \notin network.unls

peerOnWrongPort(network, x, y) ==
    <<x, y>> \notin Hidden /\ PortOf[y] # network.port

(* publicKeysSeen belongs to a crawler, and has the peers that were        *)
(* reported.  Mutants: it is shared by all; it has those that answered.    *)
UnseenByAny(c, x) == Reported(x) \ UNION {crawls[d].seen : d \in DOMAIN crawls}
Unanswered(c, x) == Reported(x) \ crawls[c].answered
Unseen(c, x) == Reported(x) \ crawls[c].seen

NewCrawl(network) ==
    [seen |-> {},
     connections |-> [k \in {} |-> {}],
     pending |-> {NodeAt[network.entry]},       \* requests to /crawl
     requests |-> [x \in Node |-> IF x = NodeAt[network.entry] THEN 1 ELSE 0],
     answered |-> {}]                           \* history, as is requests

-----------------------------------------------------------------------------
(* Queries. *)

(* saveNode: an insert whose merge does not set networks.                  *)
(* Mutant: columns that are not given are set to null.                     *)
SaveNode(x) == <<"save", x>>
SavedNull(x) == NoNetwork
Saved(x) == IF named[x] = NoRow THEN NoNetwork ELSE named[x]

(* saveConnections updates rows that exist.  Mutant: with the entry.       *)
SaveEntry(network, keys) == {<<"name", x, network.entry>> : x \in keys}
SaveConnections(network, keys) == {<<"name", x, network.id>> : x \in keys}
Named(x, id) == IF named[x] = NoRow THEN NoRow ELSE id

Commit(w) ==
    /\ w \in writes
    /\ named' = [named EXCEPT ![w[2]] =
                    IF w[1] = "save" THEN Saved(w[2]) ELSE Named(w[2], w[3])]
    /\ writes' = writes \ {w}
    /\ UNCHANGED <<networks, crawls>>

-----------------------------------------------------------------------------
(* crawlEndpoint: one action per outcome of the request to the node x.     *)
(* When the last one is there, crawl saves the connections.                *)
Proceed(c, crawl, saves) ==
    /\ crawls' = [crawls EXCEPT ![c] = crawl]
    /\ writes' = writes \cup saves
                 \cup IF crawl.pending = {}
                      THEN SaveConnections(c, DOMAIN crawl.connections)
                      ELSE {}
    /\ UNCHANGED <<networks, named>>

Answer(c, x) ==
    LET old == crawls[c]
        unseen == Unseen(c, x)
        saved == {y \in unseen : ~peerOnWrongPort(c, x, y)}
        next == {y \in saved : <<x, y>> \notin Hidden}
    IN  /\ x \in old.pending
        /\ ~ForeignUnl(c, x)
        /\ Proceed(c,
             [seen |-> old.seen \cup unseen,
              connections |-> updateConnections(old.connections, x),
              pending |-> (old.pending \ {x}) \cup next,
              requests |-> [y \in Node |-> old.requests[y] + IF y \in next THEN 1 ELSE 0],
              answered |-> old.answered \cup {x}],
             {SaveNode(y) : y \in saved \cup {x}})

Refuse(c, x) ==
    LET old == crawls[c] IN
    /\ x \in old.pending
    /\ ForeignUnl(c, x)
    /\ Proceed(c, [old EXCEPT !.connections = removeConnection(@, host(x)),
                              !.pending = @ \ {x}], {})

(* The request fails, or times out after six seconds. *)
Fail(c, x) ==
    /\ x \in crawls[c].pending
    /\ Proceed(c, [crawls[c] EXCEPT !.pending = @ \ {x}], {})

-----------------------------------------------------------------------------
(* The crawler process: every two minutes getNetworks, then a crawler for  *)
(* each network.  The last round has ended.                                *)
Crawl ==
    /\ \A c \in DOMAIN crawls : Ended(c)
    /\ writes = {}
    /\ crawls' = [c \in networks |-> NewCrawl(c)]
    /\ UNCHANGED <<networks, named, writes>>

CrawlerInit ==
    /\ networks = InitialNetworks
    /\ crawls = [c \in {} |-> {}]
    /\ named = [x \in Node |-> NoRow]
    /\ writes = {}

Respond ==
    \E c \in DOMAIN crawls : \E x \in crawls[c].pending :
        Answer(c, x) \/ Refuse(c, x) \/ Fail(c, x)
CommitAny == \E w \in writes : Commit(w)

CrawlerNext == Crawl \/ Respond \/ CommitAny

CrawlerSpec ==
    /\ CrawlerInit /\ [][CrawlerNext]_crawlerVars
    /\ WF_crawlerVars(Crawl) /\ WF_crawlerVars(Respond) /\ WF_crawlerVars(CommitAny)

-----------------------------------------------------------------------------
(* Properties. *)

(* The types of the variables; a crawler's connections are of nodes only,  *)
(* and a request is of the entry or of a peer that was reported.           *)
CrawlerTypeOK ==
    /\ networks \subseteq Network
    /\ DOMAIN crawls \subseteq networks
    /\ \A c \in DOMAIN crawls :
           /\ DOMAIN crawls[c].connections \subseteq Node
           /\ crawls[c].seen \subseteq Node
           /\ crawls[c].pending \cup crawls[c].answered \subseteq
                  crawls[c].seen \cup {entryOf(c)}
    /\ named \in [Node -> {n.id : n \in networks} \cup {NoRow, NoNetwork}]
    /\ writes \subseteq {SaveNode(x) : x \in Node}
                   \cup UNION {SaveConnections(n, Node) : n \in networks}

(* However the parallel branches of a crawl interleave, each node gets one *)
(* request of it; the entry, whose key is not known before it answers, may *)
(* get a second one as a peer.                                             *)
OncePerCrawl ==
    \A c \in DOMAIN crawls, x \in Node :
        crawls[c].requests[x] <= IF x = entryOf(c) THEN 2 ELSE 1

(* A crawl that has ended has asked every node on the network's port that  *)
(* any node which answered is connected to, unless some node hides its     *)
(* address (publicKeysSeen then keeps the crawler from asking it when      *)
(* another one shows the address).                                         *)
EveryPeerIsCrawled ==
    \A c \in DOMAIN crawls :
        Ended(c) => \A x \in crawls[c].answered : \A y \in Reported(x) :
            \/ PortOf[y] # c.port
            \/ \E z \in Node : <<z, y>> \in Hidden
            \/ crawls[c].requests[y] > 0

(* inbound_count and outbound_count: a connection is counted once at each  *)
(* of its ends and in the right direction, whether one or both of its ends *)
(* have answered, and in whatever order.                                   *)
CountsAreExact ==
    \A c \in DOMAIN crawls : \A k \in DOMAIN crawls[c].connections :
        LET Known(l) == /\ l \in Links /\ ledgerInRange(l[1], l[2])
                        /\ {l[1], l[2]} \cap crawls[c].answered # {}
        IN  crawls[c].connections[k] = [in |-> {j \in Node : Known(<<j, k>>)},
                                        out |-> {j \in Node : Known(<<k, j>>)}]

(* A row that was inserted too late for the update of its crawl gets its   *)
(* network from a later crawl, and keeps one: a node that is reported in   *)
(* crawl after crawl is not without a network for good.                    *)
NodesGetNamed ==
    \A x \in Node :
        []<>(/\ named[x] # NoRow
             /\ \E c \in DOMAIN crawls :
                    Ended(c) /\ x \in DOMAIN crawls[c].connections)
        => <>[](named[x] \notin {NoRow, NoNetwork})
=============================================================================
