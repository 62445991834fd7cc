----------------------------- MODULE Connections -----------------------------
(***************************************************************************)
(* The WebSocket connections of the connection manager:                    *)
(* src/src/connection-manager/connections.ts, peer-selection.ts and the    *)
(* table connection_health (src/src/shared/database/connectionHealth.ts).  *)
(*                                                                         *)
(* createConnections runs once at the start and then hourly, and looks for *)
(* an endpoint of every selected node; every socket has the handlers of    *)
(* setHandlers, which run between the events of the others and between     *)
(* their queries.  The queries that write the table are not awaited (void) *)
(* and go through a pool of connections: they commit in any order.         *)
(***************************************************************************)
EXTENDS Naturals, Sequences, FiniteSets, Functions

CONSTANTS
    Entry,          \* entry nodes of the networks: no public key is known
    Peer,           \* crawled nodes, each with its public key
    Url,
    UrlsOf,         \* the endpoints tried for a node
    AddressIn,      \* the URLs that contain the address of an entry node
    MaxConnections, \* max_ws_connections
    MaxRetries,     \* retries with a delay within MAX_RETRY_DELAY (5)
    Socket,         \* bound: sockets that exist at once, numbers
    MaxCycles,      \* bound on the hourly cycles
    MaxRestarts,    \* bound on the restarts of the process
    MaxClosings,    \* bound on what peers and the network do to sockets
    MaxWrites       \* bound: uncommitted writes of a row before the next event

Node == Entry \cup Peer

ASSUME ConnectionsAssumption ==
    /\ Entry \cap Peer = {}
    /\ UrlsOf \in [Node -> SUBSET Url \ {{}}]
    /\ AddressIn \in [Entry -> SUBSET Url]
    /\ Socket \subseteq Nat
    /\ {MaxConnections, MaxRetries, MaxCycles, MaxRestarts, MaxClosings, MaxWrites} \subseteq Nat

VARIABLES
    connection_health,  \* the table: ws_url -> row
    writes,     \* issued and uncommitted writes of each row, oldest first
    sock,       \* the sockets that have not ended
    timers,     \* reconnections waiting for their delay
    finding,    \* a createConnections is running
    toFind,     \* the nodes whose findConnection waits for its query
    cycles, restarts, closings,
    raced       \* history: URLs with one of the races of HealthIsTruthful

countVars == <<cycles, restarts, closings>>
vars == <<connection_health, writes, sock, timers, finding, toFind, countVars, raced>>

-----------------------------------------------------------------------------
(* Data. *)

(* A socket that closed while its open handler waits for its query.        *)
Closed == "closed"

(* opened says how far the open handler of a socket has come; awaited,     *)
(* that the promise of setHandlers is one createConnections waits for.     *)
SocketState == [url : Url, node : Node, retry : 0..MaxRetries,
                ready : {"connecting", "open", "closing", Closed},
                opened : {"no", "checking", "subscribed"},
                pongReceived : BOOLEAN, silent : BOOLEAN, awaited : BOOLEAN]

Write == [connected : BOOLEAN, node : Node]

Connected(u) == u \in DOMAIN connection_health /\ connection_health[u].connected

isNodeConnected(n) ==
    \/ n \in Peer /\ \E u \in DOMAIN connection_health :
          Connected(u) /\ connection_health[u].node = n
    \/ n \in Entry /\ \E u \in AddressIn[n] : Connected(u)

Subscribed(s) == sock[s].opened = "subscribed"
At(u) == {s \in DOMAIN sock : sock[s].url = u}

Ended(S) == [s \in DOMAIN sock \ S |-> sock[s]]

NewSocket(u, n, retry, awaited) ==
    [url |-> u, node |-> n, retry |-> retry, ready |-> "connecting", opened |-> "no",
     pongReceived |-> TRUE, silent |-> FALSE, awaited |-> awaited]

(* A new socket takes the first free number. *)
FirstFree(n) ==
    {s \in Socket \ DOMAIN sock : Cardinality({r \in Socket \ DOMAIN sock : r < s}) < n}

Free(u) == Len(writes[u]) < MaxWrites
Issue(u, n, connected) ==
    writes' = [writes EXCEPT ![u] = Append(@, [connected |-> connected, node |-> n])]

-----------------------------------------------------------------------------
(* createConnections and findConnection. *)

(* selectConnectionTargets: the entry nodes, then the crawled nodes of the *)
(* highest uptime, which change from crawl to crawl.                       *)
Targets ==
    IF MaxConnections <= Cardinality(Entry)
    THEN {T \in SUBSET Entry : Cardinality(T) = MaxConnections}
    ELSE LET slots == MaxConnections - Cardinality(Entry)
         IN  {Entry \cup P : P \in {Q \in SUBSET Peer :
                Cardinality(Q) = IF slots <= Cardinality(Peer) THEN slots ELSE Cardinality(Peer)}}

CreateConnections ==
    /\ ~finding
    /\ cycles < MaxCycles
    /\ finding' = TRUE
    /\ toFind' \in Targets
    /\ cycles' = cycles + 1
    /\ UNCHANGED <<connection_health, writes, sock, timers, restarts, closings, raced>>

(* A node that the table says is connected is left alone; a socket is made *)
(* for every endpoint of another.                                          *)
LeaveConnected(n) ==
    /\ n \in toFind
    /\ isNodeConnected(n)
    /\ toFind' = toFind \ {n}
    /\ UNCHANGED <<connection_health, writes, sock, timers, finding, countVars, raced>>

FindConnection(n) ==
    /\ n \in toFind
    /\ ~isNodeConnected(n)
    /\ \E slot \in Injection(UrlsOf[n], FirstFree(Cardinality(UrlsOf[n]))) :
          sock' = [s \in DOMAIN sock \cup Range(slot) |->
                     IF s \in DOMAIN sock THEN sock[s]
                     ELSE NewSocket(CHOOSE u \in UrlsOf[n] : slot[u] = s, n, 0, TRUE)]
    /\ toFind' = toFind \ {n}
    /\ UNCHANGED <<connection_health, writes, timers, finding, countVars, raced>>

(* Promise.all over the targets: every promise of setHandlers is resolved. *)
ConnectionsCreated ==
    /\ finding
    /\ toFind = {}
    /\ \A s \in DOMAIN sock : ~sock[s].awaited
    /\ finding' = FALSE
    /\ UNCHANGED <<connection_health, writes, sock, timers, toFind, countVars, raced>>

-----------------------------------------------------------------------------
(* The handlers of a socket. *)

Open(s) ==
    /\ sock[s].ready = "connecting"
    /\ ~sock[s].silent
    /\ sock' = [sock EXCEPT ![s].ready = "open", ![s].opened = "checking"]
    /\ UNCHANGED <<connection_health, writes, timers, finding, toFind, countVars, raced>>

(* The answer of isNodeConnectedByWsUrl: the URL is connected already, or  *)
(* not.  A socket that closed meanwhile is saved as connected all the same *)
(* and ends here: its heartbeat finds nothing to terminate.                *)
OpenIsDuplicate(s) ==
    /\ sock[s].opened = "checking"
    /\ Connected(sock[s].url)
    /\ sock' = IF sock[s].ready = Closed THEN Ended({s})
               ELSE [sock EXCEPT ![s].ready = "closing", ![s].opened = "no", ![s].awaited = FALSE]
    /\ UNCHANGED <<connection_health, writes, timers, finding, toFind, countVars, raced>>

OpenSubscribes(s) ==
    /\ sock[s].opened = "checking"
    /\ ~Connected(sock[s].url)
    /\ Free(sock[s].url)
    /\ Issue(sock[s].url, sock[s].node, TRUE)
    /\ sock' = IF sock[s].ready = Closed THEN Ended({s})
               ELSE [sock EXCEPT ![s].opened = "subscribed", ![s].awaited = FALSE]
    /\ UNCHANGED <<connection_health, timers, finding, toFind, countVars, raced>>

(* The close handler, and before it the error handler if there was an      *)
(* error: the row is updated, and one of CLOSING_CODES within the retries  *)
(* starts the delay of a reconnection.  Mutant: one retry too many.        *)
OneTooMany(s) == sock[s].retry <= MaxRetries
RetriesLeft(s) == sock[s].retry < MaxRetries
CLOSING_CODES == {1005, 1006, 1008}

Reconnection(s, code) ==
    IF code \in CLOSING_CODES /\ RetriesLeft(s)
    THEN {[url |-> sock[s].url, node |-> sock[s].node, retry |-> sock[s].retry + 1]}
    ELSE {}

(* Mutant: the row is left alone. *)
LeavesTheRow(s) == UNCHANGED writes
UpdateStatus(s) == Issue(sock[s].url, sock[s].node, FALSE)

Close(s, code) ==
    /\ Free(sock[s].url)
    /\ UpdateStatus(s)
    /\ timers' = timers \cup Reconnection(s, code)
    /\ sock' = IF sock[s].opened = "checking"
               THEN [sock EXCEPT ![s].ready = Closed, ![s].awaited = FALSE]
               ELSE Ended({s})
    /\ raced' = IF sock[s].opened = "checking" \/ \E t \in At(sock[s].url) \ {s} : Subscribed(t)
                THEN raced \cup {sock[s].url} ELSE raced
    /\ UNCHANGED <<connection_health, finding, toFind, cycles, restarts>>

(* The connection is refused, or handshakeTimeout passes.  Mutant: there   *)
(* is no such timeout.                                                     *)
NoTimeout(s) == ~sock[s].silent
HandshakeTimeout(s) == TRUE

HandshakeFails(s) ==
    /\ sock[s].ready = "connecting"
    /\ HandshakeTimeout(s)
    /\ Close(s, 1006)
    /\ UNCHANGED closings

(* ws.close() of a duplicate completes, or its peer does not answer. *)
CloseCompletes(s) ==
    /\ sock[s].ready = "closing"
    /\ \E code \in {1005, 1006} : Close(s, code)
    /\ UNCHANGED closings

(* The peer or the network closes an open connection. *)
PeerCloses(s) ==
    /\ sock[s].ready = "open"
    /\ closings < MaxClosings
    /\ closings' = closings + 1
    /\ \E code \in {1000, 1006, 1008} : Close(s, code)

(* The other end vanishes without a word: nothing is received any more.    *)
PeerVanishes(s) ==
    /\ sock[s].ready # Closed
    /\ ~sock[s].silent
    /\ closings < MaxClosings
    /\ closings' = closings + 1
    /\ sock' = [sock EXCEPT ![s].silent = TRUE]
    /\ UNCHANGED <<connection_health, writes, timers, finding, toFind, cycles, restarts, raced>>

(* The heartbeat of a subscribed socket terminates it if no pong came      *)
(* since the last ping.  Mutant: the flag is not reset.                    *)
NotReset(flag) == flag
Reset(flag) == FALSE

Ping(s) ==
    /\ Subscribed(s)
    /\ sock[s].ready = "open"
    /\ sock[s].pongReceived
    /\ sock' = [sock EXCEPT ![s].pongReceived = Reset(@)]
    /\ UNCHANGED <<connection_health, writes, timers, finding, toFind, countVars, raced>>

(* A living peer answers within the interval. *)
Pong(s) ==
    /\ Subscribed(s)
    /\ ~sock[s].silent
    /\ ~sock[s].pongReceived
    /\ sock' = [sock EXCEPT ![s].pongReceived = TRUE]
    /\ UNCHANGED <<connection_health, writes, timers, finding, toFind, countVars, raced>>

TerminateDead(s) ==
    /\ Subscribed(s)
    /\ sock[s].ready = "open"
    /\ sock[s].silent
    /\ ~sock[s].pongReceived
    /\ Close(s, 1006)
    /\ UNCHANGED closings

(* The delay is over: a new socket for the same URL. *)
Reconnect(t) ==
    /\ t \in timers
    /\ \E s \in FirstFree(1) :
          sock' = [r \in DOMAIN sock \cup {s} |->
                     IF r = s THEN NewSocket(t.url, t.node, t.retry, FALSE) ELSE sock[r]]
    /\ timers' = timers \ {t}
    /\ UNCHANGED <<connection_health, writes, finding, toFind, countVars, raced>>

-----------------------------------------------------------------------------
(* The table. *)

(* saveConnectionHealth inserts or merges the row; the update of a row     *)
(* that is not there does nothing.                                         *)
WrittenBy(w, u) ==
    IF w.connected
    THEN [v \in DOMAIN connection_health \cup {u} |-> IF v = u THEN w ELSE connection_health[v]]
    ELSE IF u \in DOMAIN connection_health
         THEN [connection_health EXCEPT ![u].connected = FALSE]
         ELSE connection_health

Commit(u) ==
    \E i \in DOMAIN writes[u] :
        /\ connection_health' = WrittenBy(writes[u][i], u)
        /\ writes' = [writes EXCEPT ![u] = SubSeq(@, 1, i - 1) \o SubSeq(@, i + 1, Len(@))]
        /\ raced' = IF i = 1 THEN raced ELSE raced \cup {u}
        /\ UNCHANGED <<sock, timers, finding, toFind, countVars>>

(* The process ends and starts: its sockets and what it had not written    *)
(* are gone, and startConnections clears the table before its first        *)
(* createConnections.  Mutant: the rows stay.                              *)
KeepsRows(rows) == rows
clearConnectionHealthDb(rows) == [u \in {} |-> {}]

Restart ==
    /\ restarts < MaxRestarts
    /\ restarts' = restarts + 1
    /\ connection_health' = clearConnectionHealthDb(connection_health)
    /\ writes' = [u \in Url |-> <<>>]
    /\ sock' = [s \in {} |-> {}]
    /\ timers' = {}
    /\ finding' = FALSE
    /\ toFind' = {}
    /\ raced' = {}
    /\ UNCHANGED <<cycles, closings>>

-----------------------------------------------------------------------------

Init ==
    /\ connection_health = [u \in {} |-> {}]
    /\ writes = [u \in Url |-> <<>>]
    /\ sock = [s \in {} |-> {}]
    /\ timers = {}
    /\ finding = FALSE
    /\ toFind = {}
    /\ cycles = 0 /\ restarts = 0 /\ closings = 0
    /\ raced = {}

(* The bound on the cycles ends a behaviour; anywhere else a state without *)
(* a step is a deadlock.                                                   *)
EndOfRun == cycles = MaxCycles /\ ~finding /\ UNCHANGED vars

(* What the program, its timers and the sockets' own timeouts do for s.    *)
Progress(s) ==
    /\ s \in DOMAIN sock
    /\ \/ HandshakeFails(s) \/ OpenIsDuplicate(s) \/ OpenSubscribes(s)
       \/ CloseCompletes(s) \/ Ping(s) \/ Pong(s) \/ TerminateDead(s)

Network(s) == s \in DOMAIN sock /\ (Open(s) \/ PeerCloses(s) \/ PeerVanishes(s))

Cycle == ConnectionsCreated \/ \E n \in Node : LeaveConnected(n) \/ FindConnection(n)

Next ==
    \/ CreateConnections
    \/ Cycle
    \/ \E s \in Socket : Progress(s) \/ Network(s)
    \/ \E t \in timers : Reconnect(t)
    \/ \E u \in Url : Commit(u)
    \/ Restart
    \/ EndOfRun

Spec == Init /\ [][Next]_vars

(* Queries are answered, timers fire, timeouts pass, and Node's event loop *)
(* gets to every ready handler.                                            *)
FairSpec ==
    /\ Spec
    /\ WF_vars(Cycle)
    /\ \A s \in Socket : WF_vars(Progress(s))
    /\ WF_vars(\E t \in timers : Reconnect(t))
    /\ \A u \in Url : WF_vars(Commit(u))

-----------------------------------------------------------------------------
(* Properties. *)

TypeOK ==
    /\ DOMAIN connection_health \subseteq Url
    /\ connection_health \in [DOMAIN connection_health -> Write]
    /\ writes \in [Url -> Seq(Write)]
    /\ DOMAIN sock \subseteq Socket
    /\ sock \in [DOMAIN sock -> SocketState]
    /\ timers \subseteq [url : Url, node : Node, retry : 1..MaxRetries]
    /\ toFind \subseteq Node
    /\ toFind # {} => finding
    /\ raced \subseteq Url

Quiet(u) == writes[u] = <<>>
Live(u) == \E s \in At(u) : Subscribed(s) /\ sock[s].ready = "open"

(* A row says connected exactly if a subscribed socket of its URL is open, *)
(* once its writes are committed: through refused connections, closings,   *)
(* reconnections, dead peers and restarts.  Three races alone spoil a row: *)
(* a second socket of the URL closes or fails while the first stays, a     *)
(* socket closes while its open handler waits for its query, and writes    *)
(* are committed out of order.                                             *)
HealthIsTruthful == \A u \in Url \ raced : Quiet(u) => (Connected(u) <=> Live(u))

(* Whatever its peers do, a createConnections ends: the first one keeps    *)
(* startConnections from scheduling everything that recurs.                *)
CyclesEnd == finding ~> ~finding

(* A socket whose other end vanished does not stay: opening, subscribed or *)
(* closing, a timeout or the heartbeat ends it.                            *)
VanishedPeersAreDropped ==
    \A s \in Socket : (s \in DOMAIN sock /\ sock[s].silent) ~> (s \notin DOMAIN sock \/ ~sock[s].silent)
=============================================================================
