---------------------------- MODULE CrawlerProofs -----------------------------
(***************************************************************************)
(* What holds of the crawls for any graph of nodes, any networks and any   *)
(* interleaving of the branches.                                           *)
(***************************************************************************)
EXTENDS Crawler, TLAPS

(* A crawl, field by field. *)
IsCrawl(old) ==
    /\ old = [seen |-> old.seen, connections |-> old.connections, pending |-> old.pending,
              requests |-> old.requests, answered |-> old.answered]
    /\ {old.seen, old.pending, old.answered} \subseteq SUBSET Node
    /\ DOMAIN old.connections \subseteq Node
    /\ old.requests \in [Node -> Nat]

Ids == {n.id : n \in networks}
Writes == {SaveNode(x) : x \in Node} \cup UNION {SaveConnections(n, Node) : n \in networks}

Shape ==
    /\ networks \subseteq Network
    /\ crawls = [c \in DOMAIN crawls |-> crawls[c]]
    /\ DOMAIN crawls \subseteq networks
    /\ \A c \in DOMAIN crawls : IsCrawl(crawls[c])
    /\ named \in [Node -> Ids \cup {NoRow, NoNetwork}]
    /\ writes \subseteq Writes

-----------------------------------------------------------------------------
(* What holds of one crawl. *)

AskedWereSeen(c, crawl) == crawl.pending \cup crawl.answered \subseteq crawl.seen \cup {entryOf(c)}

(* One request as a peer that was seen, and one as the entry.              *)
AtMostOnce(c, crawl) ==
    \A x \in Node : crawl.requests[x] <= (IF x \in crawl.seen THEN 1 ELSE 0)
                                         + (IF x = entryOf(c) THEN 1 ELSE 0)

(* The peers of nodes that answered were seen; those that were seen were   *)
(* asked, but for those that were left out.                                *)
LeftOut(c, y) == PortOf[y] # c.port \/ \E z \in Node : <<z, y>> \in Hidden

SeenWereAsked(c, crawl) ==
    /\ \A x \in crawl.answered : Reported(x) \subseteq crawl.seen
    /\ \A y \in crawl.seen : LeftOut(c, y) \/ crawl.requests[y] > 0

(* A link is known once one of its ends has answered.                      *)
Known(crawl, l) ==
    l \in Links /\ ledgerInRange(l[1], l[2]) /\ {l[1], l[2]} \cap crawl.answered # {}

Counted(crawl) ==
    /\ \A l \in Links : Known(crawl, l) => {l[1], l[2]} \subseteq DOMAIN crawl.connections
    /\ \A k \in DOMAIN crawl.connections :
          crawl.connections[k] = [in |-> {j \in Node : Known(crawl, <<j, k>>)},
                                  out |-> {j \in Node : Known(crawl, <<k, j>>)}]

Right(c, crawl) ==
    IsCrawl(crawl) /\ AskedWereSeen(c, crawl) /\ AtMostOnce(c, crawl)
    /\ SeenWereAsked(c, crawl) /\ Counted(crawl)

CrawlerInv == Shape /\ \A c \in DOMAIN crawls : Right(c, crawls[c])

-----------------------------------------------------------------------------
LEMMA Constants ==
    /\ \A l \in Links : l = <<l[1], l[2]>> /\ l[1] \in Node /\ l[2] \in Node /\ l[1] # l[2]
    /\ \A n \in Network : entryOf(n) \in Node
    /\ \A x \in Node : host(x) \notin Node /\ Reported(x) \in SUBSET Node
BY CrawlerAssumption, HostAssumption DEF entryOf, Network, Reported

(* A crawl begins with a request to the entry.                             *)
LEMMA NewCrawlRight ==
    ASSUME NEW c \in Network
    PROVE  Right(c, NewCrawl(c))
<1>. DEFINE new == NewCrawl(c)
<1>1. /\ new.seen = {} /\ new.connections = [k \in {} |-> {}] /\ new.pending = {entryOf(c)}
      /\ new.requests = [x \in Node |-> IF x = entryOf(c) THEN 1 ELSE 0] /\ new.answered = {}
      /\ new = [seen |-> new.seen, connections |-> new.connections, pending |-> new.pending,
                requests |-> new.requests, answered |-> new.answered]
    BY DEF NewCrawl, entryOf
<1>. HIDE DEF new
<1>2. IsCrawl(new)
    BY <1>1, Constants DEF IsCrawl
<1>3. AskedWereSeen(c, new) /\ AtMostOnce(c, new) /\ SeenWereAsked(c, new)
    BY <1>1 DEF AskedWereSeen, AtMostOnce, SeenWereAsked
<1>4. Counted(new)
    BY <1>1 DEF Counted, Known
<1>. QED BY <1>2, <1>3, <1>4 DEF Right, new

(* Two fields of a crawl change at once.                                   *)
LEMMA TwoFields ==
    ASSUME NEW old, NEW new, NEW cs, NEW p,
           old = [seen |-> old.seen, connections |-> old.connections, pending |-> old.pending,
                  requests |-> old.requests, answered |-> old.answered],
           new = [old EXCEPT !.connections = cs, !.pending = p]
    PROVE  new = [seen |-> old.seen, connections |-> cs, pending |-> p,
                  requests |-> old.requests, answered |-> old.answered]
<1>. DEFINE Css == {old.connections, cs}  Ps == {old.pending, p}
            Like == [seen : {old.seen}, connections : Css, pending : Ps,
                     requests : {old.requests}, answered : {old.answered}]
<1>1. old \in Like /\ cs \in Css /\ p \in Ps
    OBVIOUS
<1>. HIDE DEF Css, Ps
<1>2. /\ new \in Like /\ new.connections = cs /\ new.pending = p /\ new.seen = old.seen
      /\ new.requests = old.requests /\ new.answered = old.answered
    BY <1>1
<1>. QED BY <1>2

(* A request that fails or is refused takes the node off the pending ones. *)
LEMMA DroppedRight ==
    ASSUME NEW c \in Network, NEW old, Right(c, old), NEW x \in Node, NEW new,
           \/ new = [old EXCEPT !.pending = @ \ {x}]
           \/ new = [old EXCEPT !.connections = removeConnection(@, host(x)), !.pending = @ \ {x}]
    PROVE  Right(c, new)
<1>1. IsCrawl(old)
    BY DEF Right
<1>2. /\ new.seen = old.seen /\ new.pending = old.pending \ {x}
      /\ new.requests = old.requests /\ new.answered = old.answered
      /\ new = [seen |-> new.seen, connections |-> new.connections, pending |-> new.pending,
                requests |-> new.requests, answered |-> new.answered]
      /\ new.connections \in {old.connections, removeConnection(old.connections, host(x))}
  <2>. DEFINE Fields(cs) == [seen |-> old.seen, connections |-> cs, pending |-> old.pending \ {x},
                             requests |-> old.requests, answered |-> old.answered]
  <2>1. old = [seen |-> old.seen, connections |-> old.connections, pending |-> old.pending,
               requests |-> old.requests, answered |-> old.answered]
      BY <1>1 DEF IsCrawl
  <2>2. CASE new = [old EXCEPT !.pending = @ \ {x}]
    <3>1. new = Fields(old.connections)
        BY <2>1, <2>2
    <3>. QED BY <3>1
  <2>3. CASE new = [old EXCEPT !.connections = removeConnection(@, host(x)), !.pending = @ \ {x}]
    <3>1. new = Fields(removeConnection(old.connections, host(x)))
        BY <2>1, <2>3, TwoFields
    <3>. QED BY <3>1
  <2>. QED BY <2>2, <2>3
<1>3. /\ DOMAIN new.connections = DOMAIN old.connections
      /\ \A k \in DOMAIN new.connections : new.connections[k] = old.connections[k]
  <2>1. host(x) \notin DOMAIN old.connections
      BY <1>1, Constants DEF IsCrawl
  <2>. QED BY <1>2, <2>1 DEF removeConnection
<1>4. IsCrawl(new)
    BY <1>1, <1>2, <1>3 DEF IsCrawl
<1>5. AskedWereSeen(c, new) /\ AtMostOnce(c, new) /\ SeenWereAsked(c, new)
    BY <1>2 DEF Right, AskedWereSeen, AtMostOnce, SeenWereAsked
<1>6. Counted(new)
  <2>1. \A l : Known(new, l) = Known(old, l)
      BY <1>2 DEF Known
  <2>. QED BY <1>3, <2>1 DEF Right, Counted
<1>. QED BY <1>4, <1>5, <1>6 DEF Right

(* The connections that x reports are known from now on.                   *)
LEMMA UpdateConnectionsCounts ==
    ASSUME NEW old, IsCrawl(old), Counted(old), NEW x \in Node, NEW new,
           new.connections = updateConnections(old.connections, x),
           new.answered = old.answered \cup {x}
    PROVE  Counted(new) /\ DOMAIN new.connections \subseteq Node
<1>. DEFINE links == ReportedLinks(x)
            keys == UNION {{l[1], l[2]} : l \in links}
            known == DOMAIN old.connections
            entries == Entries(old.connections, keys)
<1>1. \A l : Known(new, l) <=> Known(old, l) \/ l \in links
    BY DEF Known, ReportedLinks
<1>2. keys \subseteq Node /\ known \subseteq Node /\ \A l \in links : l[1] \in keys /\ l[2] \in keys
    BY Constants DEF ReportedLinks, IsCrawl
<1>3. /\ DOMAIN entries = known \cup keys
      /\ \A k \in known : entries[k] = old.connections[k]
      /\ \A k \in keys \ known : entries[k] = [in |-> {}, out |-> {}]
    BY DEF Entries
<1>4. /\ DOMAIN new.connections = known \cup keys
      /\ \A k \in known \cup keys :
            new.connections[k] = [in |-> entries[k].in \cup {j \in Node : <<j, k>> \in links},
                                  out |-> entries[k].out \cup {j \in Node : <<k, j>> \in links}]
    BY <1>3 DEF updateConnections
<1>. HIDE DEF keys, entries
<1>5. ASSUME NEW l \in Links, Known(new, l) PROVE {l[1], l[2]} \subseteq DOMAIN new.connections
    BY <1>1, <1>2, <1>4, <1>5 DEF Counted
<1>6. ASSUME NEW k \in known \cup keys
      PROVE  /\ entries[k].in = {j \in Node : Known(old, <<j, k>>)}
             /\ entries[k].out = {j \in Node : Known(old, <<k, j>>)}
  <2>. DEFINE ins == {j \in Node : Known(old, <<j, k>>)}  outs == {j \in Node : Known(old, <<k, j>>)}
  <2>1. entries[k] = [in |-> ins, out |-> outs]
    <3>1. CASE k \in known
      <4>1. old.connections[k] = [in |-> ins, out |-> outs]
          BY <3>1 DEF Counted
      <4>. QED BY <1>3, <3>1, <4>1
    <3>2. CASE k \notin known
      <4>1. \A j \in Node : ~Known(old, <<j, k>>) /\ ~Known(old, <<k, j>>)
          BY <3>2 DEF Counted, Known
      <4>2. ins = {} /\ outs = {}
          BY <4>1
      <4>. HIDE DEF ins, outs
      <4>. QED BY <1>3, <1>6, <3>2, <4>2
    <3>. QED BY <3>1, <3>2
  <2>. HIDE DEF ins, outs
  <2>2. entries[k].in = ins /\ entries[k].out = outs
      BY <2>1
  <2>. QED BY <2>2 DEF ins, outs
<1>7. ASSUME NEW k \in known \cup keys
      PROVE  new.connections[k] = [in |-> {j \in Node : Known(new, <<j, k>>)},
                                   out |-> {j \in Node : Known(new, <<k, j>>)}]
  <2>1. entries[k].in \cup {j \in Node : <<j, k>> \in links} = {j \in Node : Known(new, <<j, k>>)}
      BY <1>1, <1>6, <1>7
  <2>2. entries[k].out \cup {j \in Node : <<k, j>> \in links} = {j \in Node : Known(new, <<k, j>>)}
      BY <1>1, <1>6, <1>7
  <2>. QED BY <1>4, <1>7, <2>1, <2>2
<1>. QED BY <1>2, <1>4, <1>5, <1>7 DEF Counted

(* A node answers: its peers that were not seen are seen now, and asked if *)
(* they are on the port of the network and have an address.                *)
LEMMA AnswerRight ==
    ASSUME NEW c \in Network, Right(c, crawls[c]), NEW x \in crawls[c].pending,
           NEW saved, saved = {y \in Unseen(c, x) : ~peerOnWrongPort(c, x, y)},
           NEW next, next = {y \in saved : <<x, y>> \notin Hidden}, NEW new,
           new = [seen |-> crawls[c].seen \cup Unseen(c, x),
                  connections |-> updateConnections(crawls[c].connections, x),
                  pending |-> (crawls[c].pending \ {x}) \cup next,
                  requests |-> [y \in Node |-> crawls[c].requests[y] + IF y \in next THEN 1 ELSE 0],
                  answered |-> crawls[c].answered \cup {x}]
    PROVE  Right(c, new)
<1>. DEFINE old == crawls[c]
<1>1. /\ IsCrawl(old) /\ AskedWereSeen(c, old) /\ AtMostOnce(c, old)
      /\ SeenWereAsked(c, old) /\ Counted(old) /\ x \in old.pending
    BY DEF Right
<1>2. /\ new.seen = old.seen \cup Unseen(c, x) /\ new.pending = (old.pending \ {x}) \cup next
      /\ new.requests = [y \in Node |-> old.requests[y] + IF y \in next THEN 1 ELSE 0]
      /\ new.answered = old.answered \cup {x}
      /\ new.connections = updateConnections(old.connections, x)
      /\ new = [seen |-> new.seen, connections |-> new.connections, pending |-> new.pending,
                requests |-> new.requests, answered |-> new.answered]
    OBVIOUS
<1>3. /\ Unseen(c, x) = Reported(x) \ old.seen /\ next \subseteq Unseen(c, x)
      /\ x \in Node /\ Reported(x) \subseteq Node
    BY <1>1, Constants DEF Unseen, IsCrawl
<1>. HIDE DEF old
<1>4. Counted(new) /\ DOMAIN new.connections \subseteq Node
    BY <1>1, <1>2, <1>3, UpdateConnectionsCounts
<1>5. \A y \in Node : old.requests[y] \in Nat
    BY <1>1 DEF IsCrawl
<1>6. IsCrawl(new)
  <2>1. new.requests \in [Node -> Nat]
      BY <1>2, <1>5
  <2>2. {new.seen, new.pending, new.answered} \subseteq SUBSET Node
      BY <1>1, <1>2, <1>3 DEF IsCrawl
  <2>. QED BY <1>2, <1>4, <2>1, <2>2 DEF IsCrawl
<1>7. AskedWereSeen(c, new)
    BY <1>1, <1>2, <1>3 DEF AskedWereSeen
<1>8. AtMostOnce(c, new)
  <2>. SUFFICES ASSUME NEW y \in Node
                PROVE  new.requests[y] <= (IF y \in new.seen THEN 1 ELSE 0)
                                          + (IF y = entryOf(c) THEN 1 ELSE 0)
      BY DEF AtMostOnce
  <2>1. old.requests[y] <= (IF y \in old.seen THEN 1 ELSE 0) + (IF y = entryOf(c) THEN 1 ELSE 0)
      BY <1>1 DEF AtMostOnce
  <2>2. CASE y \in next
      BY <1>2, <1>3, <1>5, <2>1, <2>2
  <2>3. CASE y \notin next
      BY <1>2, <1>5, <2>1, <2>3
  <2>. QED BY <2>2, <2>3
<1>9. SeenWereAsked(c, new)
  <2>1. \A z \in new.answered : Reported(z) \subseteq new.seen
      BY <1>1, <1>2, <1>3 DEF SeenWereAsked
  <2>2. ASSUME NEW y \in old.seen PROVE LeftOut(c, y) \/ new.requests[y] > 0
      BY <1>1, <1>2, <1>5, <2>2 DEF SeenWereAsked, IsCrawl
  <2>3. ASSUME NEW y \in Unseen(c, x) PROVE LeftOut(c, y) \/ new.requests[y] > 0
    <3>1. CASE y \in next
        BY <1>2, <1>3, <1>5, <3>1
    <3>2. CASE y \notin next
        BY <1>3, <3>2 DEF LeftOut, peerOnWrongPort
    <3>. QED BY <3>1, <3>2
  <2>. QED BY <1>2, <2>1, <2>2, <2>3 DEF SeenWereAsked
<1>. QED BY <1>4, <1>6, <1>7, <1>8, <1>9 DEF Right

-----------------------------------------------------------------------------
LEMMA InitInv == CrawlerInit => CrawlerInv
BY CrawlerAssumption DEF CrawlerInit, CrawlerInv, Shape, Ids

(* An answer, a refusal or a failure changes one crawl, and issues queries.*)
LEMMA ProceedInv ==
    ASSUME CrawlerInv, NEW c \in DOMAIN crawls, NEW new, Right(c, new),
           NEW saves, saves \subseteq {SaveNode(x) : x \in Node}, Proceed(c, new, saves)
    PROVE  CrawlerInv'
<1>1. c \in networks /\ Shape
    BY DEF CrawlerInv, Shape
<1>2. /\ DOMAIN crawls' = DOMAIN crawls /\ crawls' = [d \in DOMAIN crawls' |-> crawls'[d]]
      /\ crawls'[c] = new /\ \A d \in DOMAIN crawls : d # c => crawls'[d] = crawls[d]
    BY DEF Proceed
<1>3. UNCHANGED <<networks, named>>
    BY DEF Proceed
<1>4. \A d \in DOMAIN crawls' : Right(d, crawls'[d])
    BY <1>2 DEF CrawlerInv
<1>5. writes' \subseteq Writes'
  <2>1. DOMAIN new.connections \subseteq Node
      BY DEF Right, IsCrawl
  <2>2. SaveConnections(c, DOMAIN new.connections) \subseteq SaveConnections(c, Node)
      BY <2>1 DEF SaveConnections
  <2>3. SaveConnections(c, DOMAIN new.connections) \subseteq Writes
      BY <1>1, <2>2 DEF Writes
  <2>4. writes \cup saves \subseteq Writes /\ Writes' = Writes
      BY <1>1, <1>3 DEF Shape, Writes
  <2>. QED BY <2>3, <2>4 DEF Proceed
<1>. QED BY <1>1, <1>2, <1>3, <1>4, <1>5 DEF CrawlerInv, Shape, Right, Ids

LEMMA CommitInv ==
    ASSUME CrawlerInv, NEW w \in writes, Commit(w)
    PROVE  CrawlerInv'
<1>1. Shape /\ UNCHANGED <<networks, crawls>> /\ writes' \subseteq writes
    BY DEF CrawlerInv, Commit
<1>. DEFINE Column == Ids \cup {NoRow, NoNetwork}
<1>2. ASSUME NEW x \in Node, w = SaveNode(x) PROVE named' \in [Node -> Column]
  <2>1. Saved(x) \in Column
      BY <1>1 DEF Saved, Shape
  <2>2. w[1] = "save" /\ w[2] = x
      BY <1>2 DEF SaveNode
  <2>. QED BY <1>1, <2>1, <2>2 DEF Commit, Shape
<1>3. ASSUME NEW n \in networks, w \in SaveConnections(n, Node) PROVE named' \in [Node -> Column]
  <2>1. PICK x \in Node : w = <<"name", x, n.id>>
      BY <1>3 DEF SaveConnections
  <2>2. w[1] = "name" /\ w[2] = x /\ w[3] = n.id
      BY <2>1
  <2>3. Named(x, n.id) \in Column
      BY DEF Named, Ids
  <2>. QED BY <1>1, <2>2, <2>3 DEF Commit, Shape
<1>4. named' \in [Node -> Column]
    BY <1>1, <1>2, <1>3 DEF Shape, Writes
<1>5. Column' = Column /\ Writes' = Writes
    BY <1>1 DEF Ids, Writes
<1>6. named' \in [Node -> Ids' \cup {NoRow, NoNetwork}]
    BY <1>4, <1>5
<1>. QED BY <1>1, <1>5, <1>6 DEF CrawlerInv, Shape

LEMMA NextInv == CrawlerInv /\ [CrawlerNext]_crawlerVars => CrawlerInv'
<1>. SUFFICES ASSUME CrawlerInv, [CrawlerNext]_crawlerVars PROVE CrawlerInv'
    OBVIOUS
<1>1. CASE Crawl
  <2>1. \A c \in networks : Right(c, NewCrawl(c)) /\ IsCrawl(NewCrawl(c))
      BY NewCrawlRight DEF CrawlerInv, Shape, Right
  <2>2. /\ DOMAIN crawls' = networks /\ crawls' = [c \in DOMAIN crawls' |-> crawls'[c]]
        /\ \A c \in networks : crawls'[c] = NewCrawl(c)
      BY <1>1 DEF Crawl
  <2>3. UNCHANGED <<networks, named, writes, Ids, Writes>>
      BY <1>1 DEF Crawl, Ids, Writes
  <2>. QED BY <2>1, <2>2, <2>3 DEF CrawlerInv, Shape
<1>2. ASSUME NEW c \in DOMAIN crawls, NEW x \in crawls[c].pending, Answer(c, x) PROVE CrawlerInv'
  <2>. DEFINE saved == {y \in Unseen(c, x) : ~peerOnWrongPort(c, x, y)}
              next == {y \in saved : <<x, y>> \notin Hidden}
              new == [seen |-> crawls[c].seen \cup Unseen(c, x),
                      connections |-> updateConnections(crawls[c].connections, x),
                      pending |-> (crawls[c].pending \ {x}) \cup next,
                      requests |-> [y \in Node |-> crawls[c].requests[y] + IF y \in next THEN 1 ELSE 0],
                      answered |-> crawls[c].answered \cup {x}]
              saves == {SaveNode(y) : y \in saved \cup {x}}
  <2>1. c \in Network /\ Right(c, crawls[c])
      BY DEF CrawlerInv, Shape
  <2>2. Right(c, new)
      BY <2>1, AnswerRight
  <2>3. saves \subseteq {SaveNode(y) : y \in Node}
      BY <2>1, Constants DEF Right, IsCrawl, Unseen
  <2>4. Proceed(c, new, saves)
      BY <1>2 DEF Answer
  <2>. QED BY <2>2, <2>3, <2>4, ProceedInv
<1>3. ASSUME NEW c \in DOMAIN crawls, NEW x \in crawls[c].pending, Refuse(c, x) \/ Fail(c, x)
      PROVE  CrawlerInv'
  <2>1. c \in Network /\ Right(c, crawls[c]) /\ x \in Node
      BY DEF CrawlerInv, Shape, Right, IsCrawl
  <2>2. CASE Refuse(c, x)
    <3>. DEFINE new == [crawls[c] EXCEPT !.connections = removeConnection(@, host(x)),
                                         !.pending = @ \ {x}]
    <3>1. Right(c, new)
        BY <2>1, DroppedRight
    <3>2. Proceed(c, new, {})
        BY <2>2 DEF Refuse
    <3>. QED BY <3>1, <3>2, ProceedInv
  <2>3. CASE Fail(c, x)
    <3>. DEFINE new == [crawls[c] EXCEPT !.pending = @ \ {x}]
    <3>1. Right(c, new)
        BY <2>1, DroppedRight
    <3>2. Proceed(c, new, {})
        BY <2>3 DEF Fail
    <3>. QED BY <3>1, <3>2, ProceedInv
  <2>. QED BY <1>3, <2>2, <2>3
<1>4. ASSUME NEW w \in writes, Commit(w) PROVE CrawlerInv'
    BY <1>4, CommitInv
<1>5. CASE UNCHANGED crawlerVars
  <2>1. UNCHANGED <<networks, crawls, named, writes, Ids, Writes>>
      BY <1>5 DEF crawlerVars, Ids, Writes
  <2>. QED BY <2>1 DEF CrawlerInv, Shape
<1>. QED BY <1>1, <1>2, <1>3, <1>4, <1>5 DEF CrawlerNext, Respond, CommitAny

LEMMA AlwaysInv == CrawlerSpec => []CrawlerInv
BY InitInv, NextInv, PTL DEF CrawlerSpec

-----------------------------------------------------------------------------
(* The types of the variables, whatever nodes report.                      *)
THEOREM TypeCorrect == CrawlerSpec => []CrawlerTypeOK
<1>1. CrawlerInv => CrawlerTypeOK
  <2>. SUFFICES ASSUME CrawlerInv PROVE CrawlerTypeOK
      OBVIOUS
  <2>1. \A c \in DOMAIN crawls :
            /\ DOMAIN crawls[c].connections \subseteq Node
            /\ crawls[c].seen \subseteq Node
            /\ crawls[c].pending \cup crawls[c].answered \subseteq crawls[c].seen \cup {entryOf(c)}
      BY DEF CrawlerInv, Right, IsCrawl, AskedWereSeen
  <2>2. named \in [Node -> {n.id : n \in networks} \cup {NoRow, NoNetwork}]
      BY Zenon DEF CrawlerInv, Shape, Ids
  <2>3. /\ networks \subseteq Network /\ DOMAIN crawls \subseteq networks
        /\ writes \subseteq {SaveNode(x) : x \in Node}
                       \cup UNION {SaveConnections(n, Node) : n \in networks}
      BY Zenon DEF CrawlerInv, Shape, Writes
  <2>. QED BY <2>1, <2>2, <2>3, Zenon DEF CrawlerTypeOK
<1>. QED BY <1>1, AlwaysInv, PTL

(* However the branches interleave, a node gets one request of a crawl,    *)
(* the entry two at most: any graph, any number of networks.               *)
THEOREM AskedOnce == CrawlerSpec => []OncePerCrawl
<1>1. CrawlerInv => OncePerCrawl
  <2>. SUFFICES ASSUME CrawlerInv, NEW c \in DOMAIN crawls, NEW x \in Node
                PROVE  crawls[c].requests[x] <= IF x = entryOf(c) THEN 2 ELSE 1
      BY DEF OncePerCrawl
  <2>1. crawls[c].requests[x] \in Nat /\ AtMostOnce(c, crawls[c])
      BY DEF CrawlerInv, Right, IsCrawl
  <2>. QED BY <2>1 DEF AtMostOnce
<1>. QED BY <1>1, AlwaysInv, PTL

(* A crawl that has ended leaves out no peer of a node that answered, but  *)
(* those on other ports and those some node hides.                         *)
THEOREM NoneLeftOut == CrawlerSpec => []EveryPeerIsCrawled
<1>1. CrawlerInv => EveryPeerIsCrawled
    BY DEF CrawlerInv, Right, SeenWereAsked, LeftOut, EveryPeerIsCrawled
<1>. QED BY <1>1, AlwaysInv, PTL

(* Connections are counted once at each end, in the right direction.       *)
THEOREM ExactCounts == CrawlerSpec => []CountsAreExact
<1>1. CrawlerInv => CountsAreExact
  <2>. SUFFICES ASSUME CrawlerInv, NEW c \in DOMAIN crawls,
                       NEW k \in DOMAIN crawls[c].connections
                PROVE  crawls[c].connections[k] =
                           [in |-> {j \in Node : Known(crawls[c], <<j, k>>)},
                            out |-> {j \in Node : Known(crawls[c], <<k, j>>)}]
      BY DEF CountsAreExact, Known
  <2>. QED BY DEF CrawlerInv, Right, Counted
<1>. QED BY <1>1, AlwaysInv, PTL
-----------------------------------------------------------------------------
(* The networks column. *)

HasNetwork(x) == named[x] \notin {NoRow, NoNetwork}

(* What a round that has found x with a row leaves to be done for it.      *)
NamedOrAboutToBe(x) ==
    \A c \in DOMAIN crawls :
        Ended(c) /\ x \in DOMAIN crawls[c].connections
        => HasNetwork(x) \/ <<"name", x, c.id>> \in writes

LEMMA CommitNames ==
    ASSUME CrawlerInv, NEW x \in Node, NEW w \in writes, Commit(w)
    PROVE  /\ named[x] # NoRow => named'[x] # NoRow
           /\ HasNetwork(x) => HasNetwork(x)'
           /\ named[x] # NoRow /\ w[1] = "name" /\ w[2] = x => HasNetwork(x)'
<1>1. /\ DOMAIN named = Node /\ NoRow # NoNetwork
      /\ \A n \in networks : n.id \notin {NoRow, NoNetwork}
      /\ w \in Writes
    BY CrawlerAssumption DEF CrawlerInv, Shape, Network
<1>2. CASE w \in {SaveNode(y) : y \in Node}
  <2>1. PICK y \in Node : w = SaveNode(y)
      BY <1>2
  <2>2. w[1] = "save" /\ w[2] = y
      BY <2>1 DEF SaveNode
  <2>3. named' = [named EXCEPT ![y] = Saved(y)]
      BY <2>2 DEF Commit
  <2>. QED BY <1>1, <2>2, <2>3 DEF Saved, HasNetwork
<1>3. CASE \E n \in networks : w \in SaveConnections(n, Node)
  <2>1. PICK n \in networks : w \in SaveConnections(n, Node)
      BY <1>3
  <2>2. PICK y \in Node : w = <<"name", y, n.id>>
      BY <2>1 DEF SaveConnections
  <2>3. w[1] = "name" /\ w[2] = y /\ w[3] = n.id
      BY <2>2
  <2>4. named' = [named EXCEPT ![y] = Named(y, n.id)]
      BY <2>3 DEF Commit
  <2>. QED BY <1>1, <2>3, <2>4 DEF Named, HasNetwork
<1>. QED BY <1>1, <1>2, <1>3 DEF Writes

LEMMA ProceedNames ==
    ASSUME CrawlerInv, NEW x \in Node, NamedOrAboutToBe(x),
           NEW c \in DOMAIN crawls, NEW new, NEW saves, Proceed(c, new, saves)
    PROVE  NamedOrAboutToBe(x)' /\ named' = named
<1>1. named' = named /\ writes \subseteq writes' /\ DOMAIN crawls' = DOMAIN crawls
    BY DEF Proceed
<1>2. ASSUME NEW d \in DOMAIN crawls', crawls'[d].pending = {}, x \in DOMAIN crawls'[d].connections
      PROVE  HasNetwork(x)' \/ <<"name", x, d.id>> \in writes'
  <2>1. CASE d = c
    <3>1. crawls'[d] = new
        BY <2>1 DEF Proceed
    <3>2. SaveConnections(c, DOMAIN new.connections) \subseteq writes'
        BY <1>2, <3>1 DEF Proceed
    <3>. QED BY <1>2, <2>1, <3>1, <3>2 DEF SaveConnections
  <2>2. CASE d # c
    <3>1. crawls'[d] = crawls[d]
        BY <1>2, <2>2 DEF Proceed
    <3>. QED BY <1>1, <1>2, <3>1 DEF NamedOrAboutToBe, HasNetwork, Ended
  <2>. QED BY <2>1, <2>2
<1>. QED BY <1>1, <1>2 DEF NamedOrAboutToBe, Ended

LEMMA StepNames ==
    ASSUME CrawlerInv, [CrawlerNext]_crawlerVars, NEW x \in Node
    PROVE  /\ named[x] # NoRow => named'[x] # NoRow
           /\ HasNetwork(x) => HasNetwork(x)'
           /\ named[x] # NoRow /\ NamedOrAboutToBe(x) => NamedOrAboutToBe(x)'
<1>1. CASE Crawl
  <2>1. named' = named /\ \A c \in DOMAIN crawls' : crawls'[c].pending # {}
      BY <1>1 DEF Crawl, NewCrawl
  <2>. QED BY <2>1 DEF HasNetwork, NamedOrAboutToBe, Ended
<1>2. CASE Respond
  <2>1. PICK c \in DOMAIN crawls : \E new, saves : Proceed(c, new, saves)
      BY <1>2 DEF Respond, Answer, Refuse, Fail
  <2>2. named' = named
      BY <2>1 DEF Proceed
  <2>. QED BY <2>1, <2>2, ProceedNames DEF HasNetwork
<1>3. CASE CommitAny
  <2>1. PICK w \in writes : Commit(w)
      BY <1>3 DEF CommitAny
  <2>2. UNCHANGED crawls /\ writes' = writes \ {w}
      BY <2>1 DEF Commit
  <2>3. ASSUME named[x] # NoRow, NamedOrAboutToBe(x), NEW c \in DOMAIN crawls,
               Ended(c), x \in DOMAIN crawls[c].connections
        PROVE  HasNetwork(x)' \/ <<"name", x, c.id>> \in writes'
    <3>1. CASE HasNetwork(x)
        BY <2>1, <3>1, CommitNames
    <3>2. CASE <<"name", x, c.id>> \in writes
      <4>1. CASE w = <<"name", x, c.id>>
          BY <2>1, <2>3, <4>1, CommitNames
      <4>. QED BY <2>2, <3>2, <4>1
    <3>. QED BY <2>3, <3>1, <3>2 DEF NamedOrAboutToBe
  <2>4. named[x] # NoRow /\ NamedOrAboutToBe(x) => NamedOrAboutToBe(x)'
      BY <2>2, <2>3 DEF NamedOrAboutToBe, Ended
  <2>. QED BY <2>1, <2>4, CommitNames
<1>4. CASE UNCHANGED crawlerVars
    BY <1>4 DEF crawlerVars, HasNetwork, NamedOrAboutToBe, Ended
<1>. QED BY <1>1, <1>2, <1>3, <1>4 DEF CrawlerNext

(* saveNode merges into a row without setting networks: whatever the order *)
(* in which the queries commit, a node that has a network keeps one.       *)
THEOREM NamesStay ==
    ASSUME NEW x \in Node
    PROVE  CrawlerSpec => [][HasNetwork(x) => HasNetwork(x)']_crawlerVars
<1>1. CrawlerInv /\ [CrawlerNext]_crawlerVars => [HasNetwork(x) => HasNetwork(x)']_crawlerVars
    BY StepNames
<1>. QED BY <1>1, AlwaysInv, PTL DEF CrawlerSpec

(* saveConnections - the safety half of NodesGetNamed: a node that has its *)
(* row when no crawl of the round has ended has a network as soon as the   *)
(* queries of a crawl that found it are committed, in this round and in    *)
(* every later one.                                                        *)
THEOREM RoundNames ==
    ASSUME NEW x \in Node
    PROVE  /\ CrawlerInv /\ named[x] # NoRow /\ \A c \in DOMAIN crawls : ~Ended(c)
           /\ [][CrawlerNext]_crawlerVars
           => [](/\ \E c \in DOMAIN crawls : Ended(c) /\ x \in DOMAIN crawls[c].connections
                 /\ writes = {}
                 => HasNetwork(x))
<1>. DEFINE RowSeen == named[x] # NoRow /\ NamedOrAboutToBe(x)
            NamedInTheEnd == /\ \E c \in DOMAIN crawls :
                                    Ended(c) /\ x \in DOMAIN crawls[c].connections
                             /\ writes = {}
                             => HasNetwork(x)
<1>1. CrawlerInv /\ RowSeen /\ [CrawlerNext]_crawlerVars => CrawlerInv' /\ RowSeen'
    BY NextInv, StepNames
<1>2. /\ named[x] # NoRow /\ (\A c \in DOMAIN crawls : ~Ended(c)) => RowSeen
      /\ RowSeen => NamedInTheEnd
    BY DEF NamedOrAboutToBe
<1>. HIDE DEF RowSeen, NamedInTheEnd
<1>3. CrawlerInv /\ RowSeen /\ [][CrawlerNext]_crawlerVars => []NamedInTheEnd
    BY <1>1, <1>2, PTL
<1>. QED BY <1>2, <1>3 DEF NamedInTheEnd
=============================================================================
