-------------------------- MODULE ConnectionsProofs ---------------------------
(***************************************************************************)
(* What holds of the sockets and of the table connection_health for any    *)
(* nodes and endpoints, any number of sockets, retries, cycles and         *)
(* restarts, and any number of writes that wait to be committed.           *)
(***************************************************************************)
EXTENDS Connections, SequenceTheorems, TLAPS

(* What a row will say when its writes are committed in order.             *)
Final(u) == IF writes[u] = <<>> THEN Connected(u) ELSE writes[u][Len(writes[u])].connected

SubscribedAt(u) == \E s \in At(u) : Subscribed(s)

(* The open handler runs once, when the socket opens, and subscribes at    *)
(* its end only; a socket that closed under it is one of the races.        *)
Stages ==
    \A s \in DOMAIN sock :
        /\ sock[s].ready \in {"connecting", "closing"} => sock[s].opened = "no"
        /\ sock[s].ready = "open" => sock[s].opened \in {"checking", "subscribed"}
        /\ sock[s].ready = Closed => sock[s].opened = "checking" /\ sock[s].url \in raced

(* The last write of a row was issued by the last socket that subscribed   *)
(* or closed.                                                              *)
LastWrite == \A u \in Url \ raced : Final(u) <=> SubscribedAt(u)

ConnectionsInv == TypeOK /\ Stages /\ LastWrite

-----------------------------------------------------------------------------
(* Sequences of writes. *)

LEMMA AppendedWrite ==
    ASSUME NEW w \in Seq(Write), NEW e \in Write
    PROVE  /\ Append(w, e) \in Seq(Write)
           /\ Append(w, e) # <<>>
           /\ Append(w, e)[Len(Append(w, e))] = e
<1>1. /\ Append(w, e) \in Seq(Write) /\ Len(Append(w, e)) = Len(w) + 1
      /\ Append(w, e)[Len(w) + 1] = e /\ Len(w) \in Nat
    BY AppendProperties, LenProperties
<1>2. Len(<<>>) = 0
    BY EmptySeq
<1>. QED BY <1>1, <1>2

(* Without one of its elements a sequence is one shorter, and its last     *)
(* element stays unless it was that one.                                   *)
LEMMA RemovedWrite ==
    ASSUME NEW w \in Seq(Write), NEW i \in DOMAIN w
    PROVE  LET rest == SubSeq(w, 1, i - 1) \o SubSeq(w, i + 1, Len(w))
           IN  /\ rest \in Seq(Write)
               /\ w # <<>> /\ Len(w) \in Nat \ {0} /\ w[i] \in Write
               /\ i = 1 /\ Len(w) = 1 => rest = <<>>
               /\ i = 1 /\ Len(w) # 1 => rest # <<>> /\ rest[Len(rest)] = w[Len(w)]
<1>. DEFINE before == SubSeq(w, 1, i - 1)
            after == SubSeq(w, i + 1, Len(w))
<1>1. Len(w) \in Nat /\ DOMAIN w = 1..Len(w) /\ \A j \in 1..Len(w) : w[j] \in Write
    BY LenProperties, ElementOfSeq
<1>2. i \in 1..Len(w) /\ w # <<>>
    BY <1>1, EmptySeq
<1>3. \A j \in 1..(i - 1) : w[j] \in Write
    BY <1>1, <1>2
<1>4. \A j \in (i + 1)..Len(w) : w[j] \in Write
    BY <1>1, <1>2
<1>5. before \in Seq(Write) /\ Len(before) = i - 1
  <2>. HIDE DEF before
  <2>1. before \in Seq(Write) /\ Len(before) = IF 1 <= i - 1 THEN (i - 1) - 1 + 1 ELSE 0
      BY <1>1, <1>2, <1>3, SubSeqProperties DEF before
  <2>. QED BY <1>2, <2>1
<1>6. /\ after \in Seq(Write) /\ Len(after) = Len(w) - i
      /\ \A j \in 1..(Len(w) - i) : after[j] = w[i + j]
  <2>. HIDE DEF after
  <2>1. /\ after \in Seq(Write)
        /\ Len(after) = IF i + 1 <= Len(w) THEN Len(w) - (i + 1) + 1 ELSE 0
        /\ \A j \in 1..(Len(w) - (i + 1) + 1) : after[j] = w[(i + 1) + j - 1]
      BY <1>1, <1>2, <1>4, SubSeqProperties DEF after
  <2>2. ASSUME NEW j \in 1..(Len(w) - i)
        PROVE  after[j] = w[i + j]
    <3>1. j \in 1..(Len(w) - (i + 1) + 1) /\ (i + 1) + j - 1 = i + j
        BY <1>1, <1>2
    <3>. QED BY <2>1, <3>1
  <2>. QED BY <1>1, <1>2, <2>1, <2>2
<1>7. /\ before \o after \in Seq(Write)
      /\ Len(before \o after) = Len(w) - 1
      /\ i = 1 => \A j \in 1..(Len(w) - 1) : (before \o after)[j] = w[1 + j]
  <2>. HIDE DEF before, after
  <2>1. /\ before \o after \in Seq(Write)
        /\ Len(before \o after) = Len(before) + Len(after)
        /\ \A j \in 1..(Len(before) + Len(after)) :
              (before \o after)[j] = IF j <= Len(before) THEN before[j] ELSE after[j - Len(before)]
      BY <1>5, <1>6, ConcatProperties
  <2>2. Len(before) + Len(after) = Len(w) - 1
      BY <1>1, <1>2, <1>5, <1>6
  <2>3. ASSUME i = 1, NEW j \in 1..(Len(w) - 1)
        PROVE  (before \o after)[j] = w[1 + j]
    <3>1. (before \o after)[j] = after[j]
        BY <1>1, <1>5, <2>1, <2>2, <2>3
    <3>. QED BY <1>1, <1>6, <2>3, <3>1
  <2>. QED BY <2>1, <2>2, <2>3
<1>8. ASSUME i = 1, Len(w) = 1
      PROVE  before \o after = <<>>
    BY <1>7, <1>8, EmptySeq
<1>9. ASSUME i = 1, Len(w) # 1
      PROVE  /\ before \o after # <<>>
             /\ (before \o after)[Len(before \o after)] = w[Len(w)]
  <2>1. Len(w) - 1 \in 1..(Len(w) - 1) /\ 1 + (Len(w) - 1) = Len(w)
      BY <1>1, <1>2, <1>9
  <2>2. (before \o after)[Len(w) - 1] = w[Len(w)]
    <3>. HIDE DEF before, after
    <3>. QED BY <1>7, <1>9, <2>1
  <2>3. before \o after # <<>>
    <3>. HIDE DEF before, after
    <3>1. Len(<<>>) = 0 /\ Len(before \o after) = Len(w) - 1
        BY <1>7, EmptySeq
    <3>. QED BY <1>1, <1>2, <1>9, <3>1
  <2>. QED BY <1>7, <2>2, <2>3
<1>. QED BY <1>1, <1>2, <1>7, <1>8, <1>9

-----------------------------------------------------------------------------
(* The table and its writes. *)

LEMMA IssuedWrite ==
    ASSUME TypeOK, NEW u \in Url, NEW n \in Node, NEW b \in BOOLEAN,
           Issue(u, n, b), UNCHANGED connection_health
    PROVE  /\ writes' \in [Url -> Seq(Write)]
           /\ Final(u)' = b
           /\ \A v \in Url : v # u => Final(v)' = Final(v)
<1>. DEFINE e == [connected |-> b, node |-> n]
<1>1. e \in Write /\ e.connected = b
    BY DEF Write
<1>2. writes \in [Url -> Seq(Write)]
    BY DEF TypeOK
<1>3. writes' = [writes EXCEPT ![u] = Append(writes[u], e)]
    BY DEF Issue
<1>4. /\ Append(writes[u], e) \in Seq(Write) /\ Append(writes[u], e) # <<>>
      /\ Append(writes[u], e)[Len(Append(writes[u], e))] = e
    BY <1>1, <1>2, AppendedWrite
<1>5. writes' \in [Url -> Seq(Write)] /\ writes'[u] = Append(writes[u], e)
    BY <1>2, <1>3, <1>4
<1>6. Final(u)' = e.connected
    BY <1>4, <1>5 DEF Final
<1>7. ASSUME NEW v \in Url, v # u
      PROVE  Final(v)' = Final(v)
  <2>1. writes'[v] = writes[v] /\ Connected(v)' = Connected(v)
      BY <1>2, <1>3, <1>7 DEF Connected
  <2>. QED BY <2>1 DEF Final
<1>. QED BY <1>1, <1>5, <1>6, <1>7

LEMMA CommittedWrite ==
    ASSUME TypeOK, NEW u \in Url, Commit(u)
    PROVE  /\ DOMAIN connection_health' \subseteq Url
           /\ connection_health' \in [DOMAIN connection_health' -> Write]
           /\ writes' \in [Url -> Seq(Write)]
           /\ raced \subseteq raced' /\ raced' \subseteq Url
           /\ \A v \in Url \ raced' : Final(v)' = Final(v)
<1>1. PICK i \in DOMAIN writes[u] :
          /\ connection_health' = WrittenBy(writes[u][i], u)
          /\ writes' = [writes EXCEPT ![u] =
                            SubSeq(writes[u], 1, i - 1) \o SubSeq(writes[u], i + 1, Len(writes[u]))]
          /\ raced' = IF i = 1 THEN raced ELSE raced \cup {u}
    BY DEF Commit
<1>. DEFINE w == writes[u]
            rest == SubSeq(w, 1, i - 1) \o SubSeq(w, i + 1, Len(w))
<1>2. /\ writes \in [Url -> Seq(Write)] /\ DOMAIN connection_health \subseteq Url
      /\ connection_health \in [DOMAIN connection_health -> Write] /\ raced \subseteq Url
    BY DEF TypeOK
<1>3. /\ rest \in Seq(Write) /\ w # <<>> /\ Len(w) \in Nat \ {0} /\ w[i] \in Write
      /\ i = 1 /\ Len(w) = 1 => rest = <<>>
      /\ i = 1 /\ Len(w) # 1 => rest # <<>> /\ rest[Len(rest)] = w[Len(w)]
  <2>1. w \in Seq(Write)
      BY <1>2
  <2>. QED BY <2>1, RemovedWrite
<1>. HIDE DEF rest
<1>4. writes' = [writes EXCEPT ![u] = rest]
    BY <1>1 DEF rest
<1>5. writes' \in [Url -> Seq(Write)] /\ writes'[u] = rest
      /\ \A v \in Url : v # u => writes'[v] = writes[v]
    BY <1>2, <1>3, <1>4
<1>6. /\ DOMAIN connection_health' \subseteq Url
      /\ connection_health' \in [DOMAIN connection_health' -> Write]
      /\ Connected(u)' = w[i].connected
      /\ \A v \in Url : v # u => Connected(v)' = Connected(v)
  <2>1. w[i].connected \in BOOLEAN
      BY <1>3 DEF Write
  <2>2. CASE w[i].connected
    <3>1. connection_health' = [v \in DOMAIN connection_health \cup {u} |->
                                  IF v = u THEN w[i] ELSE connection_health[v]]
        BY <1>1, <2>2 DEF WrittenBy
    <3>. QED BY <1>2, <1>3, <2>2, <3>1 DEF Connected
  <2>3. CASE ~w[i].connected /\ u \in DOMAIN connection_health
    <3>1. connection_health' = [connection_health EXCEPT ![u].connected = FALSE]
        BY <1>1, <2>3 DEF WrittenBy
    <3>2. /\ [connection_health[u] EXCEPT !.connected = FALSE] \in Write
          /\ [connection_health[u] EXCEPT !.connected = FALSE].connected = FALSE
        BY <1>2, <2>3 DEF Write
    <3>3. /\ DOMAIN connection_health' = DOMAIN connection_health
          /\ connection_health' \in [DOMAIN connection_health -> Write]
          /\ connection_health'[u].connected = FALSE
          /\ \A v \in DOMAIN connection_health : v # u => connection_health'[v] = connection_health[v]
        BY <1>2, <2>3, <3>1, <3>2
    <3>4. w[i].connected = FALSE /\ Connected(u)' = FALSE
        BY <2>1, <2>3, <3>3 DEF Connected
    <3>5. \A v \in Url : v # u => Connected(v)' = Connected(v)
        BY <3>3 DEF Connected
    <3>. QED BY <1>2, <3>3, <3>4, <3>5
  <2>4. CASE ~w[i].connected /\ u \notin DOMAIN connection_health
    <3>1. connection_health' = connection_health
        BY <1>1, <2>4 DEF WrittenBy
    <3>2. w[i].connected = FALSE /\ Connected(u)' = FALSE
        BY <2>1, <2>4, <3>1 DEF Connected
    <3>3. \A v \in Url : Connected(v)' = Connected(v)
        BY <3>1 DEF Connected
    <3>. QED BY <1>2, <3>1, <3>2, <3>3
  <2>. QED BY <2>1, <2>2, <2>3, <2>4
<1>7. raced \subseteq raced' /\ raced' \subseteq Url
    BY <1>1, <1>2
<1>8. ASSUME NEW v \in Url \ raced'
      PROVE  Final(v)' = Final(v)
  <2>1. CASE v # u
      BY <1>5, <1>6, <2>1 DEF Final
  <2>2. CASE v = u
    <3>1. i = 1
        BY <1>1, <1>8, <2>2
    <3>2. CASE Len(w) = 1
        BY <1>3, <1>5, <1>6, <2>2, <3>1, <3>2 DEF Final
    <3>3. CASE Len(w) # 1
        BY <1>3, <1>5, <2>2, <3>1, <3>3 DEF Final
    <3>. QED BY <3>2, <3>3
  <2>. QED BY <2>1, <2>2
<1>. QED BY <1>5, <1>6, <1>7, <1>8

-----------------------------------------------------------------------------
(* The sockets. *)

(* The slots given to new sockets are free.                                *)
LEMMA FreeSlots ==
    ASSUME NEW k
    PROVE  FirstFree(k) \subseteq Socket \ DOMAIN sock
BY DEF FirstFree

LEMMA NewSocketTyped ==
    ASSUME NEW u \in Url, NEW n \in Node, NEW k \in 0..MaxRetries, NEW b \in BOOLEAN
    PROVE  /\ NewSocket(u, n, k, b) \in SocketState
           /\ NewSocket(u, n, k, b).ready = "connecting"
           /\ NewSocket(u, n, k, b).opened = "no"
BY DEF NewSocket, SocketState, Closed

(* A socket moves on, and the others stay as they are.                     *)
Moves(s, r) ==
    /\ DOMAIN sock' = DOMAIN sock
    /\ sock' \in [DOMAIN sock -> SocketState]
    /\ sock'[s] = r
    /\ \A t \in DOMAIN sock : t # s => sock'[t] = sock[t]

LEMMA MovedSocket ==
    ASSUME TypeOK, NEW s \in DOMAIN sock, NEW r \in SocketState,
           sock' = [sock EXCEPT ![s] = r]
    PROVE  Moves(s, r)
BY DEF TypeOK, Moves

LEMMA EndedSocket ==
    ASSUME TypeOK, NEW s \in DOMAIN sock, sock' = Ended({s})
    PROVE  /\ DOMAIN sock' = DOMAIN sock \ {s}
           /\ sock' \in [DOMAIN sock' -> SocketState]
           /\ \A t \in DOMAIN sock' : sock'[t] = sock[t]
BY DEF TypeOK, Ended

(* No socket subscribes, and none that is subscribed ends.                 *)
SameSubscribers ==
    /\ \A s \in DOMAIN sock : Subscribed(s) =>
          s \in DOMAIN sock' /\ Subscribed(s)' /\ sock'[s].url = sock[s].url
    /\ \A s \in DOMAIN sock' : Subscribed(s)' =>
          s \in DOMAIN sock /\ Subscribed(s) /\ sock'[s].url = sock[s].url

LEMMA SameSubscribersAt ==
    ASSUME SameSubscribers, NEW u
    PROVE  SubscribedAt(u)' <=> SubscribedAt(u)
<1>1. ASSUME SubscribedAt(u)
      PROVE  SubscribedAt(u)'
    BY <1>1 DEF SubscribedAt, At, SameSubscribers
<1>2. ASSUME SubscribedAt(u)'
      PROVE  SubscribedAt(u)
    BY <1>2 DEF SubscribedAt, At, SameSubscribers
<1>. QED BY <1>1, <1>2

LEMMA LastWriteStays ==
    ASSUME LastWrite, SameSubscribers, raced \subseteq raced',
           \A u \in Url \ raced' : Final(u)' = Final(u)
    PROVE  LastWrite'
<1>1. ASSUME NEW u \in Url \ raced'
      PROVE  Final(u)' <=> SubscribedAt(u)'
  <2>1. Final(u) <=> SubscribedAt(u)
      BY DEF LastWrite
  <2>. QED BY <2>1, SameSubscribersAt
<1>. QED BY <1>1 DEF LastWrite

LEMMA UnwrittenRows ==
    ASSUME UNCHANGED <<connection_health, writes>>, NEW u
    PROVE  Final(u)' = Final(u)
BY DEF Final, Connected

-----------------------------------------------------------------------------
(* Each action keeps the invariant. *)

(* What leaves the table and its writes alone and subscribes nobody.       *)
LEMMA SocketStep ==
    ASSUME ConnectionsInv, SameSubscribers, Stages',
           DOMAIN sock' \subseteq Socket, sock' \in [DOMAIN sock' -> SocketState],
           timers' \subseteq timers, toFind' \subseteq toFind,
           UNCHANGED <<connection_health, writes, finding, raced>>
    PROVE  ConnectionsInv'
<1>1. TypeOK'
    BY DEF ConnectionsInv, TypeOK
<1>2. LastWrite'
    BY UnwrittenRows, LastWriteStays DEF ConnectionsInv
<1>. QED BY <1>1, <1>2 DEF ConnectionsInv

(* What leaves the sockets alone, too.                                     *)
LEMMA NoSocketStep ==
    ASSUME ConnectionsInv, UNCHANGED <<connection_health, writes, sock, timers, raced>>,
           toFind' \subseteq Node, toFind' # {} => finding'
    PROVE  ConnectionsInv'
<1>1. TypeOK' /\ Stages'
    BY DEF ConnectionsInv, TypeOK, Stages
<1>2. LastWrite'
    BY DEF ConnectionsInv, LastWrite, Final, Connected, SubscribedAt, At, Subscribed
<1>. QED BY <1>1, <1>2 DEF ConnectionsInv

LEMMA TargetsAreNodes == Targets \subseteq SUBSET Node
BY DEF Targets, Node

LEMMA CycleStep ==
    ASSUME ConnectionsInv, CreateConnections \/ ConnectionsCreated \/ \E n \in Node : LeaveConnected(n)
    PROVE  ConnectionsInv'
<1>1. toFind \subseteq Node /\ (toFind # {} => finding)
    BY DEF ConnectionsInv, TypeOK
<1>2. CASE CreateConnections
    BY <1>2, NoSocketStep, TargetsAreNodes DEF CreateConnections
<1>3. CASE ConnectionsCreated
    BY <1>3, NoSocketStep DEF ConnectionsCreated
<1>4. ASSUME NEW n \in Node, LeaveConnected(n)
      PROVE  ConnectionsInv'
    BY <1>1, <1>4, NoSocketStep DEF LeaveConnected
<1>. QED BY <1>2, <1>3, <1>4

(* New sockets are no subscribers, whatever slots they get.                *)
LEMMA NewSockets ==
    ASSUME ConnectionsInv, NEW S \in SUBSET (Socket \ DOMAIN sock), NEW new \in [S -> SocketState],
           \A s \in S : new[s].ready = "connecting" /\ new[s].opened = "no",
           sock' = [s \in DOMAIN sock \cup S |-> IF s \in DOMAIN sock THEN sock[s] ELSE new[s]],
           timers' \subseteq timers, toFind' \subseteq toFind,
           UNCHANGED <<connection_health, writes, finding, raced>>
    PROVE  ConnectionsInv'
<1>1. DOMAIN sock \subseteq Socket /\ sock \in [DOMAIN sock -> SocketState]
    BY DEF ConnectionsInv, TypeOK
<1>2. DOMAIN sock' \subseteq Socket /\ sock' \in [DOMAIN sock' -> SocketState]
    BY <1>1
<1>3. Stages'
    BY DEF ConnectionsInv, Stages, Closed
<1>4. SameSubscribers
    BY DEF SameSubscribers, Subscribed
<1>. QED BY <1>2, <1>3, <1>4, SocketStep

LEMMA FindConnectionStep ==
    ASSUME ConnectionsInv, NEW n \in Node, FindConnection(n)
    PROVE  ConnectionsInv'
<1>1. PICK slot \in Injection(UrlsOf[n], FirstFree(Cardinality(UrlsOf[n]))) :
          sock' = [s \in DOMAIN sock \cup Range(slot) |->
                     IF s \in DOMAIN sock THEN sock[s]
                     ELSE NewSocket(CHOOSE u \in UrlsOf[n] : slot[u] = s, n, 0, TRUE)]
    BY DEF FindConnection
<1>. DEFINE made(s) == NewSocket(CHOOSE u \in UrlsOf[n] : slot[u] = s, n, 0, TRUE)
            new == [s \in Range(slot) |-> made(s)]
<1>2. slot \in [UrlsOf[n] -> FirstFree(Cardinality(UrlsOf[n]))]
    BY DEF Injection
<1>3. Range(slot) \subseteq Socket \ DOMAIN sock
    BY <1>2, FreeSlots DEF Range
<1>4. UrlsOf[n] \subseteq Url /\ 0 \in 0..MaxRetries
    BY ConnectionsAssumption
<1>5. ASSUME NEW s \in Range(slot)
      PROVE  /\ made(s) \in SocketState
             /\ made(s).ready = "connecting" /\ made(s).opened = "no"
  <2>1. \E u \in UrlsOf[n] : slot[u] = s
      BY <1>2 DEF Range
  <2>2. (CHOOSE u \in UrlsOf[n] : slot[u] = s) \in Url
      BY <1>4, <2>1
  <2>. QED BY <1>4, <2>2, NewSocketTyped
<1>6. sock' = [s \in DOMAIN sock \cup Range(slot) |-> IF s \in DOMAIN sock THEN sock[s] ELSE made(s)]
    BY <1>1
<1>. HIDE DEF made
<1>7. /\ new \in [Range(slot) -> SocketState]
      /\ \A s \in Range(slot) : new[s].ready = "connecting" /\ new[s].opened = "no"
      /\ sock' = [s \in DOMAIN sock \cup Range(slot) |-> IF s \in DOMAIN sock THEN sock[s] ELSE new[s]]
    BY <1>5, <1>6
<1>8. /\ timers' \subseteq timers /\ toFind' \subseteq toFind
      /\ UNCHANGED <<connection_health, writes, finding, raced>>
    BY DEF FindConnection
<1>. HIDE DEF new
<1>. QED BY <1>3, <1>7, <1>8, NewSockets

LEMMA ReconnectStep ==
    ASSUME ConnectionsInv, NEW t \in timers, Reconnect(t)
    PROVE  ConnectionsInv'
<1>1. PICK s \in FirstFree(1) :
          sock' = [r \in DOMAIN sock \cup {s} |->
                     IF r = s THEN NewSocket(t.url, t.node, t.retry, FALSE) ELSE sock[r]]
    BY DEF Reconnect
<1>. DEFINE new == [r \in {s} |-> NewSocket(t.url, t.node, t.retry, FALSE)]
<1>2. s \in Socket \ DOMAIN sock
    BY FreeSlots
<1>3. t.url \in Url /\ t.node \in Node /\ t.retry \in 0..MaxRetries
    BY ConnectionsAssumption DEF ConnectionsInv, TypeOK
<1>4. /\ NewSocket(t.url, t.node, t.retry, FALSE) \in SocketState
      /\ NewSocket(t.url, t.node, t.retry, FALSE).ready = "connecting"
      /\ NewSocket(t.url, t.node, t.retry, FALSE).opened = "no"
    BY <1>3, NewSocketTyped
<1>5. /\ new \in [{s} -> SocketState]
      /\ \A r \in {s} : new[r].ready = "connecting" /\ new[r].opened = "no"
    BY <1>4
<1>6. sock' = [r \in DOMAIN sock \cup {s} |-> IF r \in DOMAIN sock THEN sock[r] ELSE new[r]]
    BY <1>1, <1>2
<1>7. /\ timers' \subseteq timers /\ toFind' \subseteq toFind
      /\ UNCHANGED <<connection_health, writes, finding, raced>>
    BY DEF Reconnect
<1>. HIDE DEF new
<1>. QED BY <1>2, <1>5, <1>6, <1>7, NewSockets

(* The moves of a socket that neither subscribe it nor issue a write.      *)
LEMMA OpenStep ==
    ASSUME ConnectionsInv, NEW s \in DOMAIN sock, Open(s)
    PROVE  ConnectionsInv'
<1>1. DOMAIN sock \subseteq Socket /\ sock \in [DOMAIN sock -> SocketState] /\ Stages
    BY DEF ConnectionsInv, TypeOK
<1>. DEFINE r == [sock[s] EXCEPT !.ready = "open", !.opened = "checking"]
<1>2. r \in SocketState /\ r.ready = "open" /\ r.opened = "checking" /\ r.url = sock[s].url
    BY <1>1 DEF SocketState
<1>3. sock[s].opened = "no"
    BY <1>1 DEF Open, Stages
<1>4. Moves(s, r)
    BY <1>2, MovedSocket DEF Open, ConnectionsInv
<1>. HIDE DEF r
<1>5. Stages' /\ SameSubscribers
    BY <1>1, <1>2, <1>3, <1>4 DEF Moves, Stages, SameSubscribers, Subscribed, Closed, Open
<1>6. DOMAIN sock' = DOMAIN sock /\ sock' \in [DOMAIN sock' -> SocketState]
    BY <1>4 DEF Moves
<1>. QED BY <1>1, <1>5, <1>6, SocketStep DEF Open

LEMMA OpenIsDuplicateStep ==
    ASSUME ConnectionsInv, NEW s \in DOMAIN sock, OpenIsDuplicate(s)
    PROVE  ConnectionsInv'
<1>1. DOMAIN sock \subseteq Socket /\ sock \in [DOMAIN sock -> SocketState] /\ Stages /\ TypeOK
    BY DEF ConnectionsInv, TypeOK
<1>2. sock[s].opened = "checking"
    BY DEF OpenIsDuplicate
<1>3. CASE sock[s].ready = Closed
  <2>1. /\ DOMAIN sock' = DOMAIN sock \ {s} /\ sock' \in [DOMAIN sock' -> SocketState]
        /\ \A t \in DOMAIN sock' : sock'[t] = sock[t]
      BY <1>1, <1>3, EndedSocket DEF OpenIsDuplicate
  <2>2. Stages' /\ SameSubscribers
      BY <1>1, <1>2, <2>1 DEF Stages, SameSubscribers, Subscribed, OpenIsDuplicate
  <2>. QED BY <1>1, <2>1, <2>2, SocketStep DEF OpenIsDuplicate
<1>4. CASE sock[s].ready # Closed
  <2>. DEFINE r == [sock[s] EXCEPT !.ready = "closing", !.opened = "no", !.awaited = FALSE]
  <2>1. r \in SocketState /\ r.ready = "closing" /\ r.opened = "no" /\ r.url = sock[s].url
      BY <1>1 DEF SocketState
  <2>2. Moves(s, r)
      BY <1>1, <1>4, <2>1, MovedSocket DEF OpenIsDuplicate
  <2>. HIDE DEF r
  <2>3. raced' = raced
      BY DEF OpenIsDuplicate
  <2>4. Stages'
      BY <1>1, <2>1, <2>2, <2>3 DEF Moves, Stages, Closed
  <2>5. SameSubscribers
      BY <1>2, <2>1, <2>2 DEF Moves, SameSubscribers, Subscribed
  <2>6. DOMAIN sock' = DOMAIN sock /\ sock' \in [DOMAIN sock' -> SocketState]
      BY <2>2 DEF Moves
  <2>. QED BY <1>1, <2>4, <2>5, <2>6, SocketStep DEF OpenIsDuplicate
<1>. QED BY <1>3, <1>4

(* Pings, pongs and silence change no stage.                               *)
LEMMA HeartbeatStep ==
    ASSUME ConnectionsInv, NEW s \in DOMAIN sock, Ping(s) \/ Pong(s) \/ PeerVanishes(s)
    PROVE  ConnectionsInv'
<1>1. DOMAIN sock \subseteq Socket /\ sock \in [DOMAIN sock -> SocketState] /\ Stages /\ TypeOK
    BY DEF ConnectionsInv, TypeOK
<1>2. \E r \in SocketState :
          /\ sock' = [sock EXCEPT ![s] = r]
          /\ r.ready = sock[s].ready /\ r.opened = sock[s].opened /\ r.url = sock[s].url
  <2>1. CASE Ping(s)
    <3>. DEFINE r == [sock[s] EXCEPT !.pongReceived = FALSE]
    <3>1. r \in SocketState /\ r.ready = sock[s].ready /\ r.opened = sock[s].opened /\ r.url = sock[s].url
        BY <1>1 DEF SocketState
    <3>2. sock' = [sock EXCEPT ![s] = r]
        BY <1>1, <2>1 DEF Ping, Reset
    <3>. QED BY <3>1, <3>2
  <2>2. CASE Pong(s)
    <3>. DEFINE r == [sock[s] EXCEPT !.pongReceived = TRUE]
    <3>1. r \in SocketState /\ r.ready = sock[s].ready /\ r.opened = sock[s].opened /\ r.url = sock[s].url
        BY <1>1 DEF SocketState
    <3>2. sock' = [sock EXCEPT ![s] = r]
        BY <1>1, <2>2 DEF Pong
    <3>. QED BY <3>1, <3>2
  <2>3. CASE PeerVanishes(s)
    <3>. DEFINE r == [sock[s] EXCEPT !.silent = TRUE]
    <3>1. r \in SocketState /\ r.ready = sock[s].ready /\ r.opened = sock[s].opened /\ r.url = sock[s].url
        BY <1>1 DEF SocketState
    <3>2. sock' = [sock EXCEPT ![s] = r]
        BY <1>1, <2>3 DEF PeerVanishes
    <3>. QED BY <3>1, <3>2
  <2>. QED BY <2>1, <2>2, <2>3
<1>3. PICK r \in SocketState :
          /\ sock' = [sock EXCEPT ![s] = r]
          /\ r.ready = sock[s].ready /\ r.opened = sock[s].opened /\ r.url = sock[s].url
    BY <1>2
<1>4. Moves(s, r)
    BY <1>1, <1>3, MovedSocket
<1>5. /\ timers' \subseteq timers /\ toFind' \subseteq toFind
      /\ UNCHANGED <<connection_health, writes, finding, raced>>
    BY DEF Ping, Pong, PeerVanishes
<1>6. Stages' /\ SameSubscribers
    BY <1>1, <1>3, <1>4, <1>5 DEF Moves, Stages, SameSubscribers, Subscribed
<1>7. DOMAIN sock' = DOMAIN sock /\ sock' \in [DOMAIN sock' -> SocketState]
    BY <1>4 DEF Moves
<1>. QED BY <1>1, <1>5, <1>6, <1>7, SocketStep

(* The open handler ends: its write is the last of its row, and says what  *)
(* the socket now is, unless the socket has closed meanwhile.              *)
LEMMA OpenSubscribesStep ==
    ASSUME ConnectionsInv, NEW s \in DOMAIN sock, OpenSubscribes(s)
    PROVE  ConnectionsInv'
<1>1. /\ DOMAIN sock \subseteq Socket /\ sock \in [DOMAIN sock -> SocketState]
      /\ Stages /\ TypeOK /\ LastWrite
    BY DEF ConnectionsInv, TypeOK
<1>. PICK u \in Url : u = sock[s].url
    BY <1>1 DEF SocketState
<1>. PICK n \in Node : n = sock[s].node
    BY <1>1 DEF SocketState
<1>2. sock[s].opened = "checking"
    BY DEF OpenSubscribes
<1>3. /\ writes' \in [Url -> Seq(Write)]
      /\ Final(u)' = TRUE /\ \A v \in Url : v # u => Final(v)' = Final(v)
  <2>1. Issue(u, n, TRUE) /\ UNCHANGED connection_health
      BY DEF OpenSubscribes
  <2>. QED BY <1>1, <2>1, IssuedWrite
<1>4. UNCHANGED <<connection_health, timers, finding, toFind, raced>>
    BY DEF OpenSubscribes
<1>5. CASE sock[s].ready = Closed
  <2>1. /\ DOMAIN sock' = DOMAIN sock \ {s} /\ sock' \in [DOMAIN sock' -> SocketState]
        /\ \A t \in DOMAIN sock' : sock'[t] = sock[t]
      BY <1>1, <1>5, EndedSocket DEF OpenSubscribes
  <2>2. Stages' /\ SameSubscribers
      BY <1>1, <1>2, <1>4, <2>1 DEF Stages, SameSubscribers, Subscribed
  <2>3. u \in raced
      BY <1>1, <1>5 DEF Stages
  <2>4. LastWrite'
      BY <1>1, <1>3, <1>4, <2>2, <2>3, LastWriteStays
  <2>5. TypeOK'
      BY <1>1, <1>3, <1>4, <2>1 DEF TypeOK
  <2>. QED BY <2>2, <2>4, <2>5 DEF ConnectionsInv
<1>6. CASE sock[s].ready # Closed
  <2>. DEFINE r == [sock[s] EXCEPT !.opened = "subscribed", !.awaited = FALSE]
  <2>1. /\ r \in SocketState /\ r.ready = sock[s].ready /\ r.opened = "subscribed" /\ r.url = u
      BY <1>1 DEF SocketState
  <2>2. Moves(s, r)
      BY <1>1, <1>6, <2>1, MovedSocket DEF OpenSubscribes
  <2>. HIDE DEF r
  <2>3. sock[s].ready = "open"
      BY <1>1, <1>2, <1>6 DEF Stages, SocketState
  <2>4. Stages'
      BY <1>1, <1>4, <2>1, <2>2, <2>3 DEF Moves, Stages, Closed
  <2>5. SubscribedAt(u)'
      BY <2>1, <2>2 DEF Moves, SubscribedAt, At, Subscribed
  <2>6. ASSUME NEW v \in Url, v # u
        PROVE  SubscribedAt(v)' <=> SubscribedAt(v)
      BY <2>1, <2>2, <2>6 DEF Moves, SubscribedAt, At, Subscribed
  <2>7. LastWrite'
      BY <1>1, <1>3, <1>4, <2>5, <2>6 DEF LastWrite
  <2>8. TypeOK'
      BY <1>1, <1>3, <1>4, <2>2 DEF TypeOK, Moves
  <2>. QED BY <2>4, <2>7, <2>8 DEF ConnectionsInv
<1>. QED BY <1>5, <1>6

(* The close handler: its write is the last of its row, and no socket of   *)
(* the URL stays subscribed, unless this is one of the races.              *)
LEMMA CloseStep ==
    ASSUME ConnectionsInv, NEW s \in DOMAIN sock, NEW code, Close(s, code)
    PROVE  ConnectionsInv'
<1>1. /\ DOMAIN sock \subseteq Socket /\ sock \in [DOMAIN sock -> SocketState]
      /\ Stages /\ TypeOK /\ LastWrite
    BY DEF ConnectionsInv, TypeOK
<1>. PICK u \in Url : u = sock[s].url
    BY <1>1 DEF SocketState
<1>. PICK n \in Node : n = sock[s].node
    BY <1>1 DEF SocketState
<1>2. sock[s].retry \in 0..MaxRetries
    BY <1>1 DEF SocketState
<1>3. /\ writes' \in [Url -> Seq(Write)]
      /\ Final(u)' = FALSE /\ \A v \in Url : v # u => Final(v)' = Final(v)
  <2>1. Issue(u, n, FALSE) /\ UNCHANGED connection_health
      BY DEF Close, UpdateStatus
  <2>. QED BY <1>1, <2>1, IssuedWrite
<1>4. /\ UNCHANGED <<connection_health, finding, toFind>>
      /\ raced \subseteq raced' /\ raced' \subseteq Url
      /\ sock[s].opened = "checking" => u \in raced'
      /\ u \notin raced' => \A t \in At(u) \ {s} : ~Subscribed(t)
    BY <1>1, <1>2 DEF Close, TypeOK
<1>5. timers' \subseteq [url : Url, node : Node, retry : 1..MaxRetries]
  <2>1. sock[s].retry < MaxRetries => sock[s].retry + 1 \in 1..MaxRetries
      BY <1>2, ConnectionsAssumption
  <2>2. Reconnection(s, code) \subseteq [url : Url, node : Node, retry : 1..MaxRetries]
      BY <1>2, <2>1 DEF Reconnection, RetriesLeft
  <2>. QED BY <1>1, <2>2 DEF Close, TypeOK
<1>6. CASE sock[s].opened = "checking"
  <2>. DEFINE r == [sock[s] EXCEPT !.ready = Closed, !.awaited = FALSE]
  <2>1. /\ r \in SocketState /\ r.ready = Closed /\ r.opened = "checking" /\ r.url = u
      BY <1>1, <1>6 DEF SocketState
  <2>2. Moves(s, r)
      BY <1>1, <1>6, <2>1, MovedSocket DEF Close
  <2>. HIDE DEF r
  <2>3. Stages'
      BY <1>1, <1>4, <1>6, <2>1, <2>2 DEF Moves, Stages, Closed
  <2>4. SameSubscribers
      BY <1>6, <2>1, <2>2 DEF Moves, SameSubscribers, Subscribed
  <2>5. LastWrite'
      BY <1>1, <1>3, <1>4, <1>6, <2>4, LastWriteStays
  <2>6. TypeOK'
      BY <1>1, <1>3, <1>4, <1>5, <2>2 DEF TypeOK, Moves
  <2>. QED BY <2>3, <2>5, <2>6 DEF ConnectionsInv
<1>7. CASE sock[s].opened # "checking"
  <2>1. /\ DOMAIN sock' = DOMAIN sock \ {s} /\ sock' \in [DOMAIN sock' -> SocketState]
        /\ \A t \in DOMAIN sock' : sock'[t] = sock[t]
      BY <1>1, <1>7, EndedSocket DEF Close
  <2>2. Stages'
      BY <1>1, <1>4, <2>1 DEF Stages
  <2>3. u \notin raced' => ~SubscribedAt(u)'
      BY <1>4, <2>1 DEF SubscribedAt, At, Subscribed
  <2>4. ASSUME NEW v \in Url, v # u
        PROVE  SubscribedAt(v)' <=> SubscribedAt(v)
      BY <2>1, <2>4 DEF SubscribedAt, At, Subscribed
  <2>5. LastWrite'
      BY <1>1, <1>3, <1>4, <2>3, <2>4 DEF LastWrite
  <2>6. TypeOK'
      BY <1>1, <1>3, <1>4, <1>5, <2>1 DEF TypeOK
  <2>. QED BY <2>2, <2>5, <2>6 DEF ConnectionsInv
<1>. QED BY <1>6, <1>7

LEMMA ClosingStep ==
    ASSUME ConnectionsInv, NEW s \in DOMAIN sock,
           HandshakeFails(s) \/ CloseCompletes(s) \/ PeerCloses(s) \/ TerminateDead(s)
    PROVE  ConnectionsInv'
<1>1. \E code : Close(s, code)
    BY DEF HandshakeFails, CloseCompletes, PeerCloses, TerminateDead
<1>. QED BY <1>1, CloseStep

LEMMA CommitStep ==
    ASSUME ConnectionsInv, NEW u \in Url, Commit(u)
    PROVE  ConnectionsInv'
<1>1. TypeOK /\ Stages /\ LastWrite
    BY DEF ConnectionsInv
<1>2. UNCHANGED <<sock, timers, finding, toFind>>
    BY DEF Commit
<1>3. /\ DOMAIN connection_health' \subseteq Url
      /\ connection_health' \in [DOMAIN connection_health' -> Write]
      /\ writes' \in [Url -> Seq(Write)]
      /\ raced \subseteq raced' /\ raced' \subseteq Url
      /\ \A v \in Url \ raced' : Final(v)' = Final(v)
    BY <1>1, CommittedWrite
<1>4. TypeOK'
    BY <1>1, <1>2, <1>3 DEF TypeOK
<1>5. Stages' /\ SameSubscribers
    BY <1>1, <1>2, <1>3 DEF Stages, SameSubscribers, Subscribed
<1>6. LastWrite'
    BY <1>1, <1>3, <1>5, LastWriteStays
<1>. QED BY <1>4, <1>5, <1>6 DEF ConnectionsInv

(* Nothing is connected, written or open.                                  *)
LEMMA EmptyIsInv ==
    ASSUME connection_health = [u \in {} |-> {}], writes = [u \in Url |-> <<>>],
           sock = [s \in {} |-> {}], timers = {}, toFind = {}, raced = {}
    PROVE  ConnectionsInv
<1>1. <<>> \in Seq(Write)
    BY EmptySeq
<1>2. TypeOK
    BY <1>1 DEF TypeOK
<1>3. Stages /\ LastWrite
    BY DEF Stages, LastWrite, Final, Connected, SubscribedAt, At
<1>. QED BY <1>2, <1>3 DEF ConnectionsInv

LEMMA RestartStep ==
    ASSUME Restart
    PROVE  ConnectionsInv'
<1>1. <<>> \in Seq(Write)
    BY EmptySeq
<1>2. /\ connection_health' = [u \in {} |-> {}] /\ writes' = [u \in Url |-> <<>>]
      /\ sock' = [s \in {} |-> {}] /\ timers' = {} /\ toFind' = {} /\ raced' = {}
    BY DEF Restart, clearConnectionHealthDb
<1>3. TypeOK'
    BY <1>1, <1>2 DEF TypeOK
<1>4. Stages' /\ LastWrite'
    BY <1>2 DEF Stages, LastWrite, Final, Connected, SubscribedAt, At
<1>. QED BY <1>3, <1>4 DEF ConnectionsInv

LEMMA ConnectionsInvStep == ConnectionsInv /\ [Next]_vars => ConnectionsInv'
<1>. SUFFICES ASSUME ConnectionsInv, [Next]_vars
              PROVE  ConnectionsInv'
    OBVIOUS
<1>1. CASE CreateConnections \/ Cycle
    BY <1>1, CycleStep, FindConnectionStep DEF Cycle
<1>2. ASSUME NEW s \in Socket, Progress(s) \/ Network(s)
      PROVE  ConnectionsInv'
    BY <1>2, OpenStep, OpenIsDuplicateStep, OpenSubscribesStep, HeartbeatStep, ClosingStep
    DEF Progress, Network
<1>3. ASSUME NEW t \in timers, Reconnect(t)
      PROVE  ConnectionsInv'
    BY <1>3, ReconnectStep
<1>4. ASSUME NEW u \in Url, Commit(u)
      PROVE  ConnectionsInv'
    BY <1>4, CommitStep
<1>5. CASE Restart
    BY <1>5, RestartStep
<1>6. CASE UNCHANGED vars
  <2>1. toFind \subseteq Node /\ (toFind # {} => finding)
      BY DEF ConnectionsInv, TypeOK
  <2>. QED BY <1>6, <2>1, NoSocketStep DEF vars
<1>. QED BY <1>1, <1>2, <1>3, <1>4, <1>5, <1>6 DEF Next, EndOfRun

LEMMA ConnectionsInvAlways == Spec => []ConnectionsInv
<1>1. Init => ConnectionsInv
    BY EmptyIsInv DEF Init
<1>. QED BY <1>1, ConnectionsInvStep, PTL DEF Spec

-----------------------------------------------------------------------------

(* Whatever peers, timers and queries do, rows, writes, sockets and        *)
(* reconnections have the types TypeOK says; no socket is opened beyond    *)
(* MaxRetries, and nodes are looked for only while createConnections runs  *)
(* (connections.ts, setHandlers and createConnections).                    *)
THEOREM ConnectionsTypeCorrect == Spec => []TypeOK
<1>1. ConnectionsInv => TypeOK
    BY DEF ConnectionsInv
<1>. QED BY <1>1, ConnectionsInvAlways, PTL

(* A row of connection_health whose writes are committed says connected    *)
(* exactly if a subscribed socket of its URL is open, unless one of the    *)
(* three races spoiled it: refused connections, closings, reconnections,   *)
(* dead peers and restarts alone do not (connectionHealth.ts,              *)
(* saveConnectionHealth and updateConnectionHealthStatus).                 *)
THEOREM TruthfulHealth == Spec => []HealthIsTruthful
<1>1. ConnectionsInv => HealthIsTruthful
  <2>. SUFFICES ASSUME ConnectionsInv, NEW u \in Url \ raced, Quiet(u)
                PROVE  Connected(u) <=> Live(u)
      BY DEF HealthIsTruthful
  <2>1. Connected(u) <=> SubscribedAt(u)
      BY DEF ConnectionsInv, LastWrite, Final, Quiet
  <2>2. \A s \in At(u) : Subscribed(s) => sock[s].ready = "open"
    <3>1. \A s \in At(u) : s \in DOMAIN sock /\ sock[s] \in SocketState
        BY DEF At, ConnectionsInv, TypeOK
    <3>. QED BY <3>1 DEF ConnectionsInv, Stages, Subscribed, SocketState
  <2>. QED BY <2>1, <2>2 DEF SubscribedAt, Live
<1>. QED BY <1>1, ConnectionsInvAlways, PTL
=============================================================================
