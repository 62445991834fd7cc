---------------------------- MODULE MCConnections ----------------------------
(* Small instances of Connections.  The URL of the entry node is derived   *)
(* from its host name, which it does not contain (deriveWsUrl).            *)
EXTENDS Connections, TLC

CONSTANTS entry, p, we, wp

Endpoints == entry :> {we} @@ p :> {wp}
MCUrlsOf == [n \in Entry \cup Peer |-> Endpoints[n]]
Nowhere == [n \in Entry |-> {}]
=============================================================================
