------------------------------ MODULE MCNetworks ------------------------------
(* A small instance of NetworkLookup: two nodes with UNLs and one without, *)
(* of which the seeded network has one, and two URLs of a node.            *)
EXTENDS NetworkLookup, TLC

CONSTANTS a, b, c, unl, urlA, urlB, urlC, urlD, Rpc

mcRequests == Permutations(Request)

mcPortOf == [x \in Node |-> IF x = a THEN 1 ELSE 2]
mcUnlOf == [x \in Node |-> IF x = b THEN NoUnl ELSE unl]
mcNodeAt == [u \in Url |-> CASE u = urlA -> a [] u = urlB -> b [] OTHER -> c]
mcSeeded == [id |-> 0, entry |-> urlA, port |-> 1, unls |-> {Rpc}]
=============================================================================
