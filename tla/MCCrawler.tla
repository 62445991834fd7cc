------------------------------ MODULE MCCrawler -------------------------------
(* A small instance of Crawler: two networks of which the second one has a *)
(* UNL; a triangle a, b, c, of which c hides b, and d on another port.         *)
EXTENDS Crawler

CONSTANTS a, b, c, d, unlA, unlC, urlA, urlC

mcLinks == {<<a, b>>, <<a, c>>, <<c, b>>, <<b, d>>}
mcHidden == {<<c, b>>}
mcPortOf == [x \in Node |-> IF x = d THEN 2 ELSE 1]
mcRangeOf == [x \in Node |-> 0]
mcUnlOf == [x \in Node |-> CASE x = a -> unlA [] x = c -> unlC [] OTHER -> NoUnl]
mcNodeAt == [u \in Url |-> IF u = urlA THEN a ELSE c]
mcNetworks == {[id |-> 1, entry |-> urlA, port |-> 1, unls |-> {Rpc}],
               [id |-> 2, entry |-> urlC, port |-> 1, unls |-> {unlC}]}
=============================================================================
