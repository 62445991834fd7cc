----------------------------- MODULE MCListCache ------------------------------
(* A small instance of ListCache: two rows, one of which changes, and two  *)
(* requests at once with each other and with the first refresh.            *)
EXTENDS ListCache

CONSTANTS k1, k2, r1, r2
=============================================================================
