----------------------------- MODULE MCVoteCache ------------------------------
(* A small instance of VoteCache: one request at a time beside the call    *)
(* that loads the module, and two refreshes at once.                       *)
EXTENDS VoteCache

CONSTANTS r1, t1, t2
=============================================================================
