------------------------------ MODULE MCChains ------------------------------
(* A small instance of Chains: ledgers of a few indexes, with a fork at    *)
(* the first and a gap before the last.                                    *)
EXTENDS Chains, TLC

CONSTANTS v1, v2, v3, v4, h1, f1, h2, h4

Indexes == h1 :> 1 @@ f1 :> 1 @@ h2 :> 2 @@ h4 :> 4
MCIndexOf == [h \in Ledger |-> Indexes[h]]

(* Two pairs of validators on two chains, which meet at h2. *)
Meeting == ({v1, v2} \X {h1}) \cup ({v3, v4} \X {f1, h4}) \cup ({v1, v2, v3} \X {h2})
=============================================================================
