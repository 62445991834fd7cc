----------------------------- MODULE MCAgreement -----------------------------
(* Small instances of Agreement.  The ledger before a flag ledger is the   *)
(* one at index 3.                                                         *)
EXTENDS Agreement, TLC

CONSTANTS v1, v2, v3, v4, h2, f2, h3, h4

Indexes == h2 :> 2 @@ f2 :> 2 @@ h3 :> 3 @@ h4 :> 4
MCIndexOf == [h \in Ledger |-> Indexes[h]]

(* v3 is the second signing key of the validator whose first is v2. *)
RotatedKey == [v \in Validator |-> IF v = v1 THEN "A" ELSE "B"]
Rotated == {<<v2, v3>>}

(* Each key has a master of its own, but v4 has none. *)
OwnKey == [v \in Validator |-> IF v = v1 THEN "A" ELSE IF v = v2 THEN "B" ELSE IF v = v3 THEN "C" ELSE v]

(* Two validators on each of two chains, and then one of them on both. *)
Healing == ({v1, v2} \X {h2}) \cup ({v3, v4} \X {f2}) \cup ({v1, v3} \X {h3})

(* The ledger before a flag ledger, and the one after it. *)
Following == {v1, v2} \X {h3, h4}

Steady == ({v1, v2} \X {h2, h3}) \cup {<<v3, h3>>}
=============================================================================
